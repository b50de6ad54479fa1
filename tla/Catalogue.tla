----------------------------- MODULE Catalogue -----------------------------
(***************************************************************************)
(* The read-only routes beside the calls that place work: /health,         *)
(* /models, /models/loaded and /v1/models each render one snapshot, copied *)
(* entry by entry while the cache moves.                                   *)
(***************************************************************************)
EXTENDS Routing

VARIABLE page    \* the read-only request in progress

Pages == {"health", "models", "loaded"}    \* /v1/models lists what /models does
NoPage == [kind |-> "none", view |-> <<>>]

Rendered == page.kind # "none" /\ Len(page.view) = Last
Shown    == {page.view[p] : p \in Ids}

PageInit == Init /\ page = NoPage

(* Bound: one request at a time, of either kind. *)
Open(kind) ==
    /\ page.kind = "none" /\ call.pc = "idle"
    /\ page' = [kind |-> kind, view |-> <<>>]
    /\ UNCHANGED vars

(* A page reads an entry of any age: it has no staleness ceiling. *)
Copy(load, taken) ==
    /\ page.kind # "none" /\ ~ Rendered
    /\ page' = [page EXCEPT !.view = Append(@, Snapshot(Len(@) + 1, load, taken))]
    /\ UNCHANGED vars

Close ==
    /\ Rendered
    /\ page' = NoPage
    /\ UNCHANGED vars

(* Mutant: a status that counts any healthy provider as all of them. *)
HealthOfAny(snaps) == IF \E s \in snaps : s.healthy THEN "ok" ELSE "down"

(* health: its status. *)
HealthOf(snaps) ==
    CASE \A s \in snaps : s.healthy -> "ok"
      [] (\E s \in snaps : s.healthy) /\ (\E s \in snaps : ~ s.healthy) -> "degraded"
      [] OTHER -> "down"

(* _models_payload, v1_models: the ids of the models that are listed. *)
Listed(snaps, loaded_only) ==
    UNION {{m.id : m \in {n \in s.models : loaded_only => n.loaded}} : s \in snaps}

PageNext ==
    \/ Next /\ UNCHANGED page /\ (page.kind = "none" \/ UNCHANGED call)
    \/ \E kind \in Pages : Open(kind)
    \/ \E load \in Loads, taken \in Ages : Copy(load, taken)
    \/ Close

PageSpec == PageInit /\ [][PageNext]_<<vars, page>>

---------------------------------------------------------------------------
(* PROPERTIES *)

(* A call for a model and nothing else, with a tier that permits the cloud, *)
(* placed on what the page has shown.                                       *)
Plain(model) ==
    [model |-> model, capabilities |-> {}, tokens |-> 0, prefers |-> "none",
     cloud_permitted |-> TRUE]
PlacedOn(snaps, work) == Select(snaps, work, 1, {0})

(* /health tells a client what placement would, but for the age of what it  *)
(* shows: with the same snapshots, "down" means that every call is refused; *)
(* "ok" that no provider is rejected for its health, nor, by a call that    *)
(* asks for nothing, for more than its age or its lack of models; and       *)
(* anything but "ok" shows as such a rejection.                             *)
HealthAgreesWithPlacement ==
    Rendered /\ page.kind = "health" =>
        LET status == HealthOf(Shown)
            stages == {r.stage : r \in Rejections(Shown, Plain(AnyModel), 1, {0})}
        IN /\ status = "down" =>
                \A wish \in Wishes :
                    PlacedOn(Shown, [Workload(wish, resolve_privacy_tier("none"))
                                        EXCEPT !.cloud_permitted = TRUE]) = NoPlacement
           /\ status = "ok" => stages \subseteq {"stale", "context"}
           /\ status # "ok" => stages \cap {"stale", "health"} # {}

(* What the catalogues list can be had, if the entry that lists it is       *)
(* within the ceiling: such a model is served to a call that names it, and  *)
(* if an entry within the ceiling has it loaded, it is served without a     *)
(* load, but where a local provider has it unloaded and that entry is a     *)
(* cloud's.  A model of older entries only is listed, and refused.          *)
Current == {s \in Shown : s.taken_at = 1}
Warm(s, model) == \E m \in s.models : m.id = model /\ m.loaded
ListedIsServed ==
    Rendered /\ page.kind \in {"models", "loaded"} =>
        \A model \in Listed(Shown, page.kind = "loaded") :
            LET placed == PlacedOn(Shown, Plain(model))
                taker  == page.view[placed.provider]
            IN /\ placed # NoPlacement <=> \E s \in Current : model \in Names(s.models)
               /\ \A s \in Current : Warm(s, model) =>
                    \/ Warm(taker, model)
                    \/ taker.placement_class = "local" /\ s.placement_class = "cloud"
=============================================================================
