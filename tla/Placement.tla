----------------------------- MODULE Placement -----------------------------
(***************************************************************************)
(* Candidate filtering and placement (placement.py): the privacy filter,   *)
(* the stages that reject a provider, the choice of a model on it, and the *)
(* ranking of the providers that are left.                                 *)
(*                                                                         *)
(* A snapshot is a record                                                  *)
(*   [id, placement_class, healthy, capabilities, models, active_runs,     *)
(*    max_concurrency, taken_at, quality, tps]                             *)
(* of the attributes of its spec and of the provider's cached state; a     *)
(* model is [id, context_tokens, loaded]; ids are numbers (their order is  *)
(* the order of the strings), and provider ids are distinct                *)
(* (providers.py:88-90).  A request is a record                            *)
(*   [model, capabilities, tokens, prefers, cloud_permitted]               *)
(* with the tokens of context and output together, AnyModel when no model  *)
(* is named, prefers = "quality", "latency" or "none" (quality wins when   *)
(* both are asked for), and the resolved privacy.  max_age is the set of   *)
(* the staleness ceiling, empty for None.                                  *)
(***************************************************************************)
EXTENDS Integers, Sequences

CONSTANTS AnyModel,     \* the request names no model
          NoPlacement   \* a PlacementRefusal

(* ModelInfo: what an engine lists of a model.  Estimates, which the code   *)
(* has as floats, are numbers here too: only their order counts.            *)
ModelInfo == [id : Int, context_tokens : Int, loaded : BOOLEAN]

ASSUME ModelsAssumption == AnyModel \notin Int
ASSUME PlacementAssumption == NoPlacement \notin [provider : Int, model : Int]

QUEUE_SECONDS_PER_BACKLOGGED_RUN == 30

(* _queue_seconds *)
QueueSeconds(snap) ==
    LET backlog == snap.active_runs - snap.max_concurrency + 1
    IN IF backlog <= 0 THEN 0 ELSE backlog * QUEUE_SECONDS_PER_BACKLOGGED_RUN

(* filter_candidates: what the privacy of the request leaves. *)
Candidates(snaps, req) ==
    {s \in snaps : s.placement_class = "cloud" => req.cloud_permitted}

(* The models of a provider that the request asks for, and that fit it. *)
Asked(snap, req) ==
    {m \in snap.models : req.model # AnyModel => m.id = req.model}
Fitting(snap, req) ==
    {m \in Asked(snap, req) : m.context_tokens <= 0 \/ m.context_tokens >= req.tokens}

Stages == <<"privacy", "stale", "health", "capability", "model", "context">>

(* The stages at which a provider would fail, taken alone. *)
Failures(snap, req, now, max_age) ==
    {i \in 1..6 :
        \/ Stages[i] = "privacy"    /\ snap \notin Candidates({snap}, req)
        \/ Stages[i] = "stale"      /\ \E a \in max_age : now - snap.taken_at > a
        \/ Stages[i] = "health"     /\ ~ snap.healthy
        \/ Stages[i] = "capability" /\ ~ (req.capabilities \subseteq snap.capabilities)
        \/ Stages[i] = "model"      /\ req.model # AnyModel /\ Asked(snap, req) = {}
        \/ Stages[i] = "context"    /\ Fitting(snap, req) = {}}

(* Mutant: the last failure is reported. *)
StageLast(failed) == Stages[CHOOSE i \in failed : \A j \in failed : i >= j]

(* A provider is rejected at the first stage it fails at. *)
Stage(failed) == Stages[CHOOSE i \in failed : \A j \in failed : i <= j]

Eligible(snaps, req, now, max_age) ==
    {s \in snaps : Failures(s, req, now, max_age) = {}}

---------------------------------------------------------------------------
(* Sorting is by tuples of numbers; False sorts before True. *)
Key(b) == IF b THEN 1 ELSE 0

Less(a, b) ==
    \E i \in DOMAIN a : a[i] < b[i] /\ \A j \in 1..(i - 1) : a[j] = b[j]

(* Mutant: the widest model first, loaded or not. *)
ModelKeyWidest(m) == <<- m.context_tokens, Key(~ m.loaded), m.id>>

(* Of the fitting models, a loaded one, then the largest window, then the id. *)
ModelKey(m) == <<Key(~ m.loaded), - m.context_tokens, m.id>>

ModelOn(snap, req) ==
    CHOOSE m \in Fitting(snap, req) :
        \A n \in Fitting(snap, req) \ {m} : Less(ModelKey(m), ModelKey(n))

(* Mutant: a preference that comes before the placement class. *)
PreferenceFirst(snap, req) ==
    LET cold == Key(~ ModelOn(snap, req).loaded)
        wait == QueueSeconds(snap)
    IN CASE req.prefers = "quality" ->
              <<- snap.quality, - snap.tps, Key(snap.placement_class # "local")>>
         [] req.prefers = "latency" ->
              <<- snap.tps, wait, Key(snap.placement_class # "local")>>
         [] OTHER -> <<Key(snap.placement_class # "local"), cold, wait>>

(* _rank: the placement class, the preference, and the tiebreakers, but for *)
(* the provider id.                                                         *)
Preference(snap, req) ==
    LET away == Key(snap.placement_class # "local")
        cold == Key(~ ModelOn(snap, req).loaded)
        wait == QueueSeconds(snap)
    IN CASE req.prefers = "quality" -> <<away, - snap.quality, - snap.tps, cold, wait>>
         [] req.prefers = "latency" -> <<away, - snap.tps, wait, cold, wait>>
         [] OTHER                   -> <<away, cold, wait, cold, wait>>

Rank(snap, req) == Append(Preference(snap, req), snap.id)

(* The first of the eligible providers in that order. *)
Best(s, snaps, req, now, max_age) ==
    /\ s \in Eligible(snaps, req, now, max_age)
    /\ \A t \in Eligible(snaps, req, now, max_age) \ {s} : Less(Rank(s, req), Rank(t, req))

(* select_placement: the first provider and its model, if there is one, and *)
(* in any case the stage at which each of the others was rejected.          *)
Select(snaps, req, now, max_age) ==
    IF \E s \in snaps : Best(s, snaps, req, now, max_age)
    THEN LET s == CHOOSE s \in snaps : Best(s, snaps, req, now, max_age)
         IN [provider |-> s.id, model |-> ModelOn(s, req).id]
    ELSE NoPlacement

Rejections(snaps, req, now, max_age) ==
    {[provider |-> s.id, stage |-> Stage(Failures(s, req, now, max_age))] :
        s \in snaps \ Eligible(snaps, req, now, max_age)}
=============================================================================
