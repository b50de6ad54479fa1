------------------------------ MODULE Routing ------------------------------
(***************************************************************************)
(* One tier-bearing call (app.py: route_estimate, generate up to the       *)
(* creation of its run, v1_chat_completions up to the same point): the     *)
(* privacy of the call, a snapshot of the providers, placement, and what a *)
(* refusal is answered with.                                               *)
(*                                                                         *)
(* A snapshot copies one cache entry after the other and may suspend at    *)
(* any of them for a probe, so the cache moves under it (ProviderRegistry  *)
(* has the probes and their timing; here they are steps of the cache).  A  *)
(* refused /v1 call takes a second snapshot to tell 403, 503 and 404       *)
(* apart.                                                                  *)
(***************************************************************************)
EXTENDS Privacy, Placement, FiniteSets

CONSTANTS
    Fleet,         \* the ProviderSpecs, a sequence of [placement_class,
                   \*   capabilities, max_concurrency, quality, tps]
    Inventories,   \* what an engine may list: sets of models, also none
    Loads,         \* values of active_runs
    Ages,          \* 1: a snapshot within the staleness ceiling when it is used,
                   \*   0: one beyond it (any but a TTL of 0)
    Headers,       \* raw X-Privacy-Tier headers
    Bodies,        \* raw privacy_tier body fields
    Wishes         \* calls: [surface, complete, malformed, model,
                   \*   capabilities, tokens, prefers]

ASSUME FleetAssumption ==
    /\ Len(Fleet) \in Nat \ {0} /\ DOMAIN Fleet = 1..Len(Fleet)
    /\ \A p \in DOMAIN Fleet :
         Fleet[p].max_concurrency \in Int /\ Fleet[p].quality \in Int /\ Fleet[p].tps \in Int
ASSUME InventoriesAssumption ==
    \A models \in Inventories : IsFiniteSet(models) /\ models \subseteq ModelInfo
ASSUME LoadsAssumption == Loads \subseteq Nat
ASSUME RawsAssumption == Headers \subseteq Raws /\ Bodies \subseteq Raws
ASSUME AgesAssumption == Ages \subseteq {0, 1}
ASSUME WishesAssumption ==
    \A w \in Wishes :
        /\ w.surface \in {"estimate", "generate", "openai"}
        /\ w.surface = "openai" => (w.complete => w.model # AnyModel)

Ids == DOMAIN Fleet
Last == Len(Fleet)

VARIABLES
    cache,   \* provider |-> [healthy, models, known] of its _CacheEntry
    call     \* the call in progress

vars == <<cache, call>>

Names(models) == {m.id : m \in models}

Idle == [pc |-> "idle"]

(* Typing: of the cache, and of the call, idle or a record of these fields. *)
NameSets == {Names(models) : models \in {{}} \cup Inventories}
Snapshots ==
    [id : Ids, placement_class : {Fleet[p].placement_class : p \in Ids},
     capabilities : {Fleet[p].capabilities : p \in Ids},
     max_concurrency : {Fleet[p].max_concurrency : p \in Ids},
     quality : {Fleet[p].quality : p \in Ids}, tps : {Fleet[p].tps : p \in Ids},
     healthy : BOOLEAN, models : {{}} \cup Inventories, active_runs : Loads, taken_at : Ages]
CallFields == {"pc", "wish", "header", "body", "privacy", "view", "again", "placed",
               "rejected", "answer"}
Answers == {"none", "bad_request", "eligible", "not_eligible", "refused", "placed",
            "privacy_refusal", "temporarily_unavailable", "model_not_found"}

TypeOK ==
    /\ cache \in [Ids -> [healthy : BOOLEAN, models : {{}} \cup Inventories, known : NameSets]]
    /\ \A p \in Ids :
         /\ ~ cache[p].healthy => cache[p].models = {}
         /\ cache[p].healthy => cache[p].known = Names(cache[p].models)
    /\ call.pc \in {"idle", "looking", "explaining", "answered"}
    /\ call.pc # "idle" =>
         /\ call = [f \in CallFields |-> call[f]]
         /\ call.wish \in Wishes /\ call.header \in Headers /\ call.body \in Bodies
         /\ call.privacy \in Resolved
         /\ call.view \in Seq(Snapshots) /\ Len(call.view) <= Last
         /\ call.again \in Seq(NameSets) /\ Len(call.again) <= Last
         /\ call.answer \in Answers

Init ==
    /\ cache = [p \in Ids |-> [healthy |-> FALSE, models |-> {}, known |-> {}]]
    /\ call = Idle

---------------------------------------------------------------------------
(* A probe, of this call or of another, finds an engine up; it may list no  *)
(* model at all.                                                            *)
ProbeUp(p, models) ==
    /\ cache' = [cache EXCEPT ![p] = [healthy |-> TRUE, models |-> models,
                                      known |-> Names(models)]]
    /\ UNCHANGED call

(* Mutant: an outage that leaves the models in the entry. *)
ProbeDownKeepsModels(p) ==
    /\ cache' = [cache EXCEPT ![p].healthy = FALSE]
    /\ UNCHANGED call

(* An engine found down serves nothing; its last inventory is remembered. *)
ProbeDown(p) ==
    /\ cache' = [cache EXCEPT ![p].healthy = FALSE, ![p].models = {}]
    /\ UNCHANGED call

(* The snapshot of provider p, given its load and whether it will be within *)
(* the staleness ceiling when it is used (time 1; taken at 0 it is not).    *)
Snapshot(p, load, taken) ==
    [id |-> p, placement_class |-> Fleet[p].placement_class,
     capabilities |-> Fleet[p].capabilities, max_concurrency |-> Fleet[p].max_concurrency,
     quality |-> Fleet[p].quality, tps |-> Fleet[p].tps,
     healthy |-> cache[p].healthy, models |-> cache[p].models, active_runs |-> load,
     taken_at |-> taken]

(* Mutant: the header, when there is one, is what counts. *)
PrivacyHeaderWins(header, body) ==
    resolve_privacy_tier(IF Supplied(header) THEN header ELSE body)

(* The privacy of a call. *)
PrivacyOf(header, body) == resolve_privacy_precedence(<<header, body>>)

(* Mutant: /v1 passes the token counts of the call too. *)
WorkloadOfAllTokens(wish, privacy) ==
    [model |-> wish.model,
     capabilities |-> IF wish.surface = "estimate" THEN wish.capabilities ELSE {},
     tokens |-> wish.tokens, prefers |-> wish.prefers,
     cloud_permitted |-> privacy.cloud_permitted]

(* The WorkloadSpec that a surface makes of a call: only an estimate passes *)
(* capabilities, and /v1 passes no token counts.                            *)
Workload(wish, privacy) ==
    [model |-> wish.model,
     capabilities |-> IF wish.surface = "estimate" THEN wish.capabilities ELSE {},
     tokens |-> IF wish.surface = "openai" THEN 0 ELSE wish.tokens,
     prefers |-> wish.prefers,
     cloud_permitted |-> privacy.cloud_permitted]

(* A call comes in: without a prompt, or model and messages, it ends here.  *)
Ask(wish, header, body) ==
    /\ call.pc = "idle"
    /\ call' = [pc |-> IF wish.complete THEN "looking" ELSE "answered",
                wish |-> wish, header |-> header, body |-> body,
                privacy |-> PrivacyOf(header, body), view |-> <<>>, again |-> <<>>,
                placed |-> NoPlacement, rejected |-> {},
                answer |-> IF wish.complete THEN "none" ELSE "bad_request"]
    /\ UNCHANGED cache

(* A cache entry is copied into the first snapshot, any but the last. *)
Look(load, taken) ==
    /\ call.pc = "looking"
    /\ Len(call.view) + 1 < Last
    /\ call' = [call EXCEPT !.view =
                    Append(@, Snapshot(Len(@) + 1, load, taken))]
    /\ UNCHANGED cache

(* What a call is answered once it is placed, or refused.  Numbers are     *)
(* checked before placement by Layer 1, and after it by /v1.               *)
Outcome(wish, placed) ==
    IF wish.malformed /\ (wish.surface # "openai" \/ placed # NoPlacement) THEN "bad_request"
    ELSE IF placed # NoPlacement
         THEN IF wish.surface = "estimate" THEN "eligible" ELSE "placed"
         ELSE CASE wish.surface = "estimate" -> "not_eligible"
                [] wish.surface = "generate" -> "refused"
                [] wish.surface = "openai"   -> "none"

(* The last entry is copied, and the call placed: no await between them.   *)
Decide(load, taken) ==
    /\ call.pc = "looking"
    /\ Len(call.view) + 1 = Last
    /\ LET view   == Append(call.view, Snapshot(Last, load, taken))
           snaps  == {view[p] : p \in Ids}
           work   == Workload(call.wish, call.privacy)
           placed == Select(snaps, work, 1, {0})
           answer == Outcome(call.wish, placed)
       IN call' = [call EXCEPT
                      !.view = view,
                      !.placed = IF answer \in {"eligible", "placed"} THEN placed ELSE NoPlacement,
                      !.rejected = Rejections(snaps, work, 1, {0}),
                      !.answer = answer,
                      !.pc = IF answer = "none" THEN "explaining" ELSE "answered"]
    /\ UNCHANGED cache

(* A refused /v1 call copies the models of each provider again. *)
LookAgain ==
    /\ call.pc = "explaining"
    /\ Len(call.again) + 1 < Last
    /\ call' = [call EXCEPT !.again = Append(@, Names(cache[Len(@) + 1].models))]
    /\ UNCHANGED cache

(* known_but_unhealthy: the cache as it is, not the snapshot. *)
KnownButUnhealthy(model, cloud_permitted) ==
    \E p \in Ids :
        /\ Fleet[p].placement_class = "cloud" => cloud_permitted
        /\ ~ cache[p].healthy
        /\ model \in cache[p].known

(* The last entry is copied, and the refusal answered. *)
Explain ==
    /\ call.pc = "explaining"
    /\ Len(call.again) + 1 = Last
    /\ LET again == Append(call.again, Names(cache[Last].models))
           model == call.wish.model
       IN call' = [call EXCEPT
                      !.again = again,
                      !.pc = "answered",
                      !.answer = CASE \E p \in Ids : model \in again[p] -> "privacy_refusal"
                                   [] (\A p \in Ids : model \notin again[p])
                                      /\ KnownButUnhealthy(model, call.privacy.cloud_permitted)
                                        -> "temporarily_unavailable"
                                   [] OTHER -> "model_not_found"]
    /\ UNCHANGED cache

(* The answer is sent; the next call may come. *)
Answered ==
    /\ call.pc = "answered"
    /\ call' = Idle
    /\ UNCHANGED cache

Next ==
    \/ \E p \in Ids : ProbeDown(p) \/ \E models \in Inventories : ProbeUp(p, models)
    \/ \E wish \in Wishes, header \in Headers, body \in Bodies : Ask(wish, header, body)
    \/ \E load \in Loads, taken \in Ages : Look(load, taken) \/ Decide(load, taken)
    \/ LookAgain
    \/ Explain
    \/ Answered

Spec == Init /\ [][Next]_vars

---------------------------------------------------------------------------
(* PROPERTIES *)

Provided == call.pc # "idle" /\ call.answer \in {"placed", "eligible"}
Chosen   == call.placed.provider
IsCloud(p) == Fleet[p].placement_class = "cloud"

(* The tiers that a call supplied, garbage included. *)
Signals == {raw \in {call.header, call.body} : Supplied(raw)}

(* Cloud execution is default-denied, on every surface: a call is placed on *)
(* a cloud provider only if it supplied a tier, and every tier it supplied, *)
(* in the header and in the body, permits it (CONTRACT.md, invariant 4).    *)
CloudNeedsConsent ==
    Provided /\ IsCloud(Chosen) => Signals # {} /\ Signals \subseteq CLOUD_PERMITTING_TIERS

(* The tier enforced is as strict as each of the tiers supplied, and no     *)
(* stricter than all of them: a header narrows a body and never widens it,  *)
(* nor the body the header (CONTRACT.md:74-88).                             *)
StrictestTierRules ==
    call.pc # "idle" =>
        LET ranks == {Strictness(resolve_privacy_tier(raw)) : raw \in Signals}
        IN IF Signals = {} THEN call.privacy = resolve_privacy_tier("none")
           ELSE /\ Strictness(call.privacy) \in ranks
                /\ \A r \in ranks : r <= Strictness(call.privacy)

(* The snapshots a call was placed from, with those for which P holds made  *)
(* to look like a provider that is down.                                    *)
Snaps == {call.view[p] : p \in Ids}
Decided == call.pc # "idle" /\ Len(call.view) = Last
Blank(s) == [s EXCEPT !.healthy = FALSE, !.models = {}, !.active_runs = 0, !.taken_at = 1]
Work == Workload(call.wish, call.privacy)

(* Nothing of a cloud provider that the privacy of a call forbids shows in  *)
(* its placement or in its rejections: not its health, models, load or age. *)
ForbiddenCloudIsInvisible ==
    Decided /\ ~ call.privacy.cloud_permitted =>
        LET hidden == {IF s.placement_class = "cloud" THEN Blank(s) ELSE s : s \in Snaps}
        IN /\ call.rejected = Rejections(hidden, Work, 1, {0})
           /\ Provided => call.placed = Select(hidden, Work, 1, {0})

(* Permitting the cloud never moves work that a local provider can take:    *)
(* with the same snapshots and a tier that denies the cloud, a call goes to *)
(* the same provider and model, or nowhere; and nowhere only if no provider *)
(* could take it ("local before cloud, always", placement.py:234).          *)
LocalWorkStaysLocal ==
    Provided =>
        /\ Eligible(Snaps, [Work EXCEPT !.cloud_permitted = FALSE], 1, {0}) # {} =>
             ~ IsCloud(Chosen)
        /\ Select(Snaps, [Work EXCEPT !.cloud_permitted = FALSE], 1, {0})
            \in {call.placed, NoPlacement}

(* The providers that could have taken a call, and are no further away. *)
Rivals ==
    {s \in Eligible(Snaps, Work, 1, {0}) :
        s.placement_class = Fleet[Chosen].placement_class}
Taker == call.view[Chosen]

(* The preference of a call is honoured: of the class it is placed in, no   *)
(* provider that could take it is better at what it asked for; a call       *)
(* without a preference never waits for a model to load while another       *)
(* provider has one loaded that would do, nor queues longer than at another *)
(* whose model is in the same state.                                        *)
PreferenceHonoured ==
    Provided =>
        LET warm(s) == \E m \in Fitting(s, Work) : m.loaded
        IN \A s \in Rivals :
             CASE Work.prefers = "quality" -> s.quality <= Taker.quality
               [] Work.prefers = "latency" -> s.tps <= Taker.tps
               [] OTHER ->
                    /\ warm(s) => \E m \in Taker.models : m.id = call.placed.model /\ m.loaded
                    /\ warm(s) = warm(Taker) => QueueSeconds(Taker) <= QueueSeconds(s)

(* A 403 of /v1 is of the privacy of the call or of the age of an entry: a  *)
(* provider that lists the model in the second snapshot was rejected by     *)
(* placement at one of those stages, never because the model is too small   *)
(* or the provider unfit, unless it did not list the model in the first.    *)
RefusalExplained ==
    call.pc = "answered" /\ call.answer = "privacy_refusal" =>
        \A p \in Ids :
            call.wish.model \in call.again[p] /\ call.wish.model \in Names(call.view[p].models) =>
                \E r \in call.rejected : r.provider = p /\ r.stage \in {"privacy", "stale"}

(* CONTRACT.md:99-100: "the model exists on a healthy provider but the      *)
(* effective tier forbids that provider".                                   *)
ForbiddenMeansForbidden ==
    call.pc = "answered" /\ call.answer = "privacy_refusal" =>
        \E p \in Ids : /\ IsCloud(p) /\ ~ call.privacy.cloud_permitted
                       /\ call.wish.model \in call.again[p]
=============================================================================
