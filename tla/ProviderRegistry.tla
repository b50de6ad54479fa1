------------------------- MODULE ProviderRegistry -------------------------
(***************************************************************************)
(* The provider registry (providers.py): the cached health and inventory   *)
(* of every provider, refreshed lazily by whichever request finds an entry *)
(* older than the TTL, the edge-triggered health events, and the first     *)
(* stage of placement, which refuses snapshots beyond the staleness        *)
(* ceiling.  Requests are concurrent: a probe suspends its request, and    *)
(* the others go on reading, and probing, meanwhile.                       *)
(***************************************************************************)
EXTENDS Naturals, Sequences, FiniteSets

CONSTANTS
    Callers,           \* the requests that take snapshots
    N,                 \* the providers are 1..N, in their configured order
    Classes,           \* the classifications: healthy, degraded, offline
    TTL,               \* snapshot_ttl
    Ceiling,           \* effective_max_snapshot_age
    MaxClock,          \* bound on time
    MaxInvalidations   \* bound on invalidate() calls

ASSUME TimeAssumption ==
    /\ TTL \in Nat /\ Ceiling \in Nat
    /\ MaxClock \in Nat /\ MaxClock > TTL /\ MaxInvalidations \in Nat
ASSUME ProvidersAssumption == N \in Nat \ {0}
ASSUME ClassesAssumption == Classes \subseteq {"healthy", "degraded", "offline"}

Providers == 1..N

VARIABLES
    clock,     \* time.time(), which is far from 0 when the process starts
    cache,     \* provider |-> its _CacheEntry
    req,       \* caller |-> its snapshot() in progress
    news,      \* provider |-> history: its last two health events
    overlapped,\* history: providers that two requests probed at once
    invalidations

vars == <<clock, cache, req, news, overlapped, invalidations>>

(* A _CacheEntry: healthy is class = "healthy", obs is the time at which    *)
(* the engine gave its verdict (not known to the code: taken_at is when the *)
(* probe ended).  The inventories are in Routing.                           *)
NeverProbed == [taken |-> 0, class |-> "none", obs |-> 0]

Answers  == [class : Classes, obs : 0..MaxClock]
NoAnswer == [class |-> "offline", obs |-> 0]

(* A request: where it is, the provider it is at, the "now" of snapshot(),  *)
(* the "previous" of _refresh, the engine's verdict on its way, and the     *)
(* snapshots taken so far.                                                  *)
Idle == [pc |-> "idle", at |-> 1, now |-> 0, previous |-> "none", answer |-> NoAnswer,
         view |-> <<>>]

TypeOK ==
    /\ clock \in TTL + 1 .. MaxClock
    /\ cache \in [Providers -> [taken : 0..MaxClock, class : Classes \cup {"none"},
                        obs : 0..MaxClock]]
    /\ \A c \in Callers :
         /\ req[c].pc \in {"idle", "scan", "health", "models", "answered", "placing"}
         /\ req[c].at \in 1 .. N + 1
         /\ Len(req[c].view) = req[c].at - 1
         /\ req[c].now \in 0..clock
         /\ req[c].previous \in Classes \cup {"none"}
         /\ req[c].answer \in Answers \cup {NoAnswer}
    /\ \A p \in Providers : Len(news[p]) <= 2
    /\ invalidations \in 0..MaxInvalidations

Init ==
    /\ clock = TTL + 1
    /\ cache = [p \in Providers |-> NeverProbed]
    /\ req = [c \in Callers |-> Idle]
    /\ news = [p \in Providers |-> <<>>]
    /\ overlapped = {}
    /\ invalidations = 0

---------------------------------------------------------------------------
(* The provider a request is at, and what it copies of its entry: the age   *)
(* and the provider of the ProviderSnapshot (health and inventory are in    *)
(* Routing, active_runs comes from the run registry).                       *)
Here(c) == req[c].at
Snap(p, entry) == [provider |-> p, taken |-> entry.taken]

(* Mutant: emission without the rule for the first probe. *)
EmitSilentStart(p, previous, current) ==
    news' = IF current = previous \/ previous = "none" THEN news
            ELSE [news EXCEPT ![p] = LET s == Append(@, current)
                                     IN IF Len(s) > 2 THEN Tail(s) ELSE s]

(* _emit_health_transition: silent when nothing changed, and on a first     *)
(* probe that is healthy.                                                   *)
Emit(p, previous, current) ==
    news' = IF current = previous \/ (previous = "none" /\ current = "healthy")
            THEN news
            ELSE [news EXCEPT ![p] = LET s == Append(@, current)
                                     IN IF Len(s) > 2 THEN Tail(s) ELSE s]

(* Mutant: a provider that is skipped in the result. *)
AdvanceUncopied(c, snap) ==
    [req[c] EXCEPT !.pc = IF req[c].at = N THEN "placing" ELSE "scan",
                   !.at = @ + 1,
                   !.answer = NoAnswer,
                   !.previous = "none"]

(* The next position of a request that has copied an entry. *)
Advance(c, snap) ==
    [req[c] EXCEPT !.pc = IF req[c].at = N THEN "placing" ELSE "scan",
                   !.at = @ + 1,
                   !.view = Append(@, snap),
                   !.answer = NoAnswer,
                   !.previous = "none"]

---------------------------------------------------------------------------
(* snapshot(): "now" is read once, before the loop. *)
Begin(c) ==
    /\ req[c].pc = "idle"
    /\ req' = [req EXCEPT ![c] = [Idle EXCEPT !.pc = "scan", !.now = clock]]
    /\ UNCHANGED <<clock, cache, news, overlapped, invalidations>>

(* Mutant: an entry that is probed once, and after that never looked at.    *)
StaleIfUnknown(c) == cache[Here(c)].class = "none"

(* now - entry.taken_at > ttl *)
Stale(c) == req[c].now > cache[Here(c)].taken + TTL

(* An entry within its TTL is copied at once. *)
ReadFresh(c) ==
    /\ req[c].pc = "scan"
    /\ ~ Stale(c)
    /\ req' = [req EXCEPT ![c] = Advance(c, Snap(Here(c), cache[Here(c)]))]
    /\ UNCHANGED <<clock, cache, news, overlapped, invalidations>>

(* A probe of p is under way, for some request. *)
Probing == {"health", "models", "answered"}
UnderWay(p) == \E c \in Callers : req[c].pc \in Probing /\ Here(c) = p

(* Mutant: a probe that keeps the last verdict, and asks for the models     *)
(* only.                                                                    *)
StartProbeOfModels(c) ==
    /\ req[c].pc = "scan"
    /\ Stale(c)
    /\ req' = [req EXCEPT ![c].pc = "models", ![c].previous = cache[Here(c)].class,
                          ![c].answer = [class |-> "healthy", obs |-> cache[Here(c)].obs]]
    /\ overlapped' = IF UnderWay(Here(c)) THEN overlapped \cup {Here(c)} ELSE overlapped
    /\ UNCHANGED <<clock, cache, news, invalidations>>

(* An older one is probed: _refresh reads "previous" and suspends in        *)
(* health().                                                                *)
StartProbe(c) ==
    /\ req[c].pc = "scan"
    /\ Stale(c)
    /\ req' = [req EXCEPT ![c].pc = "health", ![c].previous = cache[Here(c)].class]
    /\ overlapped' = IF UnderWay(Here(c)) THEN overlapped \cup {Here(c)} ELSE overlapped
    /\ UNCHANGED <<clock, cache, news, invalidations>>

(* The engine answers /health: it is up, and _refresh goes on to            *)
(* list_models(); it says it is down; or it fails.                          *)
EngineAnswers(c, class) ==
    /\ req[c].pc = "health"
    /\ req' = [req EXCEPT ![c].pc = IF class = "healthy" THEN "models" ELSE "answered",
                          ![c].answer = [class |-> class, obs |-> clock]]
    /\ UNCHANGED <<clock, cache, news, overlapped, invalidations>>

(* It lists its models: the verdict is the one of /health, whatever the     *)
(* time since.  If it fails to, it is offline now.                          *)
EngineLists(c, class) ==
    /\ req[c].pc = "models"
    /\ class \in {"healthy", "offline"}
    /\ req' = [req EXCEPT ![c].pc = "answered",
                          ![c].answer = IF class = "healthy" THEN @
                                        ELSE [class |-> class, obs |-> clock]]
    /\ UNCHANGED <<clock, cache, news, overlapped, invalidations>>

(* The entry that _refresh writes: taken_at is the time of the writing. *)
Refreshed(answer) == [taken |-> clock, class |-> answer.class, obs |-> answer.obs]

(* The rest of _refresh and the copy of the entry: no await between them. *)
Complete(c) ==
    /\ req[c].pc = "answered"
    /\ LET p == Here(c)
           entry == Refreshed(req[c].answer)
       IN /\ cache' = [cache EXCEPT ![p] = entry]
          /\ Emit(p, req[c].previous, entry.class)
          /\ req' = [req EXCEPT ![c] = Advance(c, Snap(p, entry))]
    /\ UNCHANGED <<clock, overlapped, invalidations>>

(* The stale stage of select_placement, for one snapshot. *)
TooOld(snap) == clock > snap.taken + Ceiling

(* The request is placed or refused, and over. *)
Finish(c) ==
    /\ req[c].pc = "placing"
    /\ req' = [req EXCEPT ![c] = Idle]
    /\ UNCHANGED <<clock, cache, news, overlapped, invalidations>>

(* invalidate(). *)
Invalidate ==
    /\ invalidations < MaxInvalidations
    /\ invalidations' = invalidations + 1
    /\ cache' = [p \in Providers |-> [cache[p] EXCEPT !.taken = 0]]
    /\ UNCHANGED <<clock, req, news, overlapped>>

(* Time passes while every request is suspended: in a probe for as long as  *)
(* it likes, since the timeouts of httpx are of one read, not of a request. *)
Tick ==
    /\ clock < MaxClock
    /\ \A c \in Callers : req[c].pc \notin {"scan", "placing"}
    /\ clock' = clock + 1
    /\ UNCHANGED <<cache, req, news, overlapped, invalidations>>

Next ==
    \/ \E c \in Callers :
         \/ Begin(c) \/ ReadFresh(c) \/ StartProbe(c) \/ Complete(c) \/ Finish(c)
         \/ \E class \in Classes : EngineAnswers(c, class) \/ EngineLists(c, class)
    \/ Invalidate
    \/ Tick

Spec == Init /\ [][Next]_vars

---------------------------------------------------------------------------
(* PROPERTIES *)

(* A call is refused because of an old snapshot only when it has itself     *)
(* spent more than Ceiling - TTL in probes, of other providers: snapshot()  *)
(* reads "now" once, copies entries as it goes, and may then be suspended   *)
(* for any time before placement looks at their age (providers.py:165-180,  *)
(* placement.py:175).                                                       *)
StaleOnlyAfterWaiting ==
    \A c \in Callers : req[c].pc = "placing" =>
        \A i \in Providers :
            TooOld(req[c].view[i]) => clock + TTL > req[c].now + Ceiling

(* The registry does not go back in time: an entry is replaced only by a    *)
(* verdict that the engine gave after that entry was written, however long  *)
(* the probe, and whatever was invalidated meanwhile.  Of a provider that   *)
(* two requests probed at once this is false: the probe that is late        *)
(* overwrites the newer verdict (providers.py:109-130).                     *)
VerdictsMoveForward ==
    [][\A p \in Providers \ overlapped' :
         cache'[p].taken > cache[p].taken => cache'[p].obs >= cache[p].taken]_vars

(* The bus agrees with the registry: when no probe of a provider is under   *)
(* way, its last event is its classification, and none was sent only of a   *)
(* provider that was never seen down; nor is an event a repetition          *)
(* (providers.py:135-137: "publishes only on an actual classification       *)
(* change, never on a repeated probe that confirms the same state").  One   *)
(* that two requests probed at once is excepted: see RecoveryIsNews.        *)
BusAgrees ==
    \A p \in Providers \ overlapped :
        /\ Len(news[p]) = 2 => news[p][1] # news[p][2]
        /\ ~ UnderWay(p) =>
           IF news[p] = <<>> THEN cache[p].class \in {"none", "healthy"}
           ELSE news[p][Len(news[p])] = cache[p].class

(* tests/test_event_bus_publish.py:143-146: "an immediate provider.offline  *)
(* on the transition down, a provider.recovered on the transition back".    *)
RecoveryIsNews ==
    \A p \in Providers :
        (/\ ~ UnderWay(p)
         /\ cache[p].class = "healthy"
         /\ news[p] # <<>>)
        => news[p][Len(news[p])] = "healthy"
=============================================================================
