---------------------- MODULE ProviderRegistryProofs ----------------------
(***************************************************************************)
(* Proofs about ProviderRegistry.tla, for any number of requests and       *)
(* providers, every TTL and ceiling, probes of any length, and every set of *)
(* classifications.                                                        *)
(***************************************************************************)
EXTENDS ProviderRegistry, SequenceTheorems, TLAPS

(* The state, with the fields of a request and the events' type. *)
Entries == [taken : 0..MaxClock, class : Classes \cup {"none"}, obs : 0..MaxClock]
Snaps   == [provider : Providers, taken : 0..MaxClock]
Requests == [pc : {"idle", "scan", "health", "models", "answered", "placing"}, at : 1 .. N + 1,
             now : 0..MaxClock, previous : Classes \cup {"none"},
             answer : Answers \cup {NoAnswer}, view : Seq(Snaps)]

Typed ==
    /\ clock \in TTL + 1 .. MaxClock
    /\ cache \in [Providers -> Entries]
    /\ req \in [Callers -> Requests]
    /\ news \in [Providers -> Seq(Classes)]
    /\ overlapped \in SUBSET Providers
    /\ invalidations \in 0..MaxInvalidations

(* A request has one snapshot of each provider it is past, and has passed   *)
(* them all when it is placed.                                              *)
WellPlaced(r) ==
    /\ Len(r.view) = r.at - 1
    /\ r.pc \in {"scan"} \cup Probing => r.at \in Providers
    /\ r.pc = "placing" => r.at = N + 1

(* What a request has copied was written at most TTL before it began; its   *)
(* verdict, when it has one, is the engine's.                               *)
Punctual(r) ==
    /\ r.pc \in {"models", "answered"} => r.answer \in Answers
    /\ \A i \in 1..Len(r.view) : r.now <= r.view[i].taken + TTL

Positions == \A c \in Callers : req[c].now <= clock /\ WellPlaced(req[c])
Timely ==
    /\ \A p \in Providers : cache[p].taken <= clock
    /\ \A c \in Callers : Punctual(req[c])

(* The request that probes p, if p was never probed by two at once, is the  *)
(* only one; it knows the classification in the cache, and the verdict it   *)
(* has is younger than the entry.                                           *)
Probes(c, p) == req[c].pc \in Probing /\ req[c].at = p
OneProbe ==
    \A p \in Providers \ overlapped : \A c \in Callers :
        Probes(c, p) =>
          /\ req[c].previous = cache[p].class
          /\ req[c].pc \in {"models", "answered"} => cache[p].taken <= req[c].answer.obs
          /\ \A d \in Callers : Probes(d, p) => d = c

(* The last event, of such a provider, is its classification at any time. *)
SaysTheTruth(s, class) ==
    /\ Len(s) <= 2
    /\ Len(s) = 2 => s[1] # s[2]
    /\ IF Len(s) = 0 THEN class \in {"none", "healthy"} ELSE s[Len(s)] = class
NewsIsCurrent ==
    /\ \A p \in Providers : Len(news[p]) <= 2
    /\ \A p \in Providers \ overlapped : SaysTheTruth(news[p], cache[p].class)

IInv == Typed /\ Positions /\ Timely /\ OneProbe /\ NewsIsCurrent

(* Abbreviations every proof below expands. *)
USE DEF Here, Providers, Probing

---------------------------------------------------------------------------
(* The invariant holds when the process starts. *)
LEMMA InitIInv == Init => IInv
<1> SUFFICES ASSUME Init PROVE IInv
  OBVIOUS
<1>1. NeverProbed \in Entries /\ NeverProbed.class = "none" /\ NeverProbed.taken = 0
      /\ NeverProbed.obs = 0
  BY TimeAssumption DEF NeverProbed, Entries
<1>2. /\ Idle \in Requests /\ Idle.pc = "idle" /\ Idle.at = 1 /\ Idle.view = <<>> /\ Idle.now = 0
  BY TimeAssumption, ProvidersAssumption DEF Idle, Requests
<1>3. Typed
  BY <1>1, <1>2, TimeAssumption DEF Init, Typed
<1>4. Positions
  BY <1>2, TimeAssumption, ProvidersAssumption DEF Init, Positions, WellPlaced
<1>5. Timely
  BY <1>1, <1>2, TimeAssumption DEF Init, Timely, Punctual
<1>6. OneProbe
  BY <1>2 DEF Init, OneProbe, Probes
<1>7. NewsIsCurrent
  BY <1>1 DEF Init, NewsIsCurrent, SaysTheTruth
<1> QED BY <1>3, <1>4, <1>5, <1>6, <1>7 DEF IInv

(* A request that has copied an entry is one provider further. *)
LEMMA Advanced ==
    ASSUME Typed, NEW c \in Callers, WellPlaced(req[c]), NEW snap \in Snaps,
           req[c].pc \in {"scan", "answered"}
    PROVE  /\ Advance(c, snap) \in Requests
           /\ Advance(c, snap).pc \in {"scan", "placing"}
           /\ Advance(c, snap).now = req[c].now
           /\ Advance(c, snap).view = Append(req[c].view, snap)
           /\ WellPlaced(Advance(c, snap))
<1> DEFINE r == req[c]
           v == Append(r.view, snap)
           q == IF r.at = N THEN "placing" ELSE "scan"
           a == [r EXCEPT !.pc = q, !.at = r.at + 1, !.view = v, !.answer = NoAnswer,
                          !.previous = "none"]
<1>1. r \in Requests
  BY DEF Typed
<1>2. v \in Seq(Snaps) /\ Len(v) = r.at /\ r.at \in 1..N
      /\ q \in {"placing", "scan"} /\ r.at + 1 \in 1..N + 1
  BY <1>1, ProvidersAssumption DEF Requests, WellPlaced
<1>3. Advance(c, snap) = a
  BY <1>1 DEF Advance, Requests
<1> HIDE DEF v
<1>4. a.pc = q /\ a.at = r.at + 1 /\ a.now = r.now /\ a.view = v
  BY <1>1 DEF Requests
<1>5. a \in Requests
  BY <1>1, <1>2 DEF Requests
<1>6. WellPlaced(a)
  <2> HIDE DEF a
  <2> QED BY <1>2, <1>4, ProvidersAssumption DEF WellPlaced
<1> QED BY <1>2, <1>3, <1>4, <1>5, <1>6 DEF v

(* A step that changes one request only. *)
LEMMA OneRequest ==
    ASSUME IInv, NEW c \in Callers, NEW r \in Requests, req' = [req EXCEPT ![c] = r],
           UNCHANGED <<clock, cache, news, invalidations>>,
           overlapped \subseteq overlapped', overlapped' \in SUBSET Providers,
           r.now <= clock, WellPlaced(r), Punctual(r),
           \A p \in Providers \ overlapped' :
             r.pc \in Probing /\ r.at = p =>
               /\ r.previous = cache[p].class
               /\ r.pc \in {"models", "answered"} => cache[p].taken <= r.answer.obs
               /\ \A d \in Callers : Probes(d, p) => d = c
    PROVE  IInv'
<1>1. Typed'
  BY DEF IInv, Typed
<1>2. Positions'
  BY DEF IInv, Typed, Positions
<1>3. Timely'
  BY DEF IInv, Typed, Timely, Punctual
<1>4. OneProbe'
  BY DEF IInv, Typed, OneProbe, Probes
<1>5. NewsIsCurrent'
  BY DEF IInv, NewsIsCurrent
<1> QED BY <1>1, <1>2, <1>3, <1>4, <1>5 DEF IInv

(* A request starts over, or is placed and over. *)
LEMMA BeginStep ==
    ASSUME IInv, NEW c \in Callers, Begin(c) \/ Finish(c)
    PROVE  IInv'
<1> DEFINE b == [Idle EXCEPT !.pc = "scan", !.now = clock]
<1>1. PICK r \in {b, Idle} : req' = [req EXCEPT ![c] = r]
  BY DEF Begin, Finish
<1>a. clock \in 0..MaxClock
  BY TimeAssumption DEF IInv, Typed
<1>b. /\ Idle \in Requests /\ Idle.pc = "idle" /\ Idle.now = 0 /\ Idle.at = 1
      /\ Idle.view = <<>>
  BY TimeAssumption, ProvidersAssumption DEF Idle, Requests
<1>c. b \in Requests /\ b.pc = "scan" /\ b.now = clock /\ b.at = 1 /\ b.view = <<>>
  BY <1>a, <1>b DEF Requests
<1> HIDE DEF b
<1>2. r \in Requests /\ r.at = 1 /\ r.view = <<>> /\ r.now <= clock /\ r.pc \in {"scan", "idle"}
  BY <1>1, <1>a, <1>b, <1>c
<1>3. WellPlaced(r) /\ Punctual(r)
  BY <1>2, ProvidersAssumption DEF WellPlaced, Punctual
<1> QED BY <1>1, <1>2, <1>3, OneRequest DEF Begin, Finish, IInv, Typed

(* What is copied from a fresh entry is within the TTL. *)
LEMMA ReadFreshStep ==
    ASSUME IInv, NEW c \in Callers, ReadFresh(c)
    PROVE  IInv'
<1> DEFINE s == Snap(Here(c), cache[Here(c)])
           r == Advance(c, s)
<1>1. req[c] \in Requests /\ WellPlaced(req[c]) /\ req[c].pc = "scan" /\ req[c].at \in Providers
  BY DEF ReadFresh, IInv, Typed, Positions, WellPlaced
<1>2. s \in Snaps /\ req[c].now <= s.taken + TTL
  <2>1. /\ cache[req[c].at] \in Entries /\ req[c].now \in Nat
        /\ ~ (req[c].now > cache[req[c].at].taken + TTL)
    BY <1>1 DEF ReadFresh, Stale, IInv, Typed, Requests
  <2> QED BY <1>1, <2>1, TimeAssumption DEF Snap, Snaps, Entries
<1> HIDE DEF s
<1>3. /\ r \in Requests /\ r.pc \in {"scan", "placing"} /\ r.now = req[c].now
      /\ r.view = Append(req[c].view, s) /\ WellPlaced(r)
  BY <1>1, <1>2, Advanced DEF IInv
<1>4. req' = [req EXCEPT ![c] = r]
  BY DEF ReadFresh, s
<1> HIDE DEF r
<1>5. Punctual(r)
  <2>1. /\ req[c].view \in Seq(Snaps)
        /\ \A i \in 1..Len(req[c].view) : req[c].now <= req[c].view[i].taken + TTL
    BY <1>1 DEF IInv, Timely, Punctual, Requests
  <2>2. \A i \in 1..Len(r.view) : r.now <= r.view[i].taken + TTL
    BY <2>1, <1>2, <1>3
  <2> QED BY <2>2, <1>3 DEF Punctual
<1>6. r.now <= clock
  BY <1>3 DEF IInv, Positions
<1> QED BY <1>3, <1>4, <1>5, <1>6, OneRequest DEF ReadFresh, IInv, Typed

(* A probe starts: it is the only one, or its provider is overlapped. *)
LEMMA StartProbeStep ==
    ASSUME IInv, NEW c \in Callers, StartProbe(c)
    PROVE  IInv'
<1> DEFINE r == [req[c] EXCEPT !.pc = "health", !.previous = cache[Here(c)].class]
<1>1. req[c] \in Requests /\ WellPlaced(req[c]) /\ req[c].pc = "scan" /\ req[c].at \in Providers
      /\ req[c].now <= clock /\ Punctual(req[c]) /\ cache[Here(c)].class \in Classes \cup {"none"}
  BY DEF StartProbe, IInv, Typed, Positions, WellPlaced, Timely, Entries
<1>2. /\ r \in Requests /\ r.pc = "health" /\ r.at = req[c].at /\ r.now = req[c].now
      /\ r.view = req[c].view /\ r.previous = cache[req[c].at].class
  BY <1>1 DEF Requests
<1>3. req' = [req EXCEPT ![c] = r]
  BY DEF StartProbe, IInv, Typed
<1> HIDE DEF r
<1>4. r.now <= clock /\ WellPlaced(r) /\ Punctual(r)
  BY <1>1, <1>2 DEF WellPlaced, Punctual
<1>5. overlapped \subseteq overlapped' /\ overlapped' \in SUBSET Providers
  BY <1>1 DEF StartProbe, IInv, Typed
<1>6. ASSUME NEW p \in Providers \ overlapped', r.at = p
      PROVE  \A d \in Callers : Probes(d, p) => d = c
  <2>1. ~ UnderWay(p)
    BY <1>2, <1>6 DEF StartProbe
  <2> QED BY <2>1, <1>6 DEF UnderWay, Probes
<1>7. \A p \in Providers \ overlapped' :
        r.pc \in Probing /\ r.at = p =>
          /\ r.previous = cache[p].class
          /\ r.pc \in {"models", "answered"} => cache[p].taken <= r.answer.obs
          /\ \A d \in Callers : Probes(d, p) => d = c
  BY <1>2, <1>6
<1>8. UNCHANGED <<clock, cache, news, invalidations>>
  BY DEF StartProbe
<1> QED BY <1>2, <1>3, <1>4, <1>5, <1>7, <1>8, OneRequest

(* The engine's verdict is as of now, or, when it lists its models, stays   *)
(* the one it gave.                                                         *)
LEMMA EngineAnswersStep ==
    ASSUME IInv, NEW c \in Callers, NEW class \in Classes,
           EngineAnswers(c, class) \/ EngineLists(c, class)
    PROVE  IInv'
<1> DEFINE now == [class |-> class, obs |-> clock]
<1>1. PICK pc \in {"models", "answered"}, a \in {req[c].answer, now} :
        /\ req' = [req EXCEPT ![c].pc = pc, ![c].answer = a]
        /\ req[c].pc = "health" => a = now
  BY DEF EngineAnswers, EngineLists
<1> DEFINE r == [req[c] EXCEPT !.pc = pc, !.answer = a]
<1>2. /\ req[c] \in Requests /\ WellPlaced(req[c]) /\ req[c].pc \in {"health", "models"}
      /\ req[c].now <= clock /\ Punctual(req[c])
  BY DEF EngineAnswers, EngineLists, IInv, Typed, Positions, Timely
<1>3. now \in Answers /\ now.obs = clock
  BY TimeAssumption DEF Answers, IInv, Typed
<1> HIDE DEF now
<1>4. a \in Answers
  BY <1>1, <1>2, <1>3 DEF Punctual
<1>5. req' = [req EXCEPT ![c] = r]
  BY <1>1 DEF IInv, Typed
<1>6. /\ r \in Requests /\ r.pc = pc /\ r.at = req[c].at /\ r.now = req[c].now
      /\ r.view = req[c].view /\ r.previous = req[c].previous /\ r.answer = a
  BY <1>1, <1>2, <1>4 DEF Requests
<1> HIDE DEF r
<1>7. r.now <= clock /\ WellPlaced(r) /\ Punctual(r)
  BY <1>1, <1>2, <1>4, <1>6 DEF WellPlaced, Punctual
<1>8. ASSUME NEW p \in Providers \ overlapped, r.at = p
      PROVE  /\ r.previous = cache[p].class /\ cache[p].taken <= r.answer.obs
             /\ \A d \in Callers : Probes(d, p) => d = c
  <2>1. /\ req[c].previous = cache[p].class
        /\ req[c].pc = "models" => cache[p].taken <= req[c].answer.obs
        /\ \A d \in Callers : Probes(d, p) => d = c
    BY <1>2, <1>6, <1>8 DEF IInv, OneProbe, Probes
  <2>2. cache[p].taken <= clock
    BY <1>8 DEF IInv, Timely
  <2> QED BY <1>1, <1>2, <1>3, <1>6, <2>1, <2>2
<1> QED BY <1>5, <1>6, <1>7, <1>8, OneRequest DEF EngineAnswers, EngineLists, IInv, Typed

(* What one refresh makes of the news of a provider: Emit, for that provider. *)
Published(s, previous, current) ==
    IF current = previous \/ (previous = "none" /\ current = "healthy") THEN s
    ELSE LET t == Append(s, current) IN IF Len(t) > 2 THEN Tail(t) ELSE t

(* Sequences of events of length zero, two and three. *)
LEMMA LenIsZero ==
    ASSUME NEW s \in Seq(Classes)
    PROVE  Len(s) = 0 <=> s = <<>>
<1>1. Len(<<>>) = 0
  OBVIOUS
<1>2. s # <<>> => Len(s) \in Nat \ {0}
  BY EmptySeq
<1> QED BY <1>1, <1>2

LEMMA UpToTwo == \A n \in Nat : n <= 2 => n = 0 \/ n = 1 \/ n = 2
OBVIOUS

LEMMA TwoEvents ==
    ASSUME NEW s, NEW class, Len(s) = 2, s[1] # s[2], s[2] = class
    PROVE  SaysTheTruth(s, class)
BY DEF SaysTheTruth

LEMMA TailOfThree ==
    ASSUME NEW S, NEW t \in Seq(S), Len(t) = 3
    PROVE  /\ Tail(t) \in Seq(S) /\ Len(Tail(t)) = 2
           /\ Tail(t)[1] = t[2] /\ Tail(t)[2] = t[3]
<1> DEFINE u == Tail(t)
<1>1. t # <<>> /\ u \in Seq(S) /\ Len(u) = 2
  OBVIOUS
<1>2. \A i \in 1..2 : u[i] = t[i + 1]
  <2>1. \A i \in 1..Len(u) : u[i] = t[i + 1]
    BY <1>1, HeadTailProperties
  <2> QED BY <1>1, <2>1
<1> HIDE DEF u
<1>3. u[1] = t[2] /\ u[2] = t[3]
  BY <1>2
<1> QED BY <1>1, <1>3 DEF u

(* The news tells the truth about the new classification when it told the   *)
(* truth about the previous one.                                            *)
LEMMA PublishedIsTrue ==
    ASSUME NEW s \in Seq(Classes), NEW previous \in Classes \cup {"none"}, NEW current \in Classes,
           Len(s) <= 2
    PROVE  /\ Published(s, previous, current) \in Seq(Classes)
           /\ Len(Published(s, previous, current)) <= 2
           /\ SaysTheTruth(s, previous) => SaysTheTruth(Published(s, previous, current), current)
<1>1. CASE current = previous \/ (previous = "none" /\ current = "healthy")
  <2>1. Published(s, previous, current) = s
    BY <1>1 DEF Published
  <2>2. SaysTheTruth(s, previous) => SaysTheTruth(s, current)
    <3>1. CASE Len(s) = 0
      BY <3>1, <1>1 DEF SaysTheTruth
    <3>2. CASE Len(s) # 0
      <4>1. s[Len(s)] \in Classes /\ "none" \notin Classes
        BY <3>2, ClassesAssumption
      <4> QED BY <4>1, <1>1, <3>2 DEF SaysTheTruth
    <3> QED BY <3>1, <3>2
  <2> QED BY <2>1, <2>2
<1>2. CASE ~ (current = previous \/ (previous = "none" /\ current = "healthy"))
  <2> DEFINE t == Append(s, current)
  <2>1. t \in Seq(Classes) /\ Len(t) = Len(s) + 1 /\ t[Len(s) + 1] = current
        /\ \A i \in 1..Len(s) : t[i] = s[i]
    OBVIOUS
  <2>2. Published(s, previous, current) = IF Len(t) > 2 THEN Tail(t) ELSE t
    BY <1>2 DEF Published
  <2> HIDE DEF t
  <2>3. CASE Len(s) = 2
    <3>1. Len(t) = 3 /\ t[2] = s[2] /\ t[3] = current
      BY <2>1, <2>3
    <3>2. Tail(t) \in Seq(Classes) /\ Len(Tail(t)) = 2 /\ Tail(t)[1] = t[2] /\ Tail(t)[2] = t[3]
      BY <2>1, <3>1, TailOfThree
    <3>3. Tail(t)[1] = s[2] /\ Tail(t)[2] = current
      BY <3>1, <3>2
    <3>4. Published(s, previous, current) = Tail(t)
      BY <2>1, <2>2, <2>3
    <3>5. SaysTheTruth(s, previous) => s[2] # current
      BY <1>2, <2>3 DEF SaysTheTruth
    <3>6. SaysTheTruth(s, previous) => SaysTheTruth(Tail(t), current)
      BY <3>2, <3>3, <3>5, TwoEvents
    <3> QED BY <3>2, <3>3, <3>4, <3>6
  <2>4. CASE Len(s) = 1
    <3>1. Published(s, previous, current) = t /\ Len(t) = 2 /\ t[1] = s[1] /\ t[2] = current
      BY <2>1, <2>2, <2>4
    <3>3. SaysTheTruth(s, previous) => s[1] # current
      BY <1>2, <2>4 DEF SaysTheTruth
    <3> QED BY <2>1, <3>1, <3>3 DEF SaysTheTruth
  <2>5. CASE Len(s) = 0
    <3>1. Published(s, previous, current) = t /\ Len(t) = 1 /\ t[1] = current
      BY <2>1, <2>2, <2>5
    <3> QED BY <2>1, <3>1 DEF SaysTheTruth
  <2>6. Len(s) \in Nat
    BY LenProperties
  <2>7. Len(s) = 0 \/ Len(s) = 1 \/ Len(s) = 2
    BY <2>6, UpToTwo
  <2> QED BY <2>3, <2>4, <2>5, <2>7
<1> QED BY <1>1, <1>2

(* The probe's outcome is written, published and copied. *)
LEMMA CompleteStep ==
    ASSUME IInv, NEW c \in Callers, Complete(c)
    PROVE  IInv'
<1> DEFINE p == req[c].at
           e == Refreshed(req[c].answer)
           s == Snap(p, e)
           r == Advance(c, s)
<1>1. /\ req[c] \in Requests /\ WellPlaced(req[c]) /\ req[c].pc = "answered" /\ p \in Providers
      /\ req[c].now <= clock /\ Punctual(req[c])
  BY DEF Complete, IInv, Typed, Positions, WellPlaced, Timely
<1>2. e \in Entries /\ e.taken = clock /\ e.class \in Classes /\ clock \in Nat
  <2>1. req[c].answer.class \in Classes /\ req[c].answer.obs \in 0..MaxClock
        /\ clock \in 0..MaxClock
    BY <1>1, TimeAssumption DEF Punctual, Answers, IInv, Typed
  <2> QED BY <2>1 DEF Refreshed, Entries
<1>3. cache' = [cache EXCEPT ![p] = e] /\ req' = [req EXCEPT ![c] = r]
      /\ Emit(p, req[c].previous, e.class)
      /\ UNCHANGED <<clock, overlapped, invalidations>>
  BY DEF Complete
<1> HIDE DEF e
<1>4. s \in Snaps /\ s.taken = clock
  BY <1>1, <1>2 DEF Snap, Snaps, Entries
<1> HIDE DEF s
<1>5. /\ r \in Requests /\ r.pc \in {"scan", "placing"} /\ r.now = req[c].now
      /\ r.view = Append(req[c].view, s) /\ WellPlaced(r)
  BY <1>1, <1>4, Advanced DEF IInv
<1> HIDE DEF r
<1>6. Punctual(r)
  <2>1. /\ req[c].view \in Seq(Snaps)
        /\ \A i \in 1..Len(req[c].view) : req[c].now <= req[c].view[i].taken + TTL
    BY <1>1 DEF Punctual, Requests
  <2>2. req[c].now <= s.taken + TTL
    BY <1>1, <1>2, <1>4, TimeAssumption DEF Requests
  <2>3. \A i \in 1..Len(r.view) : r.now <= r.view[i].taken + TTL
    BY <2>1, <2>2, <1>4, <1>5
  <2> QED BY <2>3, <1>5 DEF Punctual
<1>7. /\ news[p] \in Seq(Classes) /\ Len(news[p]) <= 2
      /\ req[c].previous \in Classes \cup {"none"}
  BY <1>1 DEF IInv, Typed, NewsIsCurrent, Requests
<1>8. /\ news' = [news EXCEPT ![p] = Published(news[p], req[c].previous, e.class)]
      /\ \A q \in Providers : q # p => news'[q] = news[q]
      /\ news'[p] = Published(news[p], req[c].previous, e.class)
  BY <1>1, <1>3 DEF Emit, Published, IInv, Typed
<1>9. Typed'
  BY <1>1, <1>2, <1>3, <1>5, <1>7, <1>8, PublishedIsTrue DEF IInv, Typed
<1>10. Positions'
  BY <1>1, <1>3, <1>5 DEF IInv, Typed, Positions
<1>11. Timely'
  BY <1>1, <1>2, <1>3, <1>6 DEF IInv, Typed, Timely, Punctual
<1>12. ASSUME NEW q \in Providers \ overlapped, NEW d \in Callers, Probes(d, q)'
       PROVE  d # c /\ Probes(d, q) /\ req'[d] = req[d]
  BY <1>1, <1>3, <1>5, <1>12 DEF IInv, Typed, Probes
<1>13. OneProbe'
  <2> SUFFICES ASSUME NEW q \in Providers \ overlapped, NEW d \in Callers, Probes(d, q)'
               PROVE  /\ req'[d].previous = cache'[q].class
                      /\ req'[d].pc \in {"models", "answered"} =>
                           cache'[q].taken <= req'[d].answer.obs
                      /\ \A f \in Callers : Probes(f, q)' => f = d
    BY <1>3 DEF OneProbe
  <2>1. q # p
    BY <1>1, <1>12 DEF IInv, OneProbe, Probes
  <2> QED BY <2>1, <1>3, <1>12 DEF IInv, Typed, OneProbe
<1>14. NewsIsCurrent'
  <2>1. ASSUME NEW q \in Providers
        PROVE  Len(news'[q]) <= 2
    <3>1. CASE q = p
      BY <3>1, <1>2, <1>7, <1>8, PublishedIsTrue
    <3>2. CASE q # p
      BY <3>2, <1>8 DEF IInv, NewsIsCurrent
    <3> QED BY <3>1, <3>2
  <2>2. ASSUME NEW q \in Providers \ overlapped
        PROVE  SaysTheTruth(news'[q], cache'[q].class)
    <3>1. CASE q = p
      <4>1. req[c].previous = cache[p].class
        BY <1>1, <3>1, <2>2 DEF IInv, OneProbe, Probes
      <4>2. SaysTheTruth(news[p], req[c].previous)
        BY <4>1, <3>1, <2>2 DEF IInv, NewsIsCurrent
      <4>3. cache'[p].class = e.class
        BY <1>1, <1>3 DEF IInv, Typed
      <4> QED BY <4>2, <4>3, <3>1, <1>2, <1>7, <1>8, PublishedIsTrue
    <3>2. CASE q # p
      BY <3>2, <1>3, <1>8 DEF IInv, Typed, NewsIsCurrent
    <3> QED BY <3>1, <3>2
  <2> QED BY <2>1, <2>2, <1>3 DEF NewsIsCurrent
<1> QED BY <1>9, <1>10, <1>11, <1>13, <1>14 DEF IInv

(* invalidate() makes an entry old, and leaves its classification. *)
LEMMA InvalidateStep == IInv /\ Invalidate => IInv'
<1> SUFFICES ASSUME IInv, Invalidate PROVE IInv'
  OBVIOUS
<1>1. \A p \in Providers :
        /\ cache'[p] \in Entries /\ cache'[p].taken = 0
        /\ cache'[p].class = cache[p].class /\ cache'[p].obs = cache[p].obs
  BY TimeAssumption DEF Invalidate, IInv, Typed, Entries
<1>2. Typed'
  <2>1. cache' \in [Providers -> Entries]
    BY <1>1 DEF Invalidate
  <2>2. invalidations' \in 0..MaxInvalidations
    BY TimeAssumption DEF Invalidate, IInv, Typed
  <2> QED BY <2>1, <2>2 DEF Invalidate, IInv, Typed
<1>3. Timely'
  <2>1. \A p \in Providers : cache'[p].taken <= clock
    BY <1>1, TimeAssumption DEF IInv, Typed
  <2> QED BY <2>1 DEF Invalidate, IInv, Timely, Punctual
<1>4. Positions' /\ NewsIsCurrent'
  BY <1>1 DEF Invalidate, IInv, Positions, NewsIsCurrent
<1>5. OneProbe'
  <2>1. \A c \in Callers :
          req[c].pc \in {"models", "answered"} => req[c].answer.obs \in Nat
    BY DEF IInv, Timely, Punctual, Answers
  <2> QED BY <1>1, <2>1 DEF Invalidate, IInv, OneProbe, Probes
<1> QED BY <1>2, <1>3, <1>4, <1>5 DEF IInv

(* Time passes: what was written stays written in the past. *)
LEMMA TickStep == IInv /\ Tick => IInv'
<1> SUFFICES ASSUME IInv, Tick PROVE IInv'
  OBVIOUS
<1>1. clock \in Nat /\ clock' = clock + 1 /\ clock' <= MaxClock
  BY TimeAssumption DEF Tick, IInv, Typed
<1>2. Typed'
  BY <1>1, TimeAssumption DEF Tick, IInv, Typed
<1>3. Positions'
  BY <1>1 DEF Tick, IInv, Typed, Positions, Requests
<1>4. Timely'
  <2>1. \A p \in Providers : cache[p].taken <= clock'
    BY <1>1 DEF IInv, Typed, Timely, Entries
  <2> QED BY <2>1 DEF Tick, IInv, Timely, Punctual
<1>5. OneProbe' /\ NewsIsCurrent'
  BY DEF Tick, IInv, OneProbe, Probes, NewsIsCurrent
<1> QED BY <1>2, <1>3, <1>4, <1>5 DEF IInv

(* Every step of the specification keeps the invariant. *)
LEMMA NextIInv == IInv /\ [Next]_vars => IInv'
<1> SUFFICES ASSUME IInv, [Next]_vars PROVE IInv'
  OBVIOUS
<1>1. CASE UNCHANGED vars
  BY <1>1 DEF vars, IInv, Typed, Positions, Timely, Punctual, OneProbe, Probes, NewsIsCurrent
<1> QED
  BY <1>1, BeginStep, ReadFreshStep, StartProbeStep, EngineAnswersStep, CompleteStep,
     InvalidateStep, TickStep DEF Next

---------------------------------------------------------------------------
(* The inductive invariant holds, whatever the engines answer and however   *)
(* the requests interleave at their probes.                                 *)
THEOREM Invariant == Spec => []IInv
BY InitIInv, NextIInv, PTL DEF Spec

(* Every variable has its type; a request has as many snapshots as it has   *)
(* providers behind it.                                                     *)
THEOREM TypeCorrect == Spec => []TypeOK
<1>1. ASSUME IInv PROVE TypeOK
  <2>1. ASSUME NEW c \in Callers
        PROVE  /\ req[c].pc \in {"idle", "scan", "health", "models", "answered", "placing"}
               /\ req[c].at \in 1 .. N + 1
               /\ Len(req[c].view) = req[c].at - 1
               /\ req[c].now \in 0..clock
               /\ req[c].previous \in Classes \cup {"none"}
               /\ req[c].answer \in Answers \cup {NoAnswer}
    <3>1. req[c] \in Requests /\ req[c].now <= clock /\ WellPlaced(req[c]) /\ clock \in Nat
      BY <1>1, TimeAssumption DEF IInv, Typed, Positions
    <3> QED BY <3>1 DEF Requests, WellPlaced
  <2>2. cache \in [Providers -> [taken : 0..MaxClock, class : Classes \cup {"none"},
                                 obs : 0..MaxClock]]
    BY <1>1 DEF IInv, Typed, Entries
  <2> QED BY <1>1, <2>1, <2>2 DEF IInv, Typed, NewsIsCurrent, TypeOK
<1> QED BY <1>1, Invariant, PTL

(* A call whose snapshot is beyond the ceiling has spent more than          *)
(* Ceiling - TTL in probes since it began: without them, an engine that was *)
(* probed in time is never refused as stale.                                *)
THEOREM StaleMeansWaited == Spec => []StaleOnlyAfterWaiting
<1>1. ASSUME IInv PROVE StaleOnlyAfterWaiting
  <2> SUFFICES ASSUME NEW c \in Callers, req[c].pc = "placing", NEW i \in Providers,
                      TooOld(req[c].view[i])
               PROVE  clock + TTL > req[c].now + Ceiling
    BY DEF StaleOnlyAfterWaiting
  <2>1. /\ req[c] \in Requests /\ WellPlaced(req[c]) /\ Punctual(req[c])
        /\ clock \in Nat /\ req[c].now \in Nat
    BY <1>1, TimeAssumption DEF IInv, Typed, Positions, Timely, Requests
  <2>2. i \in 1..Len(req[c].view)
    BY <2>1, ProvidersAssumption DEF WellPlaced
  <2>3. req[c].view[i] \in Snaps /\ req[c].now <= req[c].view[i].taken + TTL
    BY <2>1, <2>2, ElementOfSeq DEF Requests, Punctual
  <2> QED BY <2>1, <2>3, TimeAssumption DEF TooOld, Snaps
<1> QED BY <1>1, Invariant, PTL

(* The registry goes back in time for no provider that was never probed by  *)
(* two requests at once: a new entry's verdict was given after the entry it *)
(* replaces was written, although a probe may take any time.                *)
THEOREM NoOlderVerdict == Spec => VerdictsMoveForward
<1> DEFINE A(p) == cache'[p].taken > cache[p].taken => cache'[p].obs >= cache[p].taken
<1>1. ASSUME IInv, [Next]_vars, NEW p \in Providers \ overlapped'
      PROVE  A(p)
  <2>0. cache[p].taken \in Nat
    BY <1>1 DEF IInv, Typed, Entries
  <2>1. CASE UNCHANGED cache
    BY <2>0, <2>1
  <2>2. CASE Invalidate
    <3>1. cache'[p].taken = 0
      BY <2>2, <1>1 DEF Invalidate, IInv, Typed, Entries
    <3> QED BY <2>0, <3>1
  <2>3. ASSUME NEW c \in Callers, Complete(c)
        PROVE  A(p)
    <3>1. /\ req[c].pc = "answered" /\ overlapped' = overlapped
          /\ cache' = [cache EXCEPT ![req[c].at] = Refreshed(req[c].answer)]
      BY <2>3 DEF Complete
    <3>2. CASE req[c].at = p
      <4>1. cache[p].taken <= req[c].answer.obs /\ req[c].answer.obs \in Nat
        BY <1>1, <3>1, <3>2 DEF IInv, OneProbe, Probes, Timely, Punctual, Answers
      <4>2. cache'[p].obs = req[c].answer.obs
        BY <1>1, <3>1, <3>2 DEF IInv, Typed, Refreshed
      <4> QED BY <2>0, <4>1, <4>2
    <3>3. CASE req[c].at # p
      BY <2>0, <3>1, <3>3, <1>1 DEF IInv, Typed
    <3> QED BY <3>2, <3>3
  <2> QED
    BY <1>1, <2>1, <2>2, <2>3
    DEF Next, Begin, ReadFresh, StartProbe, EngineAnswers, EngineLists, Finish, Tick, vars
<1>2. IInv /\ [Next]_vars => [\A p \in Providers \ overlapped' : A(p)]_vars
  BY <1>1
<1> QED BY <1>2, Invariant, PTL DEF Spec, VerdictsMoveForward

(* The health events of a provider that was never probed by two requests at *)
(* once never repeat, and the last one is its classification in the cache.  *)
THEOREM BusIsRight == Spec => []BusAgrees
<1>1. IInv => BusAgrees
  BY LenIsZero DEF IInv, Typed, NewsIsCurrent, SaysTheTruth, BusAgrees
<1> QED BY <1>1, Invariant, PTL

===========================================================================
