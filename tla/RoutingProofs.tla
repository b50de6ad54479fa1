--------------------------- MODULE RoutingProofs ---------------------------
(***************************************************************************)
(* Theorems about privacy, routing and the read-only routes (Privacy.tla,  *)
(* Routing.tla, Catalogue.tla), for any number of signals, any fleet,      *)
(* inventories, loads and calls; placement itself is PlacementProofs'.     *)
(*                                                                         *)
(* The default-deny is proved in three parts: what the resolution of       *)
(* several signals returns, what placement can choose, and an invariant    *)
(* that ties the choice to the signals of the call and to the providers.   *)
(* The same invariant keeps with a call the decision its snapshots give,   *)
(* and the properties of placement follow from that.                       *)
(***************************************************************************)
EXTENDS Catalogue, PlacementProofs, TLAPS

(* The vocabulary, spelled out, and its ranks. *)
LEMMA Vocabulary ==
    /\ KNOWN_TIERS = {"public", "public_redacted", "repo_sensitive", "local_only",
                      "secret_sensitive"}
    /\ CLOUD_PERMITTING_TIERS \subseteq KNOWN_TIERS
    /\ MOST_RESTRICTIVE_TIER \in KNOWN_TIERS \ CLOUD_PERMITTING_TIERS
    /\ \A tier \in KNOWN_TIERS :
         /\ PRIVACY_STRICTNESS[tier] \in 0..4
         /\ tier \in CLOUD_PERMITTING_TIERS <=> PRIVACY_STRICTNESS[tier] <= 1
BY DEF KNOWN_TIERS, PRIVACY_STRICTNESS, CLOUD_PERMITTING_TIERS, MOST_RESTRICTIVE_TIER

(* One signal: a resolved tier, which permits the cloud exactly when the    *)
(* signal is a permitting tier, and exactly when its rank is below 2.       *)
LEMMA ResolveTier ==
    ASSUME NEW raw
    PROVE  /\ resolve_privacy_tier(raw) \in Resolved
           /\ Strictness(resolve_privacy_tier(raw)) \in 0..4
           /\ resolve_privacy_tier(raw).cloud_permitted <=> raw \in CLOUD_PERMITTING_TIERS
           /\ resolve_privacy_tier(raw).cloud_permitted
                <=> Strictness(resolve_privacy_tier(raw)) <= 1
<1>1. CASE raw \in CLOUD_PERMITTING_TIERS
  <2>1. raw \in KNOWN_TIERS
    BY <1>1, Vocabulary
  <2>2. resolve_privacy_tier(raw) = [effective |-> raw, assumed |-> FALSE,
                                     cloud_permitted |-> TRUE]
    BY <1>1, <2>1, Zenon DEF resolve_privacy_tier
  <2> QED
    BY <1>1, <2>1, <2>2, Vocabulary DEF Resolved, Strictness
<1>2. CASE raw \in KNOWN_TIERS \ CLOUD_PERMITTING_TIERS
  <2>1. (raw \in CLOUD_PERMITTING_TIERS) = FALSE
    BY <1>2
  <2>2. resolve_privacy_tier(raw) = [effective |-> raw, assumed |-> FALSE,
                                     cloud_permitted |-> FALSE]
    BY <1>2, <2>1 DEF resolve_privacy_tier
  <2> QED
    BY <1>2, <2>2, Vocabulary DEF Resolved, Strictness
<1>3. CASE raw \notin KNOWN_TIERS
  <2>1. resolve_privacy_tier(raw) = [effective |-> MOST_RESTRICTIVE_TIER, assumed |-> TRUE,
                                     cloud_permitted |-> FALSE]
    BY <1>3 DEF resolve_privacy_tier
  <2>2. resolve_privacy_tier(raw) \in Resolved
    BY <2>1, Vocabulary DEF Resolved
  <2>3. Strictness(resolve_privacy_tier(raw)) = PRIVACY_STRICTNESS[MOST_RESTRICTIVE_TIER]
    BY <2>1 DEF Strictness
  <2>4. /\ PRIVACY_STRICTNESS[MOST_RESTRICTIVE_TIER] \in 0..4
        /\ ~ PRIVACY_STRICTNESS[MOST_RESTRICTIVE_TIER] <= 1
    BY Vocabulary
  <2>5. ~ resolve_privacy_tier(raw).cloud_permitted
    BY <2>1
  <2>6. raw \notin CLOUD_PERMITTING_TIERS
    BY <1>3, Vocabulary
  <2> QED
    BY <2>2, <2>3, <2>4, <2>5, <2>6
<1> QED
  BY <1>1, <1>2, <1>3

(* Several signals: if none was supplied, the most restrictive tier; else   *)
(* one of those supplied, as strict as each of them.                        *)
THEOREM PrecedenceIsStrictest ==
    ASSUME NEW inputs \in Seq(Raws)
    PROVE  LET supplied == {i \in DOMAIN inputs : Supplied(inputs[i])}
               result   == resolve_privacy_precedence(inputs)
           IN IF supplied = {} THEN result = resolve_privacy_tier("none")
              ELSE \E i \in supplied :
                     /\ result = resolve_privacy_tier(inputs[i])
                     /\ \A j \in supplied :
                          Strictness(resolve_privacy_tier(inputs[j])) <= Strictness(result)
<1> DEFINE supplied == {i \in DOMAIN inputs : Supplied(inputs[i])}
           rank(i)  == Strictness(resolve_privacy_tier(inputs[i]))
           result   == resolve_privacy_precedence(inputs)
           First(i) == \A j \in supplied : rank(j) < rank(i) \/ (rank(j) = rank(i) /\ i <= j)
<1>1. CASE supplied = {}
  BY <1>1 DEF resolve_privacy_precedence
<1>2. CASE supplied # {}
  <2>1. \A i \in supplied : rank(i) \in 0..4
    BY ResolveTier
  <2>2. supplied \subseteq Nat
    OBVIOUS
  <2>3. PICK n \in supplied : \A j \in supplied : rank(j) <= rank(n)
    <3> DEFINE slack == {4 - rank(i) : i \in supplied}
    <3> HIDE DEF rank, supplied
    <3>1. slack \in SUBSET Nat /\ slack # {}
      BY <1>2, <2>1
    <3>2. PICK m \in slack : \A k \in slack : m <= k
      BY <3>1, LeastNumber
    <3>3. PICK i \in supplied : m = 4 - rank(i)
      BY <3>2
    <3>4. \A j \in supplied : 4 - rank(i) <= 4 - rank(j)
      BY <3>2, <3>3
    <3> QED
      BY <2>1, <3>3, <3>4
  <2>4. \E i \in supplied : First(i)
    <3> DEFINE top == {i \in supplied : rank(i) = rank(n)}
    <3>1. top \in SUBSET Nat /\ top # {}
      BY <2>2, <2>3
    <3> HIDE DEF rank, supplied
    <3>2. PICK i \in top : \A j \in top : i <= j
      <4> HIDE DEF top
      <4> QED BY <3>1, LeastNumber
    <3>3. \A j \in supplied : rank(j) < rank(i) \/ (rank(j) = rank(i) /\ i <= j)
      BY <2>1, <2>3, <3>2
    <3> QED
      BY <3>2, <3>3
  <2> DEFINE s == CHOOSE i \in supplied : First(i)
  <2>5. s \in supplied /\ First(s)
    <3> HIDE DEF supplied, First
    <3> QED BY <2>4
  <2>6. result = resolve_privacy_tier(inputs[s])
    BY <1>2 DEF resolve_privacy_precedence
  <2>7. \A j \in supplied : rank(j) <= Strictness(result)
    <3>1. Strictness(result) = rank(s)
      BY <2>6
    <3> HIDE DEF rank, supplied, s, result
    <3> QED
      BY <2>1, <2>5, <3>1
  <2> QED
    BY <1>2, <2>5, <2>6, <2>7
<1> QED
  BY <1>1, <1>2

---------------------------------------------------------------------------
(* A provider that placement may choose passed every stage, and so the      *)
(* privacy filter.                                                          *)
LEMMA EligibleIsPermitted ==
    ASSUME NEW snaps, NEW req, NEW now, NEW max_age,
           NEW s \in Eligible(snaps, req, now, max_age), s.placement_class = "cloud"
    PROVE  s \in snaps /\ req.cloud_permitted
<1>1. s \in snaps /\ 1 \notin Failures(s, req, now, max_age)
  BY DEF Eligible
<1>2. Stages[1] = "privacy" /\ 1 \in 1..6
  BY DEF Stages
<1>3. s \in Candidates({s}, req)
  BY <1>1, <1>2 DEF Failures
<1> QED
  BY <1>1, <1>3 DEF Candidates

(* What placement chooses is eligible. *)
LEMMA ChosenIsEligible ==
    ASSUME NEW snaps, NEW req, NEW now, NEW max_age,
           Select(snaps, req, now, max_age) # NoPlacement
    PROVE  \E s \in Eligible(snaps, req, now, max_age) :
              Select(snaps, req, now, max_age).provider = s.id
<1> DEFINE s == CHOOSE s \in snaps : Best(s, snaps, req, now, max_age)
<1>1. \E x \in snaps : Best(x, snaps, req, now, max_age)
  BY DEF Select
<1>2. Best(s, snaps, req, now, max_age)
  BY <1>1
<1>3. s \in Eligible(snaps, req, now, max_age)
  BY <1>2 DEF Best
<1>4. Select(snaps, req, now, max_age).provider = s.id
  BY <1>1 DEF Select
<1> QED
  BY <1>3, <1>4

(* The two signals of a call: the cloud is permitted only if one was        *)
(* supplied and each that was permits it.                                   *)
LEMMA ConsentOfTwo ==
    ASSUME NEW header \in Raws, NEW body \in Raws
    PROVE  /\ PrivacyOf(header, body) \in Resolved
           /\ PrivacyOf(header, body).cloud_permitted =>
                LET signals == {raw \in {header, body} : Supplied(raw)}
                IN signals # {} /\ signals \subseteq CLOUD_PERMITTING_TIERS
<1> DEFINE inputs   == <<header, body>>
           supplied == {i \in DOMAIN inputs : Supplied(inputs[i])}
           result   == PrivacyOf(header, body)
<1>1. inputs \in Seq(Raws) /\ DOMAIN inputs = {1, 2}
      /\ inputs[1] = header /\ inputs[2] = body
  OBVIOUS
<1>2. result = resolve_privacy_precedence(inputs)
  BY DEF PrivacyOf
<1>3. CASE supplied = {}
  <2>1. result = resolve_privacy_tier("none")
    BY <1>1, <1>2, <1>3, PrecedenceIsStrictest
  <2>2. "none" \notin CLOUD_PERMITTING_TIERS
    BY DEF CLOUD_PERMITTING_TIERS
  <2> QED
    BY <2>1, <2>2, ResolveTier
<1>4. CASE supplied # {}
  <2>1. PICK i \in supplied :
          /\ result = resolve_privacy_tier(inputs[i])
          /\ \A j \in supplied :
               Strictness(resolve_privacy_tier(inputs[j])) <= Strictness(result)
    BY <1>1, <1>2, <1>4, PrecedenceIsStrictest
  <2>2. result \in Resolved
    BY <2>1, ResolveTier
  <2>3. ASSUME result.cloud_permitted, NEW j \in supplied
        PROVE  inputs[j] \in CLOUD_PERMITTING_TIERS
    <3>1. Strictness(result) \in 0..4 /\ Strictness(result) <= 1
      BY <2>1, <2>3, ResolveTier
    <3>2. /\ Strictness(resolve_privacy_tier(inputs[j])) \in 0..4
          /\ Strictness(resolve_privacy_tier(inputs[j])) <= Strictness(result)
      BY <2>1, ResolveTier
    <3> QED
      BY <3>1, <3>2, ResolveTier
  <2>4. \A raw \in {header, body} : Supplied(raw) =>
          \E j \in supplied : raw = inputs[j]
    BY <1>1
  <2>5. \E raw \in {header, body} : Supplied(raw)
    BY <1>1, <1>4
  <2> QED
    BY <2>2, <2>3, <2>4, <2>5
<1> QED
  BY <1>3, <1>4

---------------------------------------------------------------------------
(* The invariant that carries the default-deny through a call: its privacy  *)
(* is that of its signals, its snapshots are those of the fleet, and what   *)
(* it was placed on, it may use.                                            *)
Resolution == call.pc # "idle" => call.privacy = PrivacyOf(call.header, call.body)

FaithfulView ==
    call.pc # "idle" =>
        \A p \in 1..Len(call.view) :
            /\ call.view[p].id = p
            /\ call.view[p].placement_class = Fleet[p].placement_class

LawfulChoice ==
    Provided => Chosen \in Ids /\ (IsCloud(Chosen) => call.privacy.cloud_permitted)

(* And the decision is the one its snapshots give. *)
Verdict == Select(Snaps, Work, 1, {0})
Recorded ==
    /\ Provided => Decided
    /\ Decided =>
         /\ call.rejected = Rejections(Snaps, Work, 1, {0})
         /\ Provided => call.placed = Verdict /\ Verdict # NoPlacement

IInv == TypeOK /\ Resolution /\ FaithfulView /\ LawfulChoice /\ Recorded

(* A copied cache entry is a snapshot of its provider. *)
LEMMA SnapshotFacts ==
    ASSUME TypeOK, NEW p \in Ids, NEW load \in Loads, NEW taken \in Ages
    PROVE  /\ Snapshot(p, load, taken) \in Snapshots
           /\ Snapshot(p, load, taken).id = p
           /\ Snapshot(p, load, taken).placement_class = Fleet[p].placement_class
BY DEF Snapshot, Snapshots, TypeOK

(* The lengths of what a call has copied. *)
LEMMA Lengths ==
    ASSUME TypeOK, call.pc # "idle"
    PROVE  /\ Len(call.view) \in Nat /\ Len(call.again) \in Nat
           /\ Last \in Nat \ {0} /\ Ids = 1..Last /\ Last \in Ids
<1>1. call.view \in Seq(Snapshots) /\ call.again \in Seq(NameSets)
  BY DEF TypeOK
<1>2. Last \in Nat \ {0} /\ Ids = 1..Last
  BY FleetAssumption DEF Last, Ids
<1> QED
  BY <1>1, <1>2

(* Copying one more entry keeps the view that of the fleet. *)
LEMMA CopyOne ==
    ASSUME TypeOK, FaithfulView, call.pc # "idle", Len(call.view) + 1 <= Last,
           NEW load \in Loads, NEW taken \in Ages
    PROVE  LET view == Append(call.view, Snapshot(Len(call.view) + 1, load, taken))
           IN /\ view \in Seq(Snapshots)
              /\ Len(view) = Len(call.view) + 1
              /\ \A p \in 1..Len(view) : /\ view[p].id = p
                                         /\ view[p].placement_class = Fleet[p].placement_class
<1> DEFINE n    == Len(call.view) + 1
           snap == Snapshot(n, load, taken)
           view == Append(call.view, snap)
<1>1. call.view \in Seq(Snapshots)
  BY DEF TypeOK
<1>2. n \in Ids
  BY <1>1, FleetAssumption DEF Ids, Last
<1>3. /\ snap \in Snapshots
      /\ snap.id = n
      /\ snap.placement_class = Fleet[n].placement_class
  BY <1>2, SnapshotFacts
<1>4. /\ view \in Seq(Snapshots)
      /\ Len(view) = n
      /\ \A p \in 1..Len(call.view) : view[p] = call.view[p]
      /\ view[n] = snap
  <2> HIDE DEF snap
  <2> QED BY <1>1, <1>3
<1>5. \A p \in 1..n : p \in 1..Len(call.view) \/ p = n
  BY <1>1
<1> QED
  BY <1>3, <1>4, <1>5 DEF FaithfulView

(* The record holds as long as what it is about stays. *)
LEMMA RecordedStays ==
    ASSUME Recorded, call.pc # "idle", call'.pc # "idle", call'.wish = call.wish,
           call'.privacy = call.privacy, call'.view = call.view,
           call'.placed = call.placed, call'.rejected = call.rejected,
           \/ call'.answer = call.answer
           \/ call'.answer \notin {"placed", "eligible", "refused", "not_eligible"}
    PROVE  Recorded'
<1>1. Snaps' = Snaps /\ Work' = Work /\ Verdict' = Verdict /\ Decided' = Decided
  BY DEF Snaps, Work, Verdict, Decided
<1>2. Provided' => Provided
  BY DEF Provided
<1> QED
  BY <1>1, <1>2 DEF Recorded

(* Nor is anything decided without the last snapshot. *)
LEMMA NothingRecorded ==
    ASSUME ~ Provided', ~ Decided'
    PROVE  Recorded'
BY DEF Recorded

LEMMA InitIInv == Init => IInv
<1> SUFFICES ASSUME Init
             PROVE  IInv
  OBVIOUS
<1>1. call.pc = "idle"
  BY DEF Init, Idle
<1>2. {} \in NameSets
  <2>1. Names({}) = {}
    BY DEF Names
  <2> QED
    BY <2>1 DEF NameSets
<1>3. TypeOK
  BY <1>1, <1>2 DEF Init, TypeOK
<1> QED
  BY <1>1, <1>3 DEF IInv, Resolution, FaithfulView, LawfulChoice, Recorded, Provided, Decided

(* The steps of the cache leave the call alone, and the cache typed. *)
LEMMA CacheStep ==
    ASSUME IInv, NEW p \in Ids,
           ProbeDown(p) \/ \E models \in Inventories : ProbeUp(p, models)
    PROVE  IInv'
<1>1. call' = call
  BY DEF ProbeDown, ProbeUp
<1>4. Recorded'
  BY <1>1 DEF IInv, Recorded, Provided, Decided, Verdict, Snaps, Work
<1>2. CASE ProbeDown(p)
  <2>1. cache' \in [Ids -> [healthy : BOOLEAN, models : {{}} \cup Inventories, known : NameSets]]
    BY <1>2 DEF ProbeDown, IInv, TypeOK
  <2>2. ASSUME NEW q \in Ids
        PROVE  /\ ~ cache'[q].healthy => cache'[q].models = {}
               /\ cache'[q].healthy => cache'[q].known = Names(cache'[q].models)
    <3>1. CASE q = p
      BY <1>2, <3>1 DEF ProbeDown, IInv, TypeOK
    <3>2. CASE q # p
      <4>1. cache'[q] = cache[q]
        BY <1>2, <3>2 DEF ProbeDown, IInv, TypeOK
      <4> QED
        BY <4>1 DEF IInv, TypeOK
    <3> QED
      BY <3>1, <3>2
  <2>3. TypeOK'
    BY <1>1, <2>1, <2>2 DEF IInv, TypeOK
  <2> QED
    BY <1>1, <1>4, <2>3 DEF IInv, Resolution, FaithfulView, LawfulChoice, Provided, Chosen
<1>3. ASSUME NEW models \in Inventories, ProbeUp(p, models)
      PROVE  IInv'
  <2>1. Names(models) \in NameSets
    BY DEF NameSets
  <2>2. TypeOK'
    BY <1>1, <1>3, <2>1 DEF ProbeUp, IInv, TypeOK
  <2> QED
    BY <1>1, <1>4, <2>2 DEF IInv, Resolution, FaithfulView, LawfulChoice, Provided, Chosen
<1> QED
  BY <1>2, <1>3

(* A call that comes in has its privacy, and has chosen nothing. *)
LEMMA AskStep ==
    ASSUME IInv, NEW wish \in Wishes, NEW header \in Headers, NEW body \in Bodies,
           Ask(wish, header, body)
    PROVE  IInv'
<1>1. PrivacyOf(header, body) \in Resolved
  BY RawsAssumption, ConsentOfTwo
<1>2. /\ cache' = cache
      /\ call'.pc \in {"looking", "answered"}
      /\ call'.wish = wish /\ call'.header = header /\ call'.body = body
      /\ call'.privacy = PrivacyOf(header, body)
      /\ call'.view = <<>> /\ call'.again = <<>>
      /\ call'.answer \in {"none", "bad_request"}
      /\ call' = [f \in CallFields |-> call'[f]]
  BY DEF Ask, CallFields
<1>3. TypeOK'
  BY <1>1, <1>2, FleetAssumption DEF IInv, TypeOK, Answers, Last
<1>4. Recorded'
  <2>1. ~ Provided'
    BY <1>2 DEF Provided
  <2>2. ~ Decided'
    BY <1>2, FleetAssumption DEF Decided, Last
  <2> QED
    BY <2>1, <2>2, NothingRecorded
<1> QED
  BY <1>2, <1>3, <1>4 DEF IInv, Resolution, FaithfulView, LawfulChoice, Provided

(* An entry that is copied, before the last, decides nothing. *)
LEMMA LookStep ==
    ASSUME IInv, NEW load \in Loads, NEW taken \in Ages, Look(load, taken)
    PROVE  IInv'
<1> DEFINE view == Append(call.view, Snapshot(Len(call.view) + 1, load, taken))
<1>1. /\ call.pc = "looking"
      /\ Len(call.view) + 1 < Last
      /\ call' = [call EXCEPT !.view = view]
      /\ cache' = cache
  BY DEF Look
<1>2. TypeOK /\ FaithfulView /\ call = [f \in CallFields |-> call[f]]
  BY <1>1 DEF IInv, TypeOK
<1>3. Len(call.view) \in Nat /\ Last \in Nat
  BY <1>1, <1>2, Lengths
<1>4. /\ view \in Seq(Snapshots)
      /\ Len(view) = Len(call.view) + 1
      /\ \A p \in 1..Len(view) : /\ view[p].id = p
                                 /\ view[p].placement_class = Fleet[p].placement_class
  <2>1. call.pc # "idle" /\ Len(call.view) + 1 <= Last
    BY <1>1, <1>3
  <2> QED
    BY <1>2, <2>1, CopyOne
<1> HIDE DEF view
<1>5. /\ call'.view = view
      /\ \A f \in CallFields \ {"view"} : call'[f] = call[f]
      /\ call' = [f \in CallFields |-> call'[f]]
  BY <1>1, <1>2 DEF CallFields
<1>6. /\ call'.pc = "looking" /\ call'.wish = call.wish /\ call'.header = call.header
      /\ call'.body = call.body /\ call'.privacy = call.privacy
      /\ call'.again = call.again /\ call'.placed = call.placed
      /\ call'.answer = call.answer
  BY <1>1, <1>5 DEF CallFields
<1>7. TypeOK'
  <2>1. Len(view) <= Last
    BY <1>1, <1>3, <1>4
  <2> QED
    BY <1>1, <1>2, <1>4, <1>5, <1>6, <2>1 DEF TypeOK
<1>8. Resolution' /\ FaithfulView'
  BY <1>1, <1>4, <1>5, <1>6 DEF IInv, Resolution, FaithfulView
<1>9. LawfulChoice'
  BY <1>1, <1>6 DEF IInv, LawfulChoice, Provided, Chosen
<1>10. Recorded'
  <2>1. ~ Decided /\ ~ Decided'
    BY <1>1, <1>3, <1>4, <1>5 DEF Decided
  <2>2. ~ Provided'
    BY <1>1, <1>6, <2>1 DEF IInv, Recorded, Provided
  <2> QED
    BY <2>1, <2>2, NothingRecorded
<1> QED
  BY <1>7, <1>8, <1>9, <1>10 DEF IInv

(* What is chosen from the snapshots of the fleet is one of its providers,  *)
(* and one that the privacy of the call permits.                            *)
LEMMA ChoiceIsLawful ==
    ASSUME NEW view, NEW wish, NEW privacy,
           \A p \in Ids : /\ view[p].id = p
                          /\ view[p].placement_class = Fleet[p].placement_class,
           Select({view[p] : p \in Ids}, Workload(wish, privacy), 1, {0}) # NoPlacement
    PROVE  LET chosen == Select({view[p] : p \in Ids}, Workload(wish, privacy), 1, {0})
           IN /\ chosen.provider \in Ids
              /\ IsCloud(chosen.provider) => privacy.cloud_permitted
<1> DEFINE snaps == {view[p] : p \in Ids}
           work  == Workload(wish, privacy)
<1>1. work.cloud_permitted = privacy.cloud_permitted
  BY DEF Workload
<1>0. Select(snaps, work, 1, {0}) # NoPlacement
  OBVIOUS
<1> HIDE DEF work, snaps
<1>2. PICK s \in Eligible(snaps, work, 1, {0}) :
         Select(snaps, work, 1, {0}).provider = s.id
  BY <1>0, ChosenIsEligible
<1>3. s \in snaps
  BY DEF Eligible
<1>4. PICK p \in Ids : s = view[p]
  BY <1>3 DEF snaps
<1>5. s.id = p /\ s.placement_class = Fleet[p].placement_class
  BY <1>4
<1>6. s.placement_class = "cloud" => work.cloud_permitted
  BY <1>2, EligibleIsPermitted
<1> QED
  BY <1>1, <1>2, <1>5, <1>6 DEF IsCloud, work, snaps

(* The last entry is copied and the call placed. *)
LEMMA DecideStep ==
    ASSUME IInv, NEW load \in Loads, NEW taken \in Ages, Decide(load, taken)
    PROVE  IInv'
<1> DEFINE view   == Append(call.view, Snapshot(Last, load, taken))
           snaps  == {view[p] : p \in Ids}
           work   == Workload(call.wish, call.privacy)
           placed == Select(snaps, work, 1, {0})
           answer == Outcome(call.wish, placed)
           rejected == Rejections(snaps, work, 1, {0})
<1>1. /\ call.pc = "looking"
      /\ Len(call.view) + 1 = Last
      /\ cache' = cache
  BY DEF Decide
<1>2. TypeOK /\ FaithfulView /\ call = [f \in CallFields |-> call[f]]
  BY <1>1 DEF IInv, TypeOK
<1>3. Len(call.view) \in Nat /\ Last \in Nat
  BY <1>1, <1>2, Lengths
<1>4. /\ view \in Seq(Snapshots)
      /\ Len(view) = Last
      /\ \A p \in 1..Last : /\ view[p].id = p
                            /\ view[p].placement_class = Fleet[p].placement_class
  BY <1>1, <1>2, <1>3, CopyOne
<1>5. Ids = 1..Last
  BY FleetAssumption DEF Ids, Last
<1>6. answer \in Answers
  BY <1>1, <1>2, WishesAssumption DEF TypeOK, Outcome, Answers
<1>7. answer \in {"placed", "eligible"} => placed # NoPlacement
  BY <1>1, <1>2, WishesAssumption DEF TypeOK, Outcome
<1>8. placed # NoPlacement =>
        /\ placed.provider \in Ids
        /\ IsCloud(placed.provider) => call.privacy.cloud_permitted
  <2> HIDE DEF view
  <2> QED BY <1>4, <1>5, ChoiceIsLawful
<1>9. call' = [call EXCEPT
                  !.view = view,
                  !.placed = IF answer \in {"eligible", "placed"} THEN placed ELSE NoPlacement,
                  !.rejected = rejected,
                  !.answer = answer,
                  !.pc = IF answer = "none" THEN "explaining" ELSE "answered"]
  BY DEF Decide
<1> HIDE DEF view, placed, answer, rejected
<1>10. /\ call'.view = view /\ call'.answer = answer
       /\ call'.pc \in {"explaining", "answered"}
       /\ call'.rejected = rejected
       /\ answer \in {"placed", "eligible"} => call'.placed = placed
       /\ call'.wish = call.wish /\ call'.header = call.header
       /\ call'.body = call.body /\ call'.privacy = call.privacy
       /\ call'.again = call.again
       /\ call' = [f \in CallFields |-> call'[f]]
  BY <1>2, <1>9 DEF CallFields
<1>11. TypeOK'
  BY <1>1, <1>3, <1>4, <1>6, <1>10 DEF IInv, TypeOK
<1>12. Resolution' /\ FaithfulView'
  BY <1>1, <1>4, <1>10 DEF IInv, Resolution, FaithfulView
<1>13. LawfulChoice'
  BY <1>7, <1>8, <1>10 DEF LawfulChoice, Provided, Chosen
<1>14. Recorded'
  <2>1. Snaps' = {view[p] : p \in Ids} /\ Work' = work
    BY <1>10 DEF Snaps, Work
  <2>2. Verdict' = placed /\ Rejections(Snaps', Work', 1, {0}) = rejected
    BY <2>1 DEF Verdict, placed, rejected
  <2>3. Decided'
    BY <1>4, <1>10 DEF Decided
  <2> QED
    BY <1>7, <1>10, <2>2, <2>3 DEF Recorded, Provided
<1> QED
  BY <1>11, <1>12, <1>13, <1>14 DEF IInv

(* The second look at the models. *)
LEMMA LookAgainStep == ASSUME IInv, LookAgain PROVE IInv'
<1> DEFINE more == Append(call.again, Names(cache[Len(call.again) + 1].models))
<1>1. /\ call.pc = "explaining"
      /\ Len(call.again) + 1 < Last
      /\ call' = [call EXCEPT !.again = more]
      /\ cache' = cache
  BY DEF LookAgain
<1>2. TypeOK /\ call = [f \in CallFields |-> call[f]]
  BY <1>1 DEF IInv, TypeOK
<1>3. Len(call.again) \in Nat /\ Last \in Nat /\ Len(call.again) + 1 \in Ids
  BY <1>1, <1>2, Lengths
<1>4. Names(cache[Len(call.again) + 1].models) \in NameSets
  BY <1>2, <1>3 DEF TypeOK, NameSets
<1>5. more \in Seq(NameSets) /\ Len(more) = Len(call.again) + 1
  BY <1>1, <1>2, <1>4 DEF TypeOK
<1> HIDE DEF more
<1>6. /\ call'.again = more /\ call'.pc = "explaining" /\ call'.wish = call.wish
      /\ call'.header = call.header /\ call'.body = call.body
      /\ call'.privacy = call.privacy /\ call'.view = call.view
      /\ call'.placed = call.placed /\ call'.answer = call.answer
      /\ call'.rejected = call.rejected
      /\ call' = [f \in CallFields |-> call'[f]]
  BY <1>1, <1>2 DEF CallFields
<1>7. TypeOK'
  BY <1>1, <1>3, <1>5, <1>6 DEF IInv, TypeOK
<1>8. Recorded'
  BY <1>1, <1>6, RecordedStays DEF IInv
<1> QED
  BY <1>1, <1>6, <1>7, <1>8 DEF IInv, Resolution, FaithfulView, LawfulChoice, Provided, Chosen

(* A refusal is explained: nothing is chosen. *)
LEMMA ExplainStep == ASSUME IInv, Explain PROVE IInv'
<1> DEFINE more  == Append(call.again, Names(cache[Last].models))
           model == call.wish.model
           answer == CASE \E p \in Ids : model \in more[p] -> "privacy_refusal"
                       [] (\A p \in Ids : model \notin more[p])
                          /\ KnownButUnhealthy(model, call.privacy.cloud_permitted)
                            -> "temporarily_unavailable"
                       [] OTHER -> "model_not_found"
<1>1. /\ call.pc = "explaining"
      /\ Len(call.again) + 1 = Last
      /\ call' = [call EXCEPT !.again = more, !.pc = "answered", !.answer = answer]
      /\ cache' = cache
  BY DEF Explain
<1>2. TypeOK /\ call = [f \in CallFields |-> call[f]]
  BY <1>1 DEF IInv, TypeOK
<1>3. Len(call.again) \in Nat /\ Last \in Nat /\ Last \in Ids
  BY <1>1, <1>2, Lengths
<1>4. Names(cache[Last].models) \in NameSets
  BY <1>2, <1>3 DEF TypeOK, NameSets
<1>5. more \in Seq(NameSets) /\ Len(more) = Last
  BY <1>1, <1>2, <1>4 DEF TypeOK
<1>6. answer \in Answers \ {"placed", "eligible", "refused", "not_eligible"}
  BY DEF Answers
<1> HIDE DEF more, answer
<1>7. /\ call'.again = more /\ call'.pc = "answered" /\ call'.answer = answer
      /\ call'.wish = call.wish /\ call'.header = call.header
      /\ call'.body = call.body /\ call'.privacy = call.privacy
      /\ call'.view = call.view /\ call'.placed = call.placed
      /\ call'.rejected = call.rejected
      /\ call' = [f \in CallFields |-> call'[f]]
  BY <1>1, <1>2 DEF CallFields
<1>8. TypeOK'
  BY <1>1, <1>3, <1>5, <1>6, <1>7 DEF IInv, TypeOK
<1>9. Recorded'
  BY <1>1, <1>6, <1>7, RecordedStays DEF IInv
<1> QED
  BY <1>1, <1>6, <1>7, <1>8, <1>9 DEF IInv, Resolution, FaithfulView, LawfulChoice, Provided

LEMMA NextIInv == IInv /\ [Next]_vars => IInv'
<1> SUFFICES ASSUME IInv, [Next]_vars
             PROVE  IInv'
  OBVIOUS
<1>1. ASSUME NEW p \in Ids,
             ProbeDown(p) \/ \E models \in Inventories : ProbeUp(p, models)
      PROVE  IInv'
  BY <1>1, CacheStep
<1>2. ASSUME NEW wish \in Wishes, NEW header \in Headers, NEW body \in Bodies,
             Ask(wish, header, body)
      PROVE  IInv'
  BY <1>2, AskStep
<1>3. ASSUME NEW load \in Loads, NEW taken \in Ages, Look(load, taken) \/ Decide(load, taken)
      PROVE  IInv'
  BY <1>3, LookStep, DecideStep
<1>4. CASE LookAgain
  BY <1>4, LookAgainStep
<1>5. CASE Explain
  BY <1>5, ExplainStep
<1>6. CASE Answered
  BY <1>6 DEF Answered, Idle, IInv, TypeOK, Resolution, FaithfulView, LawfulChoice, Recorded,
              Provided, Decided
<1>7. CASE UNCHANGED vars
  <2>1. call' = call /\ cache' = cache
    BY <1>7 DEF vars
  <2>2. Recorded'
    BY <2>1 DEF IInv, Recorded, Provided, Decided, Verdict, Snaps, Work
  <2> QED
    BY <2>1, <2>2 DEF IInv, TypeOK, Resolution, FaithfulView, LawfulChoice, Provided, Chosen
<1> QED
  BY <1>1, <1>2, <1>3, <1>4, <1>5, <1>6, <1>7 DEF Next

LEMMA Invariance == Spec => []IInv
BY InitIInv, NextIInv, PTL DEF Spec

(* The routing of a call keeps its types. *)
THEOREM TypeCorrect == Spec => []TypeOK
<1>1. IInv => TypeOK
  BY DEF IInv
<1> QED
  BY <1>1, Invariance, PTL

(* Cloud execution is default-denied, on every surface, for every fleet. *)
THEOREM CloudIsDefaultDenied == Spec => []CloudNeedsConsent
<1>1. IInv => CloudNeedsConsent
  <2> SUFFICES ASSUME IInv, Provided, IsCloud(Chosen)
               PROVE  Signals # {} /\ Signals \subseteq CLOUD_PERMITTING_TIERS
    BY DEF CloudNeedsConsent
  <2>1. call.header \in Raws /\ call.body \in Raws
    BY RawsAssumption DEF IInv, TypeOK, Provided
  <2>2. call.privacy = PrivacyOf(call.header, call.body) /\ call.privacy.cloud_permitted
    BY DEF IInv, Resolution, LawfulChoice, Provided
  <2> QED
    BY <2>1, <2>2, ConsentOfTwo DEF Signals
<1> QED
  BY <1>1, Invariance, PTL

(* The tier enforced on a call is the strictest that it supplied, in the    *)
(* header or in the body, whatever the other says.                          *)
THEOREM StrictestSignalRules == Spec => []StrictestTierRules
<1>1. IInv => StrictestTierRules
  <2> SUFFICES ASSUME IInv, call.pc # "idle"
               PROVE  LET ranks == {Strictness(resolve_privacy_tier(raw)) : raw \in Signals}
                      IN IF Signals = {} THEN call.privacy = resolve_privacy_tier("none")
                         ELSE /\ Strictness(call.privacy) \in ranks
                              /\ \A r \in ranks : r <= Strictness(call.privacy)
    BY DEF StrictestTierRules
  <2> DEFINE inputs   == <<call.header, call.body>>
             supplied == {i \in DOMAIN inputs : Supplied(inputs[i])}
  <2>1. inputs \in Seq(Raws)
    BY RawsAssumption DEF IInv, TypeOK
  <2>2. call.privacy = resolve_privacy_precedence(inputs)
    BY DEF IInv, Resolution, PrivacyOf
  <2>3. /\ \A i \in supplied : inputs[i] \in Signals
        /\ \A raw \in Signals : \E i \in supplied : inputs[i] = raw
    BY DEF Signals
  <2>4. IF supplied = {} THEN call.privacy = resolve_privacy_tier("none")
        ELSE \E i \in supplied :
               /\ call.privacy = resolve_privacy_tier(inputs[i])
               /\ \A j \in supplied :
                    Strictness(resolve_privacy_tier(inputs[j])) <= Strictness(call.privacy)
    BY <2>1, <2>2, PrecedenceIsStrictest
  <2> HIDE DEF inputs, supplied
  <2> QED
    BY <2>3, <2>4
<1> QED
  BY <1>1, Invariance, PTL

---------------------------------------------------------------------------
(* What a snapshot of the fleet is, of a call or of a page. *)
Readings ==
    [id : Ids, placement_class : {Fleet[p].placement_class : p \in Ids},
     capabilities : {Fleet[p].capabilities : p \in Ids},
     max_concurrency : {Fleet[p].max_concurrency : p \in Ids},
     quality : {Fleet[p].quality : p \in Ids}, tps : {Fleet[p].tps : p \in Ids},
     healthy : BOOLEAN, models : {{}} \cup Inventories, active_runs : Loads, taken_at : {0, 1}]

(* Placement can rank it. *)
LEMMA ReadingIsComparable == ASSUME NEW s \in Readings PROVE Comparable(s)
<1>1. s.id \in Int
  BY FleetAssumption DEF Readings, Ids
<1>2. s.active_runs \in Int
  <2>1. s.active_runs \in Loads
    BY DEF Readings
  <2>2. s.active_runs \in Nat
    BY <2>1, LoadsAssumption
  <2> QED BY <2>2
<1>3. s.max_concurrency \in Int /\ s.quality \in Int /\ s.tps \in Int
  BY FleetAssumption DEF Readings, Ids
<1>4. IsFiniteSet(s.models) /\ s.models \subseteq ModelInfo
  <2>1. s.models = {} \/ s.models \in Inventories
    BY DEF Readings
  <2> QED
    BY <2>1, FS_EmptySet, InventoriesAssumption
<1> QED
  BY <1>1, <1>2, <1>3, <1>4 DEF Comparable

(* A snapshot of each provider of the fleet: a field for placement. *)
LEMMA ViewIsField ==
    ASSUME NEW view, \A p \in Ids : view[p] \in Readings /\ view[p].id = p
    PROVE  Field({view[p] : p \in Ids})
<1> DEFINE snaps == {view[p] : p \in Ids}
           f     == [p \in Ids |-> view[p]]
<1>1. IsFiniteSet(Ids)
  BY FleetAssumption, FS_Interval DEF Ids
<1>2. f \in Surjection(Ids, snaps)
  BY DEF Surjection
<1>3. IsFiniteSet(snaps)
  BY <1>1, <1>2, FS_Surjection, Zenon
<1>4. \A s \in snaps : Comparable(s)
  BY ReadingIsComparable
<1>5. \A s, t \in snaps : s.id = t.id => s = t
  OBVIOUS
<1> QED
  BY <1>3, <1>4, <1>5 DEF Field

(* The snapshots of a call that has been decided. *)
LEMMA DecidedView ==
    ASSUME IInv, Decided
    PROVE  /\ Field(Snaps)
           /\ \A p \in Ids : /\ call.view[p] \in Snaps /\ call.view[p].id = p
                             /\ call.view[p].placement_class = Fleet[p].placement_class
           /\ \A s \in Snaps : /\ s.id \in Ids /\ s = call.view[s.id]
                               /\ s.placement_class = Fleet[s.id].placement_class
<1>1. Ids = 1..Last /\ call.view \in Seq(Snapshots) /\ Len(call.view) = Last
  BY FleetAssumption DEF IInv, TypeOK, Decided, Ids, Last
<1>2. \A p \in Ids : /\ call.view[p] \in Snapshots /\ call.view[p].id = p
                     /\ call.view[p].placement_class = Fleet[p].placement_class
  BY <1>1 DEF IInv, FaithfulView, Decided
<1>3. \A s \in Snapshots : s \in Readings
  BY AgesAssumption DEF Snapshots, Readings
<1>4. Field(Snaps)
  BY <1>2, <1>3, ViewIsField DEF Snaps
<1> QED
  BY <1>2, <1>4 DEF Snaps

(* A provider that the privacy of a call forbids is rejected for that, and  *)
(* for nothing that it could only tell of itself.                           *)
LEMMA ForbiddenStage ==
    ASSUME NEW s, NEW req, NEW now, NEW max_age,
           s.placement_class = "cloud", ~ req.cloud_permitted
    PROVE  /\ Failures(s, req, now, max_age) # {}
           /\ Stage(Failures(s, req, now, max_age)) = "privacy"
<1> DEFINE failed == Failures(s, req, now, max_age)
<1>1. Stages[1] = "privacy" /\ s \notin Candidates({s}, req)
  BY DEF Stages, Candidates
<1>2. 1 \in failed /\ failed \subseteq 1..6
  BY <1>1 DEF Failures
<1>3. \A j \in failed : 1 <= j
  <2> HIDE DEF failed
  <2> QED BY <1>2
<1> QED
  BY <1>1, <1>2, <1>3, StageIsFirst

(* Nothing of a forbidden cloud provider shows, whatever it is doing.       *)
THEOREM ForbiddenCloudNeverShows == Spec => []ForbiddenCloudIsInvisible
<1>1. IInv => ForbiddenCloudIsInvisible
  <2> DEFINE hide(s) == IF s.placement_class = "cloud" THEN Blank(s) ELSE s
             hidden  == {hide(s) : s \in Snaps}
  <2> SUFFICES ASSUME IInv, Decided, ~ call.privacy.cloud_permitted
               PROVE  /\ call.rejected = Rejections(hidden, Work, 1, {0})
                      /\ Provided => call.placed = Select(hidden, Work, 1, {0})
    BY DEF ForbiddenCloudIsInvisible
  <2>1. ~ Work.cloud_permitted
    BY DEF Work, Workload
  <2>2. Field(Snaps)
    BY DecidedView
  <2>3. ASSUME NEW s \in Snaps, s.placement_class = "cloud"
        PROVE  /\ hide(s).id = s.id /\ hide(s).placement_class = "cloud"
    <3>1. /\ s \in Readings
          /\ hide(s) = [s EXCEPT !.healthy = FALSE, !.models = {}, !.active_runs = 0,
                                 !.taken_at = 1]
      <4>1. /\ Ids = 1..Last /\ call.view \in Seq(Snapshots) /\ Len(call.view) = Last
        BY FleetAssumption DEF IInv, TypeOK, Decided, Ids, Last
      <4>2. s \in Snapshots
        BY <4>1 DEF Snaps
      <4> QED BY <2>3, <4>2, AgesAssumption DEF Blank, Snapshots, Readings
    <3> QED
      BY <2>3, <3>1 DEF Readings
  <2>4. \A s : s.placement_class = "cloud" => Failures(s, Work, 1, {0}) # {}
    BY <2>1, ForbiddenStage
  <2>5. \A s \in Snaps : s.placement_class # "cloud" => hide(s) = s
    OBVIOUS
  <2> HIDE DEF hide
  <2>6. Eligible(hidden, Work, 1, {0}) = Eligible(Snaps, Work, 1, {0})
    BY <2>3, <2>4, <2>5 DEF Eligible
  <2>7. Select(hidden, Work, 1, {0}) = Verdict
    BY <2>2, <2>6, SameEligibleSamePlacement DEF Verdict
  <2>8. Rejections(hidden, Work, 1, {0}) = Rejections(Snaps, Work, 1, {0})
    <3> DEFINE able    == Eligible(Snaps, Work, 1, {0})
               entry(s) == [provider |-> s.id, stage |-> Stage(Failures(s, Work, 1, {0}))]
    <3>1. \A s \in Snaps : entry(hide(s)) = entry(s)
      BY <2>1, <2>3, <2>5, ForbiddenStage
    <3>2. \A s \in Snaps : hide(s) \in able <=> s \in able
      BY <2>3, <2>4, <2>5 DEF Eligible
    <3>3. Rejections(Snaps, Work, 1, {0}) = {entry(s) : s \in Snaps \ able}
      BY DEF Rejections
    <3>4. Rejections(hidden, Work, 1, {0}) = {entry(s) : s \in hidden \ able}
      BY <2>6 DEF Rejections
    <3> HIDE DEF able, entry
    <3> QED
      BY <3>1, <3>2, <3>3, <3>4
  <2> QED
    BY <2>7, <2>8 DEF IInv, Recorded
<1> QED
  BY <1>1, Invariance, PTL

(* A call that is placed goes to the best of the providers that can take    *)
(* it, and the taker is its snapshot.                                       *)
LEMMA TakerIsBest ==
    ASSUME IInv, Provided
    PROVE  /\ Decided /\ Field(Snaps) /\ Chosen \in Ids
           /\ Taker \in Snaps /\ Best(Taker, Snaps, Work, 1, {0})
           /\ Taker \in Eligible(Snaps, Work, 1, {0})
           /\ Taker.id = Chosen /\ Taker.placement_class = Fleet[Chosen].placement_class
           /\ call.placed = [provider |-> Chosen, model |-> ModelOn(Taker, Work).id]
<1>1. Decided /\ call.placed = Verdict /\ Verdict # NoPlacement
  BY DEF IInv, Recorded
<1>2. Field(Snaps)
  BY <1>1, DecidedView
<1>3. PICK s \in Snaps : /\ Best(s, Snaps, Work, 1, {0})
                         /\ Verdict = [provider |-> s.id, model |-> ModelOn(s, Work).id]
  BY <1>1, <1>2, PlacedOrNobodyCan DEF Verdict
<1>4. Chosen = s.id
  BY <1>1, <1>3 DEF Chosen
<1>5. /\ s.id \in Ids /\ s = call.view[s.id]
      /\ s.placement_class = Fleet[s.id].placement_class
  BY <1>1, DecidedView
<1>6. Taker = s
  BY <1>4, <1>5 DEF Taker
<1> QED
  BY <1>1, <1>2, <1>3, <1>4, <1>5, <1>6 DEF Best

(* The tier of a call changes neither the models that fit it on a provider  *)
(* nor the rank of a provider: only whether a cloud provider is considered. *)
LEMMA DeniedCloud ==
    ASSUME NEW req, NEW snaps, NEW now, NEW max_age,
           req = Workload(call.wish, call.privacy)
    PROVE  LET denied == [req EXCEPT !.cloud_permitted = FALSE]
           IN /\ \A s : /\ Fitting(s, denied) = Fitting(s, req)
                        /\ ModelOn(s, denied) = ModelOn(s, req)
                        /\ Rank(s, denied) = Rank(s, req)
              /\ \A s \in snaps :
                   s \in Eligible(snaps, denied, now, max_age)
                     <=> /\ s.placement_class # "cloud"
                         /\ s \in Eligible(snaps, req, now, max_age)
<1> DEFINE denied == [req EXCEPT !.cloud_permitted = FALSE]
<1>1. /\ denied.model = req.model /\ denied.capabilities = req.capabilities
      /\ denied.tokens = req.tokens /\ denied.prefers = req.prefers
      /\ denied.cloud_permitted = FALSE
  BY DEF Workload
<1> HIDE DEF denied
<1>2. \A s : Fitting(s, denied) = Fitting(s, req)
  BY <1>1 DEF Fitting, Asked
<1>3. \A s : ModelOn(s, denied) = ModelOn(s, req)
  BY <1>2 DEF ModelOn
<1>4. \A s : Rank(s, denied) = Rank(s, req)
  BY <1>1, <1>3 DEF Rank, Preference
<1>5. ASSUME NEW s \in snaps
      PROVE  s \in Eligible(snaps, denied, now, max_age)
                     <=> /\ s.placement_class # "cloud"
                         /\ s \in Eligible(snaps, req, now, max_age)
  BY <1>1, <1>2, EligibleFacts
<1> QED
  BY <1>2, <1>3, <1>4, <1>5 DEF denied

(* Local before cloud, always: in a fleet of local and cloud providers,     *)
(* permitting the cloud moves no work that a local provider can take.       *)
THEOREM LocalBeforeCloud ==
    ASSUME \A p \in Ids : Fleet[p].placement_class \in {"local", "cloud"}
    PROVE  Spec => []LocalWorkStaysLocal
<1>1. IInv => LocalWorkStaysLocal
  <2> DEFINE denied == [Work EXCEPT !.cloud_permitted = FALSE]
             able   == Eligible(Snaps, Work, 1, {0})
             home   == Eligible(Snaps, denied, 1, {0})
  <2> SUFFICES ASSUME IInv, Provided
               PROVE  /\ home # {} => ~ IsCloud(Chosen)
                      /\ Select(Snaps, denied, 1, {0}) \in {call.placed, NoPlacement}
    BY DEF LocalWorkStaysLocal
  <2>1. /\ Decided /\ Field(Snaps) /\ Taker \in able
        /\ Best(Taker, Snaps, Work, 1, {0})
        /\ Taker.id = Chosen /\ Taker.placement_class = Fleet[Chosen].placement_class
        /\ Chosen \in Ids /\ Taker \in Snaps
        /\ call.placed = [provider |-> Chosen, model |-> ModelOn(Taker, Work).id]
    BY TakerIsBest
  <2>2. /\ \A s : ModelOn(s, denied) = ModelOn(s, Work) /\ Rank(s, denied) = Rank(s, Work)
        /\ \A s \in Snaps : s \in home <=> s.placement_class # "cloud" /\ s \in able
    BY DeniedCloud DEF Work
  <2>3. \A s \in able : s \in Snaps
    BY DEF Eligible
  <2> HIDE DEF denied, able
  <2>4. \A s \in home : s \in Snaps
    BY DEF Eligible
  <2> HIDE DEF home
  <2>5. ASSUME NEW t \in home
        PROVE  ~ IsCloud(Chosen)
    <3>1. t \in Snaps /\ t \in able /\ t.placement_class = "local"
      BY <2>1, <2>2, <2>4, DecidedView
    <3>2. CASE t = Taker
      BY <2>1, <3>1, <3>2 DEF IsCloud
    <3>3. CASE t # Taker
      <4>1. Less(Rank(Taker, Work), Rank(t, Work))
        BY <2>1, <3>1, <3>3 DEF Best, able
      <4>2. /\ Rank(Taker, Work) \in [1..6 -> Int] /\ Rank(t, Work) \in [1..6 -> Int]
            /\ Rank(Taker, Work)[1] = Key(Taker.placement_class # "local")
            /\ Rank(t, Work)[1] = Key(t.placement_class # "local")
        BY <2>1, <3>1, Ranks DEF Field
      <4>3. Rank(Taker, Work)[1] <= Rank(t, Work)[1]
        BY <4>1, <4>2, FirstNumbers
      <4>4. Taker.placement_class = "local"
        BY <3>1, <4>2, <4>3 DEF Key
      <4> QED
        BY <2>1, <4>4 DEF IsCloud
    <3> QED BY <3>2, <3>3
  <2>6. CASE home = {}
    <3>1. Select(Snaps, denied, 1, {0}) = NoPlacement
      BY <2>1, <2>6, PlacedOrNobodyCan DEF home
    <3> QED BY <2>6, <3>1
  <2>7. CASE home # {}
    <3>1. ~ IsCloud(Chosen)
      BY <2>5, <2>7
    <3>2. Taker \in home
      BY <2>1, <2>2, <3>1 DEF IsCloud
    <3>3. \A t \in home \ {Taker} : Less(Rank(Taker, Work), Rank(t, Work))
      BY <2>1, <2>2, <2>4 DEF Best, able
    <3>4. Best(Taker, Snaps, denied, 1, {0})
      BY <2>2, <3>2, <3>3 DEF Best, home
    <3>5. Select(Snaps, denied, 1, {0})
            = [provider |-> Taker.id, model |-> ModelOn(Taker, denied).id]
      BY <2>1, <3>4, PlacementIsTheBest
    <3> QED BY <2>1, <2>2, <3>1, <3>5
  <2> QED BY <2>6, <2>7
<1> QED
  BY <1>1, Invariance, PTL

(* Of the class it is placed in, a call goes to the provider that is best   *)
(* at what it asked for; without a preference, to one with the model loaded *)
(* if there is one, and among equals to the shortest queue.                 *)
THEOREM PreferenceIsHonoured == Spec => []PreferenceHonoured
<1>1. IInv => PreferenceHonoured
  <2> DEFINE warm(s) == \E m \in Fitting(s, Work) : m.loaded
  <2> SUFFICES ASSUME IInv, Provided, NEW s \in Rivals
               PROVE  CASE Work.prefers = "quality" -> s.quality <= Taker.quality
                        [] Work.prefers = "latency" -> s.tps <= Taker.tps
                        [] OTHER ->
                             /\ warm(s) =>
                                  \E m \in Taker.models : m.id = call.placed.model /\ m.loaded
                             /\ warm(s) = warm(Taker) => QueueSeconds(Taker) <= QueueSeconds(s)
    BY Zenon DEF PreferenceHonoured
  <2>1. /\ Field(Snaps) /\ Best(Taker, Snaps, Work, 1, {0})
        /\ Taker \in Snaps /\ Taker \in Eligible(Snaps, Work, 1, {0})
        /\ Taker.placement_class = Fleet[Chosen].placement_class
        /\ call.placed = [provider |-> Chosen, model |-> ModelOn(Taker, Work).id]
    BY TakerIsBest
  <2>2. /\ s \in Snaps /\ s \in Eligible(Snaps, Work, 1, {0})
        /\ s.placement_class = Taker.placement_class
    BY <2>1 DEF Rivals, Eligible
  <2>3. /\ Comparable(s) /\ Fitting(s, Work) # {}
        /\ Comparable(Taker) /\ Fitting(Taker, Work) # {}
    BY <2>1, <2>2, EligibleFacts DEF Field
  <2>4. /\ ModelOn(s, Work) \in Fitting(s, Work) /\ ModelOn(s, Work) \in ModelInfo
        /\ \A m \in Fitting(s, Work) : m.loaded => ModelOn(s, Work).loaded
        /\ ModelOn(Taker, Work) \in Fitting(Taker, Work) /\ ModelOn(Taker, Work) \in ModelInfo
        /\ \A m \in Fitting(Taker, Work) : m.loaded => ModelOn(Taker, Work).loaded
    BY <2>3, ModelTaken
  <2>5. /\ warm(s) <=> ModelOn(s, Work).loaded
        /\ warm(Taker) <=> ModelOn(Taker, Work).loaded
    BY <2>4
  <2> DEFINE a == Rank(Taker, Work)
             b == Rank(s, Work)
  <2>6. /\ a \in [1..6 -> Int] /\ b \in [1..6 -> Int] /\ a[1] = b[1]
        /\ Work.prefers = "quality" => a[2] = - Taker.quality /\ b[2] = - s.quality
        /\ Work.prefers = "latency" => a[2] = - Taker.tps /\ b[2] = - s.tps
        /\ Work.prefers \notin {"quality", "latency"} =>
             /\ a[2] = Key(~ ModelOn(Taker, Work).loaded) /\ b[2] = Key(~ ModelOn(s, Work).loaded)
             /\ a[3] = QueueSeconds(Taker) /\ b[3] = QueueSeconds(s)
    BY <2>2, <2>3, Ranks
  <2>7. s = Taker \/ Less(a, b)
    BY <2>2, <2>1 DEF Best
  <2> HIDE DEF a, b, warm
  <2>8. a[2] <= b[2] /\ (a[2] = b[2] => a[3] <= b[3])
    <3>1. CASE s = Taker
      BY <2>6, <3>1 DEF a, b
    <3>2. CASE Less(a, b)
      BY <2>6, <3>2, FirstNumbers
    <3> QED BY <2>7, <3>1, <3>2
  <2>9. CASE Work.prefers = "quality"
    <3>1. s.quality <= Taker.quality
      BY <2>3, <2>6, <2>8, <2>9 DEF Comparable
    <3> QED BY <2>9, <3>1
  <2>10. CASE Work.prefers = "latency"
    <3>1. s.tps <= Taker.tps
      BY <2>3, <2>6, <2>8, <2>10 DEF Comparable
    <3> QED BY <2>10, <3>1
  <2>11. CASE Work.prefers \notin {"quality", "latency"}
    <3>1. ASSUME warm(s)
          PROVE  \E m \in Taker.models : m.id = call.placed.model /\ m.loaded
      <4>1. ModelOn(s, Work).loaded = TRUE
        BY <2>4, <2>5, <3>1 DEF ModelInfo
      <4>2. ModelOn(Taker, Work).loaded
        BY <2>4, <2>6, <2>8, <2>11, <4>1 DEF Key, ModelInfo
      <4>3. ModelOn(Taker, Work) \in Taker.models
        BY <2>4 DEF Fitting, Asked
      <4> QED BY <2>1, <4>2, <4>3
    <3>2. ASSUME warm(s) = warm(Taker)
          PROVE  QueueSeconds(Taker) <= QueueSeconds(s)
      <4>1. ModelOn(s, Work).loaded = ModelOn(Taker, Work).loaded
        BY <2>4, <2>5, <3>2 DEF ModelInfo
      <4>2. a[2] = b[2]
        BY <2>6, <2>11, <4>1
      <4> QED BY <2>6, <2>8, <2>11, <4>2
    <3> QED BY <2>11, <3>1, <3>2
  <2> QED BY <2>9, <2>10, <2>11
<1> QED
  BY <1>1, Invariance, PTL

(* A call of /v1 that is being explained could not be placed on what it had *)
(* copied, where an entry that was down listed nothing.                     *)
Unplaced ==
    call.pc # "idle" =>
        /\ \A p \in 1..Len(call.view) :
             ~ call.view[p].healthy => call.view[p].models = {}
        /\ call.pc = "explaining" \/ call.answer = "privacy_refusal" =>
             Decided /\ Verdict = NoPlacement /\ call.wish.surface = "openai"

LEMMA UnplacedStep == IInv /\ Unplaced /\ [Next]_vars => Unplaced'
<1> SUFFICES ASSUME IInv, Unplaced, [Next]_vars
             PROVE  Unplaced'
  OBVIOUS
<1>1. call.pc # "idle" => call = [f \in CallFields |-> call[f]]
  BY DEF IInv, TypeOK
<1>2. ASSUME call' = call
      PROVE  Unplaced'
  BY <1>2 DEF Unplaced, Decided, Verdict, Snaps, Work
<1>3. ASSUME call.pc # "idle", call'.pc \in {"explaining", "answered"}, call'.view = call.view,
             call'.wish = call.wish, call'.privacy = call.privacy, call.pc = "explaining"
      PROVE  Unplaced'
  <2>1. /\ \A p \in 1..Len(call.view) : ~ call.view[p].healthy => call.view[p].models = {}
        /\ Decided /\ Verdict = NoPlacement /\ call.wish.surface = "openai"
    BY <1>3 DEF Unplaced
  <2>2. Snaps' = Snaps /\ Work' = Work
    BY <1>3 DEF Snaps, Work
  <2>3. Decided' /\ Verdict' = NoPlacement
    BY <1>3, <2>1, <2>2 DEF Decided, Verdict
  <2> QED
    BY <1>3, <2>1, <2>3 DEF Unplaced
<1>4. ASSUME NEW load \in Loads, NEW taken \in Ages, call.pc = "looking", Len(call.view) < Last
      PROVE  LET view == Append(call.view, Snapshot(Len(call.view) + 1, load, taken))
             IN /\ Len(view) = Len(call.view) + 1
                /\ \A p \in 1..Len(view) : ~ view[p].healthy => view[p].models = {}
  <2> DEFINE n    == Len(call.view) + 1
             snap == Snapshot(n, load, taken)
             view == Append(call.view, snap)
  <2>1. /\ TypeOK /\ call.view \in Seq(Snapshots) /\ Len(call.view) \in Nat
        /\ Ids = 1..Last /\ Last \in Nat
    BY <1>4, FleetAssumption DEF IInv, TypeOK, Ids, Last
  <2>2. n \in Ids
    BY <1>4, <2>1
  <2>3. snap \in Snapshots
    BY <2>1, <2>2, SnapshotFacts
  <2>4. ~ snap.healthy => snap.models = {}
    BY <2>1, <2>2 DEF Snapshot, TypeOK
  <2> HIDE DEF snap
  <2>5. /\ Len(view) = n /\ view[n] = snap
        /\ \A p \in 1..Len(call.view) : view[p] = call.view[p]
    BY <2>1, <2>3
  <2>6. \A p \in 1..n : p \in 1..Len(call.view) \/ p = n
    BY <2>1
  <2>7. \A p \in 1..Len(call.view) : ~ call.view[p].healthy => call.view[p].models = {}
    BY <1>4 DEF Unplaced
  <2> HIDE DEF view
  <2>8. \A p \in 1..Len(view) : ~ view[p].healthy => view[p].models = {}
    BY <2>4, <2>5, <2>6, <2>7
  <2> QED
    BY <2>5, <2>8 DEF view, snap
<1>5. ASSUME NEW p \in Ids, ProbeDown(p) \/ \E models \in Inventories : ProbeUp(p, models)
      PROVE  Unplaced'
  BY <1>2, <1>5 DEF ProbeDown, ProbeUp
<1>6. ASSUME NEW wish \in Wishes, NEW header \in Headers, NEW body \in Bodies,
             Ask(wish, header, body)
      PROVE  Unplaced'
  <2>1. /\ call'.view = <<>> /\ call'.pc \in {"looking", "answered"}
        /\ call'.answer \in {"none", "bad_request"}
    BY <1>6 DEF Ask
  <2> QED
    BY <2>1 DEF Unplaced
<1>7. ASSUME NEW load \in Loads, NEW taken \in Ages, Look(load, taken)
      PROVE  Unplaced'
  <2> DEFINE view == Append(call.view, Snapshot(Len(call.view) + 1, load, taken))
  <2>1. /\ call.pc = "looking" /\ Len(call.view) + 1 < Last
        /\ call' = [call EXCEPT !.view = view]
    BY <1>7 DEF Look
  <2>2. call.view \in Seq(Snapshots) /\ Last \in Nat
    BY <2>1, FleetAssumption DEF IInv, TypeOK, Last
  <2>3. Len(call.view) < Last
    BY <2>1, <2>2
  <2>4. \A p \in 1..Len(view) : ~ view[p].healthy => view[p].models = {}
    BY <1>4, <2>1, <2>3
  <2>5. ~ Decided
    BY <2>1, <2>2 DEF Decided
  <2>6. call.answer # "privacy_refusal"
    BY <2>1, <2>5 DEF Unplaced
  <2> HIDE DEF view
  <2>7. call'.view = view /\ call'.pc = "looking" /\ call'.answer = call.answer
    BY <1>1, <2>1 DEF CallFields
  <2> QED
    BY <2>4, <2>6, <2>7 DEF Unplaced
<1>8. ASSUME NEW load \in Loads, NEW taken \in Ages, Decide(load, taken)
      PROVE  Unplaced'
  <2> DEFINE view   == Append(call.view, Snapshot(Last, load, taken))
             snaps  == {view[p] : p \in Ids}
             work   == Workload(call.wish, call.privacy)
             placed == Select(snaps, work, 1, {0})
             answer == Outcome(call.wish, placed)
  <2>1. call.pc = "looking" /\ Len(call.view) + 1 = Last
    BY <1>8 DEF Decide
  <2>2. call.view \in Seq(Snapshots) /\ Last \in Nat /\ call.wish \in Wishes
    BY <2>1, FleetAssumption DEF IInv, TypeOK, Last
  <2>3. Len(call.view) < Last
    BY <2>1, <2>2
  <2>4. /\ Len(view) = Last
        /\ \A p \in 1..Len(view) : ~ view[p].healthy => view[p].models = {}
    BY <1>4, <2>1, <2>3
  <2>5. /\ answer # "privacy_refusal"
        /\ answer = "none" => placed = NoPlacement /\ call.wish.surface = "openai"
    <3> HIDE DEF placed
    <3> QED BY <2>2, WishesAssumption DEF Outcome
  <2>6. call' = [call EXCEPT
                    !.view = view,
                    !.placed = IF answer \in {"eligible", "placed"} THEN placed ELSE NoPlacement,
                    !.rejected = Rejections(snaps, work, 1, {0}),
                    !.answer = answer,
                    !.pc = IF answer = "none" THEN "explaining" ELSE "answered"]
    BY <1>8 DEF Decide
  <2> HIDE DEF view, placed, answer
  <2>7. /\ call'.view = view /\ call'.answer = answer /\ call'.wish = call.wish
        /\ call'.privacy = call.privacy
        /\ call'.pc = IF answer = "none" THEN "explaining" ELSE "answered"
    BY <1>1, <2>1, <2>6 DEF CallFields
  <2>8. Verdict' = placed /\ Decided'
    BY <2>4, <2>7 DEF Verdict, Snaps, Work, placed, Decided
  <2> QED
    BY <2>4, <2>5, <2>7, <2>8 DEF Unplaced
<1>9. CASE LookAgain
  <2>1. /\ call.pc = "explaining"
        /\ \E more : call' = [call EXCEPT !.again = more]
    BY <1>9 DEF LookAgain
  <2>2. /\ call'.pc = "explaining" /\ call'.view = call.view
        /\ call'.wish = call.wish /\ call'.privacy = call.privacy
    BY <1>1, <2>1 DEF CallFields
  <2> QED
    BY <1>3, <2>1, <2>2
<1>10. CASE Explain
  <2>1. /\ call.pc = "explaining"
        /\ \E more, answer :
              call' = [call EXCEPT !.again = more, !.pc = "answered", !.answer = answer]
    BY <1>10 DEF Explain
  <2>2. /\ call'.pc = "answered" /\ call'.view = call.view
        /\ call'.wish = call.wish /\ call'.privacy = call.privacy
    BY <1>1, <2>1 DEF CallFields
  <2> QED
    BY <1>3, <2>1, <2>2
<1>11. CASE Answered
  BY <1>11 DEF Answered, Idle, Unplaced
<1>12. CASE UNCHANGED vars
  BY <1>2, <1>12 DEF vars
<1> QED
  BY <1>5, <1>6, <1>7, <1>8, <1>9, <1>10, <1>11, <1>12 DEF Next

(* A 403 of /v1 has its reason in the privacy of the call, in the age of an *)
(* entry, or in a model that came up between the two snapshots.             *)
THEOREM RefusalIsExplained == Spec => []RefusalExplained
<1>1. Init => Unplaced
  BY DEF Init, Idle, Unplaced
<1>2. IInv /\ Unplaced => RefusalExplained
  <2> DEFINE model == call.wish.model
             s(p)  == call.view[p]
  <2> SUFFICES ASSUME IInv, Unplaced, call.pc = "answered", call.answer = "privacy_refusal",
                      NEW p \in Ids, model \in Names(s(p).models)
               PROVE  \E r \in call.rejected : r.provider = p /\ r.stage \in {"privacy", "stale"}
    BY DEF RefusalExplained
  <2>1. /\ Decided /\ Verdict = NoPlacement /\ call.wish.surface = "openai"
        /\ ~ s(p).healthy => s(p).models = {}
    BY FleetAssumption DEF Unplaced, Decided, Ids, Last
  <2>2. Field(Snaps) /\ s(p) \in Snaps /\ s(p).id = p
    BY <2>1, DecidedView
  <2>3. /\ call.rejected = Rejections(Snaps, Work, 1, {0})
        /\ Eligible(Snaps, Work, 1, {0}) = {}
    BY <2>1, <2>2, PlacedOrNobodyCan DEF IInv, Recorded, Verdict
  <2> DEFINE failed == Failures(s(p), Work, 1, {0})
             entry  == [provider |-> s(p).id, stage |-> Stage(failed)]
  <2>4. entry \in call.rejected /\ failed # {}
    BY <2>2, <2>3 DEF Rejections, Eligible
  <2>5. Work.model = model /\ Work.capabilities = {} /\ Work.tokens = 0
    BY <2>1 DEF Work, Workload
  <2>6. PICK m \in s(p).models : m.id = model
    BY DEF Names
  <2>7. m.context_tokens \in Int
    BY <2>2, <2>6 DEF Field, Comparable, ModelInfo
  <2>8. m \in Asked(s(p), Work)
    BY <2>5, <2>6 DEF Asked
  <2>9. m \in Fitting(s(p), Work)
    BY <2>5, <2>7, <2>8 DEF Fitting
  <2>10. /\ failed \subseteq {1, 2, 3, 4, 5, 6}
         /\ 3 \in failed <=> ~ s(p).healthy
         /\ 4 \in failed <=> ~ (Work.capabilities \subseteq s(p).capabilities)
         /\ 5 \in failed <=> Work.model # AnyModel /\ Asked(s(p), Work) = {}
         /\ 6 \in failed <=> Fitting(s(p), Work) = {}
    BY FailureFacts
  <2> HIDE DEF failed, s, model
  <2>11. failed \subseteq {1, 2}
    BY <2>1, <2>5, <2>6, <2>8, <2>9, <2>10
  <2>12. \E i \in failed : Stage(failed) = Stages[i]
    BY <2>4, StageExists DEF failed
  <2>13. Stage(failed) \in {"privacy", "stale"}
    BY <2>11, <2>12 DEF Stages
  <2> QED
    BY <2>2, <2>4, <2>13
<1>3. Spec => [](IInv /\ Unplaced)
  BY <1>1, InitIInv, NextIInv, UnplacedStep, PTL DEF Spec
<1> QED
  BY <1>2, <1>3, PTL

---------------------------------------------------------------------------
(* The read-only routes.  A page never touches a call or the cache, so that *)
(* what holds of the calls holds beside it; and it shows the fleet.         *)
PageView ==
    /\ page = [kind |-> page.kind, view |-> page.view]
    /\ page.kind \in Pages \cup {"none"}
    /\ page.kind # "none" =>
         /\ page.view \in Seq(Readings) /\ Len(page.view) <= Last
         /\ \A p \in 1..Len(page.view) :
              /\ page.view[p].id = p /\ page.view[p].placement_class = Fleet[p].placement_class
              /\ ~ page.view[p].healthy => page.view[p].models = {}

LEMMA CopiedReading ==
    ASSUME TypeOK, NEW p \in Ids, NEW load \in Loads, NEW taken \in Ages
    PROVE  LET s == Snapshot(p, load, taken)
           IN /\ s \in Readings
              /\ s.id = p /\ s.placement_class = Fleet[p].placement_class
              /\ ~ s.healthy => s.models = {}
BY AgesAssumption DEF Snapshot, Readings, TypeOK

LEMMA PageStep == IInv /\ PageView /\ [PageNext]_<<vars, page>> => PageView'
<1> SUFFICES ASSUME IInv, PageView, [PageNext]_<<vars, page>>
             PROVE  PageView'
  OBVIOUS
<1>1. CASE UNCHANGED page
  BY <1>1 DEF PageView
<1>2. ASSUME NEW kind \in Pages, Open(kind)
      PROVE  PageView'
  <2>1. /\ page' = [kind |-> kind, view |-> <<>>]
        /\ Last \in Nat
    BY <1>2, FleetAssumption DEF Open, Last
  <2> QED
    BY <2>1 DEF PageView
<1>3. ASSUME NEW load \in Loads, NEW taken \in Ages, Copy(load, taken)
      PROVE  PageView'
  <2> DEFINE n    == Len(page.view) + 1
             snap == Snapshot(n, load, taken)
             view == Append(page.view, snap)
  <2>1. /\ page.kind # "none" /\ Len(page.view) # Last
        /\ page' = [page EXCEPT !.view = view]
    BY <1>3 DEF Copy, Rendered
  <2>2. /\ page.view \in Seq(Readings) /\ Len(page.view) \in Nat /\ Len(page.view) <= Last
        /\ Last \in Nat /\ Ids = 1..Last
    BY <2>1, FleetAssumption DEF PageView, Last, Ids
  <2>3. n \in Ids /\ n <= Last
    BY <2>1, <2>2
  <2>4. /\ snap \in Readings
        /\ snap.id = n /\ snap.placement_class = Fleet[n].placement_class
        /\ ~ snap.healthy => snap.models = {}
    BY <2>3, CopiedReading DEF IInv
  <2> HIDE DEF snap
  <2>5. /\ view \in Seq(Readings) /\ Len(view) = n /\ view[n] = snap
        /\ \A p \in 1..Len(page.view) : view[p] = page.view[p]
    BY <2>2, <2>4, AppendOne
  <2>6. \A p \in 1..Len(view) : p \in 1..Len(page.view) \/ p = n
    BY <2>2, <2>5
  <2> HIDE DEF view
  <2>7. /\ page'.kind = page.kind /\ page'.view = view
        /\ page' = [kind |-> page'.kind, view |-> page'.view]
    BY <2>1 DEF PageView
  <2> QED
    BY <2>1, <2>3, <2>4, <2>5, <2>6, <2>7 DEF PageView
<1>4. CASE Close
  BY <1>4 DEF Close, NoPage, PageView
<1> QED
  BY <1>1, <1>2, <1>3, <1>4 DEF PageNext

LEMMA PageInvariance == PageSpec => [](IInv /\ PageView)
<1>1. PageInit => IInv /\ PageView
  BY InitIInv DEF PageInit, NoPage, PageView
<1>2. [PageNext]_<<vars, page>> => [Next]_vars
  BY DEF PageNext, Open, Copy, Close, vars
<1>3. IInv /\ PageView /\ [PageNext]_<<vars, page>> => (IInv /\ PageView)'
  BY <1>2, NextIInv, PageStep
<1> QED
  BY <1>1, <1>3, PTL DEF PageSpec

(* What a rendered page shows: a snapshot of each provider. *)
LEMMA ShownFacts ==
    ASSUME PageView, Rendered
    PROVE  /\ Field(Shown)
           /\ \A s \in Shown : /\ s.id \in Ids /\ s = page.view[s.id]
                               /\ s.placement_class = Fleet[s.id].placement_class
                               /\ s.taken_at \in {0, 1}
                               /\ ~ s.healthy => s.models = {}
<1>1. Ids = 1..Last /\ page.view \in Seq(Readings) /\ Len(page.view) = Last
  BY FleetAssumption DEF PageView, Rendered, Ids, Last
<1>2. \A p \in Ids :
         /\ page.view[p] \in Readings /\ page.view[p].id = p
         /\ page.view[p].placement_class = Fleet[p].placement_class
         /\ ~ page.view[p].healthy => page.view[p].models = {}
  BY <1>1 DEF PageView, Rendered
<1>3. Field(Shown)
  BY <1>2, ViewIsField DEF Shown
<1> QED
  BY <1>2, <1>3 DEF Shown, Readings

(* /health tells what placement would do with the same snapshots, but for   *)
(* their age: "down" when every call would be refused, "ok" when no         *)
(* provider is rejected for its health, and else one is, or is too old.     *)
THEOREM HealthIsPlacements == PageSpec => []HealthAgreesWithPlacement
<1>1. PageView => HealthAgreesWithPlacement
  <2> DEFINE status   == HealthOf(Shown)
             plain    == Plain(AnyModel)
             rejected == Shown \ Eligible(Shown, plain, 1, {0})
             entry(s) == [provider |-> s.id, stage |-> Stage(Failures(s, plain, 1, {0}))]
             stages   == {r.stage : r \in Rejections(Shown, plain, 1, {0})}
  <2> SUFFICES ASSUME PageView, Rendered
               PROVE  /\ status = "down" =>
                           \A wish \in Wishes :
                              PlacedOn(Shown, [Workload(wish, resolve_privacy_tier("none"))
                                                 EXCEPT !.cloud_permitted = TRUE]) = NoPlacement
                      /\ status = "ok" => stages \subseteq {"stale", "context"}
                      /\ status # "ok" => stages \cap {"stale", "health"} # {}
    BY DEF HealthAgreesWithPlacement
  <2>1. Field(Shown)
    BY ShownFacts
  <2>2. /\ status = "ok" <=> \A s \in Shown : s.healthy
        /\ status = "down" => \A s \in Shown : ~ s.healthy
    BY DEF HealthOf
  <2>3. ASSUME status = "down", NEW req
        PROVE  PlacedOn(Shown, req) = NoPlacement
    <3>1. Eligible(Shown, req, 1, {0}) = {}
      <4>1. \A s \in Eligible(Shown, req, 1, {0}) : s \in Shown
        BY DEF Eligible
      <4> QED BY <2>2, <2>3, <4>1, EligibleFacts
    <3> QED BY <2>1, <3>1, PlacedOrNobodyCan DEF PlacedOn
  <2>4. ASSUME NEW s \in Shown
        PROVE  LET failed == Failures(s, plain, 1, {0})
               IN /\ failed \subseteq {2, 3, 6}
                  /\ 3 \in failed <=> ~ s.healthy
    <3> DEFINE failed == Failures(s, plain, 1, {0})
    <3>1. /\ failed \subseteq {1, 2, 3, 4, 5, 6}
          /\ 1 \in failed <=> s.placement_class = "cloud" /\ ~ plain.cloud_permitted
          /\ 3 \in failed <=> ~ s.healthy
          /\ 4 \in failed <=> ~ (plain.capabilities \subseteq s.capabilities)
          /\ 5 \in failed <=> plain.model # AnyModel /\ Asked(s, plain) = {}
      BY FailureFacts
    <3>2. 1 \notin failed /\ 4 \notin failed /\ 5 \notin failed
      <4>1. plain.cloud_permitted /\ plain.capabilities = {} /\ plain.model = AnyModel
        BY DEF Plain
      <4> HIDE DEF failed, plain
      <4> QED BY <3>1, <4>1
    <3> HIDE DEF failed
    <3> QED BY <3>1, <3>2 DEF failed
  <2>5. ASSUME NEW s \in rejected
        PROVE  entry(s).stage \in IF s.healthy THEN {"stale", "context"} ELSE {"stale", "health"}
    <3> DEFINE failed == Failures(s, plain, 1, {0})
    <3>1. failed \subseteq {2, 3, 6} /\ (3 \in failed <=> ~ s.healthy) /\ failed # {}
      BY <2>4 DEF Eligible
    <3>2. Stages[2] = "stale" /\ Stages[3] = "health" /\ Stages[6] = "context"
      BY DEF Stages
    <3>3. PICK i \in failed : /\ \A j \in failed : i <= j
                              /\ Stage(failed) = Stages[i]
      BY <3>1, StageExists
    <3> HIDE DEF failed
    <3>4. CASE s.healthy
      <4>1. i \in {2, 6}
        BY <3>1, <3>3, <3>4
      <4> QED BY <3>2, <3>3, <3>4, <4>1 DEF failed
    <3>5. CASE ~ s.healthy
      <4>1. i \in {2, 3}
        BY <3>1, <3>3, <3>5
      <4> QED BY <3>2, <3>3, <3>5, <4>1 DEF failed
    <3> QED BY <3>4, <3>5
  <2>6. stages = {entry(s).stage : s \in rejected}
    BY DEF Rejections
  <2>7. ASSUME NEW s \in Shown, ~ s.healthy
        PROVE  s \in rejected
    BY <2>7, EligibleFacts
  <2>8. \A s \in rejected : s \in Shown
    OBVIOUS
  <2> HIDE DEF entry, rejected, stages, status
  <2>9. status = "ok" => stages \subseteq {"stale", "context"}
    BY <2>2, <2>5, <2>6, <2>8
  <2>10. status # "ok" => stages \cap {"stale", "health"} # {}
    BY <2>2, <2>5, <2>6, <2>7
  <2> QED
    BY <2>3, <2>9, <2>10
<1> QED
  BY <1>1, PageInvariance, PTL

(* A model that an entry within the ceiling lists is served to a call that  *)
(* names it, and any other is refused; if such an entry has it loaded it is *)
(* served loaded, unless the call goes to a local provider and the entry is *)
(* a cloud's.                                                               *)
THEOREM ListedCanBeHad ==
    ASSUME \A p \in Ids : Fleet[p].placement_class \in {"local", "cloud"}
    PROVE  PageSpec => []ListedIsServed
<1>1. PageView => ListedIsServed
  <2> SUFFICES ASSUME PageView, Rendered,
                      NEW model \in Listed(Shown, page.kind = "loaded")
               PROVE  LET placed == PlacedOn(Shown, Plain(model))
                          taker  == page.view[placed.provider]
                      IN /\ placed # NoPlacement <=>
                              \E s \in Current : model \in Names(s.models)
                         /\ \A s \in Current : Warm(s, model) =>
                              \/ Warm(taker, model)
                              \/ taker.placement_class = "local" /\ s.placement_class = "cloud"
    BY DEF ListedIsServed
  <2> DEFINE plain  == Plain(model)
             able   == Eligible(Shown, plain, 1, {0})
             placed == PlacedOn(Shown, plain)
             taker  == page.view[placed.provider]
  <2>1. /\ Field(Shown)
        /\ \A s \in Shown : /\ s = page.view[s.id] /\ s.taken_at \in {0, 1}
                            /\ s.placement_class \in {"local", "cloud"}
                            /\ ~ s.healthy => s.models = {}
    BY ShownFacts
  <2>2. PICK source \in Shown : \E m \in source.models : m.id = model
    BY DEF Listed
  <2>3. model \in Int /\ model # AnyModel
    BY <2>1, <2>2, ModelsAssumption DEF Field, Comparable, ModelInfo
  <2>4. /\ plain.cloud_permitted /\ plain.capabilities = {} /\ plain.model = model
        /\ plain.tokens = 0 /\ plain.prefers = "none"
    BY DEF Plain
  <2> HIDE DEF plain
  <2>5. ASSUME NEW s \in Shown
        PROVE  Fitting(s, plain) = {n \in s.models : n.id = model}
    <3>1. \A n \in s.models : n.context_tokens \in Int
      BY <2>1 DEF Field, Comparable, ModelInfo
    <3> QED BY <2>3, <2>4, <3>1 DEF Fitting, Asked
  <2>6. ASSUME NEW s \in Shown
        PROVE  s \in able <=> s \in Current /\ \E n \in s.models : n.id = model
    <3>1. (~ \E a \in {0} : 1 - s.taken_at > a) <=> s.taken_at = 1
      BY <2>1
    <3>2. s \in able <=> s.taken_at = 1 /\ s.healthy /\ Fitting(s, plain) # {}
      BY <2>4, <3>1, EligibleFacts
    <3> QED BY <2>1, <2>5, <3>2 DEF Current
  <2>7. \A s \in Current : s \in Shown /\ (Warm(s, model) => s \in able)
    BY <2>6 DEF Current, Warm
  <2>8. able # {} <=> \E s \in Current : model \in Names(s.models)
    <3>1. \A s \in able : s \in Shown
      BY DEF Eligible
    <3> QED BY <2>6, <2>7, <3>1 DEF Names
  <2> HIDE DEF able
  <2>9. CASE able = {}
    <3>1. placed = NoPlacement
      BY <2>1, <2>9, PlacedOrNobodyCan DEF able, PlacedOn
    <3> QED
      BY <2>7, <2>8, <2>9, <3>1 DEF placed, plain
  <2>10. CASE able # {}
    <3>1. PICK best \in Shown : /\ Best(best, Shown, plain, 1, {0})
                                /\ placed = [provider |-> best.id, model |-> ModelOn(best, plain).id]
                                /\ placed # NoPlacement
      BY <2>1, <2>10, PlacedOrNobodyCan DEF able, PlacedOn
    <3>2. taker = best
      BY <2>1, <3>1
    <3> HIDE DEF placed, taker
    <3>3. ASSUME NEW s \in able
          PROVE  /\ Comparable(s) /\ s \in Shown
                 /\ ModelOn(s, plain).loaded \in BOOLEAN
                 /\ ModelOn(s, plain).loaded = TRUE <=> Warm(s, model)
      <4>1. s \in Shown /\ Comparable(s)
        BY <2>1 DEF able, Eligible, Field
      <4>2. Fitting(s, plain) = {n \in s.models : n.id = model} /\ Fitting(s, plain) # {}
        BY <2>5, <2>6, <4>1
      <4>3. /\ ModelOn(s, plain) \in Fitting(s, plain) /\ ModelOn(s, plain) \in ModelInfo
            /\ \A n \in Fitting(s, plain) : n.loaded => ModelOn(s, plain).loaded
        BY <4>1, <4>2, ModelTaken
      <4>4. ModelOn(s, plain).loaded \in BOOLEAN
        BY <4>3 DEF ModelInfo
      <4>5. ASSUME ModelOn(s, plain).loaded = TRUE
            PROVE  Warm(s, model)
        BY <4>2, <4>3, <4>5 DEF Warm
      <4>6. ASSUME Warm(s, model)
            PROVE  ModelOn(s, plain).loaded = TRUE
        BY <4>2, <4>3, <4>4, <4>6 DEF Warm
      <4> QED BY <4>1, <4>4, <4>5, <4>6
    <3>4. best \in able /\ \A t \in able \ {best} : Less(Rank(best, plain), Rank(t, plain))
      BY <3>1 DEF Best, able
    <3>5. ASSUME ~ Warm(best, model), NEW s \in able, Warm(s, model)
          PROVE  best.placement_class = "local" /\ s.placement_class = "cloud"
      <4>1. s # best /\ s \in Shown
        BY <3>3, <3>5
      <4>2. /\ Rank(best, plain) \in [1..6 -> Int] /\ Rank(s, plain) \in [1..6 -> Int]
            /\ Rank(best, plain)[1] = Key(best.placement_class # "local")
            /\ Rank(s, plain)[1] = Key(s.placement_class # "local")
            /\ Rank(best, plain)[2] = Key(~ ModelOn(best, plain).loaded)
            /\ Rank(s, plain)[2] = Key(~ ModelOn(s, plain).loaded)
        <5>1. Comparable(best) /\ Comparable(s) /\ plain.prefers \notin {"quality", "latency"}
          BY <2>4, <3>3, <3>4
        <5> QED BY <5>1, Ranks
      <4>3. /\ Rank(best, plain)[1] <= Rank(s, plain)[1]
            /\ Rank(best, plain)[1] = Rank(s, plain)[1] => Rank(best, plain)[2] <= Rank(s, plain)[2]
        BY <3>4, <4>1, <4>2, FirstNumbers
      <4>4. ModelOn(best, plain).loaded = FALSE /\ ModelOn(s, plain).loaded = TRUE
        BY <3>3, <3>4, <3>5
      <4>5. Rank(best, plain)[2] = 1 /\ Rank(s, plain)[2] = 0
        BY <4>2, <4>4 DEF Key
      <4>6. Rank(best, plain)[1] # Rank(s, plain)[1]
        BY <4>3, <4>5
      <4>7. best.placement_class = "local" /\ s.placement_class # "local"
        BY <4>2, <4>3, <4>6 DEF Key
      <4> QED BY <2>1, <4>1, <4>7
    <3>6. ASSUME NEW s \in Current, Warm(s, model)
          PROVE  \/ Warm(taker, model)
                 \/ taker.placement_class = "local" /\ s.placement_class = "cloud"
      BY <2>7, <3>2, <3>5, <3>6
    <3>7. placed # NoPlacement <=> \E s \in Current : model \in Names(s.models)
      BY <2>8, <2>10, <3>1
    <3> QED
      BY <3>6, <3>7 DEF placed, taker, plain
  <2> QED BY <2>9, <2>10
<1> QED
  BY <1>1, PageInvariance, PTL
=============================================================================
