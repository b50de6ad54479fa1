-------------------------- MODULE PlacementProofs --------------------------
(***************************************************************************)
(* Theorems about placement (Placement.tla), for any set of snapshots and  *)
(* any request: the two sort keys order what they sort completely, so that *)
(* a first model and a first provider exist whenever there is one that     *)
(* fits, and are the only ones.                                            *)
(***************************************************************************)
EXTENDS Placement, FiniteSetTheorems, SequenceTheorems, TLAPS

(* What a snapshot of a provider holds: numbers where the keys compare, and *)
(* finitely many models.                                                    *)
Comparable(snap) ==
    /\ snap.id \in Int /\ snap.active_runs \in Int /\ snap.max_concurrency \in Int
    /\ snap.quality \in Int /\ snap.tps \in Int
    /\ IsFiniteSet(snap.models) /\ snap.models \subseteq ModelInfo

(* A set that placement ranks: finitely many snapshots, of distinct         *)
(* providers.                                                               *)
Field(snaps) ==
    /\ IsFiniteSet(snaps)
    /\ \A s \in snaps : Comparable(s)
    /\ \A s, t \in snaps : s.id = t.id => s = t

(* A non-empty set of numbers has a least element. *)
LEMMA LeastNumber ==
    ASSUME NEW T \in SUBSET Nat, T # {}
    PROVE  \E x \in T : \A y \in T : x <= y
<1> DEFINE R == OpToRel(<, Nat)
<1>1. IsWellFoundedOn(R, Nat)
  BY NatLessThanWellFounded
<1>2. R = {ss \in Nat \X Nat : ss[1] < ss[2]}
  BY DEF OpToRel
<1> HIDE DEF R
<1>3. PICK x \in T : \A y \in T : ~ (<<y, x>> \in R)
  BY <1>1, WFMin
<1>4. ASSUME NEW y \in T
      PROVE  x <= y
  <2>1. x \in Nat /\ y \in Nat
    OBVIOUS
  <2>2. ~ (y < x)
    BY <1>2, <1>3, <2>1
  <2> QED
    BY <2>1, <2>2
<1> QED
  BY <1>4

(* A finite set under a strict total order has a first element: the one     *)
(* with the fewest before it.                                               *)
LEMMA FirstOfFinite ==
    ASSUME NEW S, IsFiniteSet(S), S # {}, NEW R,
           \A x \in S : <<x, x>> \notin R,
           \A x, y, z \in S : <<x, y>> \in R /\ <<y, z>> \in R => <<x, z>> \in R,
           \A x, y \in S : x # y => <<x, y>> \in R \/ <<y, x>> \in R
    PROVE  \E x \in S : \A y \in S \ {x} : <<x, y>> \in R
<1> DEFINE before(x) == {y \in S : <<y, x>> \in R}
           sizes     == {Cardinality(before(x)) : x \in S}
<1>1. \A x \in S : IsFiniteSet(before(x)) /\ Cardinality(before(x)) \in Nat
  BY FS_Subset, FS_CardinalityType
<1>2. sizes \in SUBSET Nat /\ sizes # {}
  <2> HIDE DEF before
  <2> QED BY <1>1
<1>3. PICK x \in S : \A y \in S : Cardinality(before(x)) <= Cardinality(before(y))
  <2>1. PICK size \in sizes : \A other \in sizes : size <= other
    <3> HIDE DEF sizes
    <3> QED BY <1>2, LeastNumber
  <2> HIDE DEF before
  <2> QED BY <2>1
<1>4. ASSUME NEW y \in S, <<y, x>> \in R
      PROVE  FALSE
  <2>1. before(y) \in SUBSET before(x)
    BY <1>4
  <2>2. y \in before(x) /\ y \notin before(y)
    BY <1>4
  <2>3. Cardinality(before(y)) <= Cardinality(before(x))
        /\ (Cardinality(before(x)) = Cardinality(before(y)) => before(x) = before(y))
    BY <1>1, <2>1, FS_Subset
  <2>4. Cardinality(before(x)) = Cardinality(before(y))
    <3> HIDE DEF before
    <3> QED BY <1>1, <1>3, <2>3
  <2> QED
    BY <2>2, <2>3, <2>4
<1> QED
  BY <1>4

---------------------------------------------------------------------------
(* The order of the tuples of n numbers is strict and total. *)
LEMMA TuplesOrdered ==
    ASSUME NEW n \in Nat,
           NEW a \in [1..n -> Int], NEW b \in [1..n -> Int], NEW c \in [1..n -> Int]
    PROVE  /\ ~ Less(a, a)
           /\ Less(a, b) => ~ Less(b, a)
           /\ Less(a, b) /\ Less(b, c) => Less(a, c)
           /\ a # b => Less(a, b) \/ Less(b, a)
<1>1. ~ Less(a, a)
  BY DEF Less
<1>2. ASSUME Less(a, b), Less(b, c)
      PROVE  Less(a, c)
  <2>1. PICK i \in 1..n : a[i] < b[i] /\ \A j \in 1..(i - 1) : a[j] = b[j]
    BY <1>2 DEF Less
  <2>2. PICK k \in 1..n : b[k] < c[k] /\ \A j \in 1..(k - 1) : b[j] = c[j]
    BY <1>2 DEF Less
  <2>3. CASE i < k
    <3>1. b[i] = c[i] /\ \A j \in 1..(i - 1) : a[j] = c[j]
      BY <2>1, <2>2, <2>3
    <3>2. a[i] < c[i]
      BY <2>1, <3>1
    <3> QED BY <3>1, <3>2 DEF Less
  <2>4. CASE k < i
    <3>1. a[k] = b[k] /\ \A j \in 1..(k - 1) : a[j] = c[j]
      BY <2>1, <2>2, <2>4
    <3>2. a[k] < c[k]
      BY <2>2, <3>1
    <3> QED BY <3>1, <3>2 DEF Less
  <2>5. CASE i = k
    <3>1. a[i] < c[i]
      BY <2>1, <2>2, <2>5
    <3>2. \A j \in 1..(i - 1) : a[j] = c[j]
      BY <2>1, <2>2, <2>5
    <3> QED BY <3>1, <3>2 DEF Less
  <2> QED
    BY <2>3, <2>4, <2>5
<1>3. ASSUME Less(a, b), Less(b, a)
      PROVE  FALSE
  <2>1. PICK i \in 1..n : a[i] < b[i] /\ \A j \in 1..(i - 1) : a[j] = b[j]
    BY <1>3 DEF Less
  <2>2. PICK k \in 1..n : b[k] < a[k] /\ \A j \in 1..(k - 1) : b[j] = a[j]
    BY <1>3 DEF Less
  <2>3. i < k \/ k < i \/ i = k
    OBVIOUS
  <2>4. CASE i < k
    BY <2>1, <2>2, <2>4
  <2>5. CASE k < i
    BY <2>1, <2>2, <2>5
  <2>6. CASE i = k
    BY <2>1, <2>2, <2>6
  <2> QED
    BY <2>3, <2>4, <2>5, <2>6
<1>4. ASSUME a # b
      PROVE  Less(a, b) \/ Less(b, a)
  <2> DEFINE differ == {i \in 1..n : a[i] # b[i]}
  <2>1. differ # {} /\ differ \in SUBSET Nat
    <3>1. a = [i \in 1..n |-> a[i]] /\ b = [i \in 1..n |-> b[i]]
      OBVIOUS
    <3>2. ASSUME \A i \in 1..n : a[i] = b[i]
          PROVE  FALSE
      <4>1. [i \in 1..n |-> a[i]] = [i \in 1..n |-> b[i]]
        BY <3>2
      <4> QED BY <1>4, <3>1, <4>1
    <3>3. PICK i \in 1..n : a[i] # b[i]
      BY <3>2
    <3>4. i \in differ
      BY <3>3
    <3>5. differ \in SUBSET Nat
      OBVIOUS
    <3> QED BY <3>4, <3>5
  <2>2. PICK i \in differ : \A j \in differ : i <= j
    <3> HIDE DEF differ
    <3> QED BY <2>1, LeastNumber
  <2>3. \A j \in 1..(i - 1) : a[j] = b[j]
    BY <2>2
  <2>4. a[i] < b[i] \/ b[i] < a[i]
    BY <2>2
  <2>5. \A j \in 1..(i - 1) : b[j] = a[j]
    BY <2>3
  <2> QED
    BY <2>3, <2>4, <2>5 DEF Less
<1> QED
  BY <1>1, <1>2, <1>3, <1>4

LEMMA KeyIsNumber == ASSUME NEW b PROVE Key(b) \in {0, 1} /\ (b = TRUE => Key(b) = 1) /\ (b = FALSE => Key(b) = 0)
BY DEF Key

(* The key of a model: a triple of numbers, which tells any two apart. *)
LEMMA ModelKeys ==
    ASSUME NEW m \in ModelInfo, NEW n \in ModelInfo
    PROVE  /\ ModelKey(m) \in [1..3 -> Int]
           /\ ModelKey(m) = ModelKey(n) => m = n
           /\ Less(ModelKey(m), ModelKey(n)) /\ n.loaded => m.loaded
<1>1. /\ m = [id |-> m.id, context_tokens |-> m.context_tokens, loaded |-> m.loaded]
      /\ n = [id |-> n.id, context_tokens |-> n.context_tokens, loaded |-> n.loaded]
      /\ m.id \in Int /\ m.context_tokens \in Int /\ m.loaded \in BOOLEAN
      /\ n.id \in Int /\ n.context_tokens \in Int /\ n.loaded \in BOOLEAN
  BY DEF ModelInfo
<1>2. /\ ModelKey(m) \in [1..3 -> Int]
      /\ ModelKey(m)[1] = Key(~ m.loaded) /\ ModelKey(m)[2] = - m.context_tokens
      /\ ModelKey(m)[3] = m.id
      /\ ModelKey(n) \in [1..3 -> Int]
      /\ ModelKey(n)[1] = Key(~ n.loaded) /\ ModelKey(n)[2] = - n.context_tokens
      /\ ModelKey(n)[3] = n.id
  BY <1>1 DEF ModelKey, Key
<1>3. ASSUME ModelKey(m) = ModelKey(n)
      PROVE  m = n
  <2>1. m.id = n.id
    BY <1>2, <1>3
  <2>2. m.context_tokens = n.context_tokens
    BY <1>1, <1>2, <1>3
  <2>3. m.loaded = n.loaded
    BY <1>1, <1>2, <1>3 DEF Key
  <2> QED
    BY <1>1, <2>1, <2>2, <2>3
<1>4. ASSUME Less(ModelKey(m), ModelKey(n)), n.loaded
      PROVE  m.loaded
  <2>1. PICK i \in 1..3 : /\ ModelKey(m)[i] < ModelKey(n)[i]
                          /\ \A j \in 1..(i - 1) : ModelKey(m)[j] = ModelKey(n)[j]
    BY <1>2, <1>4 DEF Less
  <2>2. ModelKey(m)[1] <= ModelKey(n)[1]
    <3>1. CASE i = 1
      BY <1>2, <2>1, <3>1
    <3>2. CASE i # 1
      <4>1. 1 \in 1..(i - 1)
        BY <3>2
      <4> QED
        BY <1>2, <2>1, <4>1
    <3> QED BY <3>1, <3>2
  <2> QED
    BY <1>1, <1>2, <1>4, <2>2 DEF Key
<1> QED
  BY <1>2, <1>3, <1>4

---------------------------------------------------------------------------
(* Any set of things with keys that are tuples of n numbers, distinct for   *)
(* distinct things, has a first.                                            *)
LEMMA FirstByKey ==
    ASSUME NEW S, IsFiniteSet(S), S # {}, NEW n \in Nat, NEW key \in [S -> [1..n -> Int]],
           \A x, y \in S : key[x] = key[y] => x = y
    PROVE  \E x \in S : \A y \in S \ {x} : Less(key[x], key[y])
<1> DEFINE R == {p \in S \X S : Less(key[p[1]], key[p[2]])}
<1>1. \A x, y \in S : <<x, y>> \in R <=> Less(key[x], key[y])
  OBVIOUS
<1> HIDE DEF R
<1>2. \A x \in S : key[x] \in [1..n -> Int]
  OBVIOUS
<1>3. \A x \in S : <<x, x>> \notin R
  BY <1>1, <1>2, TuplesOrdered
<1>4. ASSUME NEW x \in S, NEW y \in S, NEW z \in S
      PROVE  /\ <<x, y>> \in R /\ <<y, z>> \in R => <<x, z>> \in R
             /\ x # y => <<x, y>> \in R \/ <<y, x>> \in R
  <2>1. /\ key[x] \in [1..n -> Int] /\ key[y] \in [1..n -> Int] /\ key[z] \in [1..n -> Int]
        /\ x # y => key[x] # key[y]
    BY <1>2
  <2>2. /\ Less(key[x], key[y]) /\ Less(key[y], key[z]) => Less(key[x], key[z])
        /\ key[x] # key[y] => Less(key[x], key[y]) \/ Less(key[y], key[x])
    <3>1. \A a, b, c \in [1..n -> Int] :
            /\ Less(a, b) /\ Less(b, c) => Less(a, c)
            /\ a # b => Less(a, b) \/ Less(b, a)
      BY TuplesOrdered
    <3> QED BY <2>1, <3>1
  <2> QED
    BY <1>1, <2>1, <2>2
<1>6. PICK x \in S : \A y \in S \ {x} : <<x, y>> \in R
  BY <1>3, <1>4, FirstOfFinite
<1> QED
  BY <1>1, <1>6

(* The model taken on a provider is the first of those that fit, and no     *)
(* model that fits is loaded unless it is.                                  *)
LEMMA ModelTaken ==
    ASSUME NEW snap, NEW req, Comparable(snap), Fitting(snap, req) # {}
    PROVE  /\ ModelOn(snap, req) \in Fitting(snap, req)
           /\ ModelOn(snap, req) \in ModelInfo
           /\ \A m \in Fitting(snap, req) : m.loaded => ModelOn(snap, req).loaded
<1> DEFINE fit == Fitting(snap, req)
           key == [m \in fit |-> ModelKey(m)]
<1>1. fit \subseteq snap.models
  BY DEF Fitting, Asked
<1>2. IsFiniteSet(fit) /\ fit \subseteq ModelInfo
  BY <1>1, FS_Subset DEF Comparable
<1> HIDE DEF fit
<1>3. key \in [fit -> [1..3 -> Int]]
  BY <1>2, ModelKeys
<1>4. \A m, n \in fit : key[m] = key[n] => m = n
  BY <1>2, ModelKeys
<1>5. PICK m \in fit : \A n \in fit \ {m} : Less(key[m], key[n])
  <2> HIDE DEF key
  <2> QED BY <1>2, <1>3, <1>4, FirstByKey DEF fit
<1>6. \A n \in fit \ {m} : Less(ModelKey(m), ModelKey(n))
  BY <1>5
<1>7. /\ ModelOn(snap, req) \in fit
      /\ \A n \in fit \ {ModelOn(snap, req)} : Less(ModelKey(ModelOn(snap, req)), ModelKey(n))
  BY <1>6 DEF ModelOn, fit
<1>8. ASSUME NEW n \in fit, n.loaded
      PROVE  ModelOn(snap, req).loaded
  BY <1>2, <1>7, <1>8, ModelKeys
<1> QED
  BY <1>2, <1>7, <1>8 DEF fit

(* The stages at which a provider fails, one by one. *)
LEMMA FailureFacts ==
    ASSUME NEW s, NEW req, NEW now, NEW max_age
    PROVE  LET failed == Failures(s, req, now, max_age)
           IN /\ failed \subseteq {1, 2, 3, 4, 5, 6}
              /\ 1 \in failed <=> s.placement_class = "cloud" /\ ~ req.cloud_permitted
              /\ 2 \in failed <=> \E a \in max_age : now - s.taken_at > a
              /\ 3 \in failed <=> ~ s.healthy
              /\ 4 \in failed <=> ~ (req.capabilities \subseteq s.capabilities)
              /\ 5 \in failed <=> req.model # AnyModel /\ Asked(s, req) = {}
              /\ 6 \in failed <=> Fitting(s, req) = {}
<1>1. /\ Stages[1] = "privacy" /\ Stages[2] = "stale" /\ Stages[3] = "health"
      /\ Stages[4] = "capability" /\ Stages[5] = "model" /\ Stages[6] = "context"
  BY DEF Stages
<1>2. s \notin Candidates({s}, req) <=> s.placement_class = "cloud" /\ ~ req.cloud_permitted
  BY DEF Candidates
<1> DEFINE failed == Failures(s, req, now, max_age)
<1>3. /\ 1 \in failed <=> s \notin Candidates({s}, req)
      /\ 2 \in failed <=> \E a \in max_age : now - s.taken_at > a
      /\ 3 \in failed <=> ~ s.healthy
  BY <1>1 DEF Failures
<1>4. /\ 4 \in failed <=> ~ (req.capabilities \subseteq s.capabilities)
      /\ 5 \in failed <=> req.model # AnyModel /\ Asked(s, req) = {}
      /\ 6 \in failed <=> Fitting(s, req) = {}
  BY <1>1 DEF Failures
<1>5. failed \subseteq {1, 2, 3, 4, 5, 6}
  BY DEF Failures
<1> QED
  BY <1>2, <1>3, <1>4, <1>5

(* What can be placed passed every stage. *)
LEMMA EligibleFacts ==
    ASSUME NEW snaps, NEW req, NEW now, NEW max_age, NEW s \in snaps
    PROVE  s \in Eligible(snaps, req, now, max_age) <=>
             /\ s.placement_class = "cloud" => req.cloud_permitted
             /\ ~ \E a \in max_age : now - s.taken_at > a
             /\ s.healthy
             /\ req.capabilities \subseteq s.capabilities
             /\ Fitting(s, req) # {}
<1> DEFINE failed == Failures(s, req, now, max_age)
<1>1. s \in Eligible(snaps, req, now, max_age) <=> failed = {}
  BY DEF Eligible
<1>2. Asked(s, req) = {} => Fitting(s, req) = {}
  BY DEF Fitting
<1>3. /\ failed \subseteq {1, 2, 3, 4, 5, 6}
      /\ 1 \in failed <=> s.placement_class = "cloud" /\ ~ req.cloud_permitted
      /\ 2 \in failed <=> \E a \in max_age : now - s.taken_at > a
      /\ 3 \in failed <=> ~ s.healthy
      /\ 4 \in failed <=> ~ (req.capabilities \subseteq s.capabilities)
      /\ 5 \in failed <=> req.model # AnyModel /\ Asked(s, req) = {}
      /\ 6 \in failed <=> Fitting(s, req) = {}
  BY FailureFacts
<1> HIDE DEF failed
<1> QED
  BY <1>1, <1>2, <1>3

(* A provider is rejected at the first stage that it fails at. *)
LEMMA StageIsFirst ==
    ASSUME NEW snap, NEW req, NEW now, NEW max_age,
           NEW i \in Failures(snap, req, now, max_age),
           \A j \in Failures(snap, req, now, max_age) : i <= j
    PROVE  Stage(Failures(snap, req, now, max_age)) = Stages[i]
<1> DEFINE failed == Failures(snap, req, now, max_age)
<1>1. failed \subseteq 1..6
  BY DEF Failures
<1>2. i \in failed /\ \A j \in failed : i <= j
  OBVIOUS
<1> HIDE DEF failed
<1>3. \A k \in failed : (\A j \in failed : k <= j) => k = i
  BY <1>1, <1>2
<1>4. (CHOOSE k \in failed : \A j \in failed : k <= j) = i
  BY <1>2, <1>3
<1> QED
  BY <1>4 DEF Stage, failed

(* One that fails anywhere fails at a first stage. *)
LEMMA StageExists ==
    ASSUME NEW snap, NEW req, NEW now, NEW max_age, Failures(snap, req, now, max_age) # {}
    PROVE  \E i \in Failures(snap, req, now, max_age) :
              /\ \A j \in Failures(snap, req, now, max_age) : i <= j
              /\ Stage(Failures(snap, req, now, max_age)) = Stages[i]
<1> DEFINE failed == Failures(snap, req, now, max_age)
<1>1. failed \in SUBSET Nat /\ failed # {}
  BY DEF Failures
<1> HIDE DEF failed
<1>2. PICK i \in failed : \A j \in failed : i <= j
  BY <1>1, LeastNumber
<1> QED
  BY <1>2, StageIsFirst DEF failed

---------------------------------------------------------------------------
(* A sequence with one more. *)
LEMMA AppendOne ==
    ASSUME NEW S, NEW s \in Seq(S), NEW e \in S
    PROVE  /\ Append(s, e) \in Seq(S) /\ Len(Append(s, e)) = Len(s) + 1
           /\ \A i \in 1..Len(s) : Append(s, e)[i] = s[i]
           /\ Append(s, e)[Len(s) + 1] = e
OBVIOUS

(* Five numbers and a sixth. *)
LEMMA SixNumbers ==
    ASSUME NEW s \in Seq(Int), Len(s) = 5, NEW f \in Int
    PROVE  /\ Append(s, f) \in [1..6 -> Int]
           /\ \A i \in 1..5 : Append(s, f)[i] = s[i]
           /\ Append(s, f)[6] = f
<1> DEFINE t == Append(s, f)
<1>1. /\ Append(s, f) \in Seq(Int) /\ Len(Append(s, f)) = Len(s) + 1
      /\ \A i \in 1..Len(s) : Append(s, f)[i] = s[i]
      /\ Append(s, f)[Len(s) + 1] = f
  BY AppendOne
<1>2. /\ t \in Seq(Int) /\ Len(t) = Len(s) + 1
      /\ \A i \in 1..Len(s) : t[i] = s[i]
      /\ t[Len(s) + 1] = f
  BY <1>1
<1> HIDE DEF t
<1>3. Len(t) = 6 /\ t[6] = f /\ \A i \in 1..5 : t[i] = s[i]
  BY <1>2
<1>4. t \in [1..6 -> Int]
  BY <1>2, <1>3, LenProperties
<1> QED
  BY <1>3, <1>4 DEF t

(* The rank of a provider: a tuple of six numbers, ending in its id. *)
LEMMA Ranks ==
    ASSUME NEW snap, NEW req, Comparable(snap)
    PROVE  /\ Rank(snap, req) \in [1..6 -> Int]
           /\ Rank(snap, req)[1] = Key(snap.placement_class # "local")
           /\ Rank(snap, req)[6] = snap.id
           /\ req.prefers = "quality" => Rank(snap, req)[2] = - snap.quality
           /\ req.prefers = "latency" => Rank(snap, req)[2] = - snap.tps
           /\ req.prefers \notin {"quality", "latency"} =>
                /\ Rank(snap, req)[2] = Key(~ ModelOn(snap, req).loaded)
                /\ Rank(snap, req)[3] = QueueSeconds(snap)
<1> DEFINE away == Key(snap.placement_class # "local")
           cold == Key(~ ModelOn(snap, req).loaded)
           wait == QueueSeconds(snap)
           pref == Preference(snap, req)
<1>1. away \in Int /\ cold \in Int /\ wait \in Int
  <2>1. snap.active_runs - snap.max_concurrency + 1 \in Int
    BY DEF Comparable
  <2>2. wait \in Int
    BY <2>1 DEF QueueSeconds, QUEUE_SECONDS_PER_BACKLOGGED_RUN
  <2> QED BY <2>2 DEF Key
<1>2. - snap.quality \in Int /\ - snap.tps \in Int /\ snap.id \in Int
  BY DEF Comparable
<1>3. pref = CASE req.prefers = "quality" -> <<away, - snap.quality, - snap.tps, cold, wait>>
               [] req.prefers = "latency" -> <<away, - snap.tps, wait, cold, wait>>
               [] OTHER                   -> <<away, cold, wait, cold, wait>>
  BY Zenon DEF Preference
<1> HIDE DEF away, cold, wait, pref
<1>4. ASSUME pref \in Seq(Int), Len(pref) = 5
      PROVE  /\ Rank(snap, req) \in [1..6 -> Int]
             /\ Rank(snap, req)[1] = pref[1] /\ Rank(snap, req)[2] = pref[2]
             /\ Rank(snap, req)[3] = pref[3] /\ Rank(snap, req)[6] = snap.id
  <2> DEFINE six == Append(pref, snap.id)
  <2>1. Rank(snap, req) = six
    BY DEF Rank, pref
  <2>2. /\ six \in [1..6 -> Int]
        /\ \A i \in 1..5 : six[i] = pref[i]
        /\ six[6] = snap.id
    BY <1>2, <1>4, SixNumbers
  <2> HIDE DEF six
  <2>3. six[1] = pref[1] /\ six[2] = pref[2] /\ six[3] = pref[3]
    BY <2>2
  <2> QED
    BY <2>1, <2>2, <2>3, Zenon
<1>5. CASE req.prefers = "quality"
  <2>1. pref = <<away, - snap.quality, - snap.tps, cold, wait>>
    BY <1>3, <1>5
  <2>2. /\ pref \in Seq(Int) /\ Len(pref) = 5
        /\ pref[1] = away /\ pref[2] = - snap.quality /\ pref[3] = - snap.tps
    BY <1>1, <1>2, <2>1
  <2> QED
    BY <1>5, <1>4, <2>2 DEF away
<1>6. CASE req.prefers = "latency"
  <2>1. pref = <<away, - snap.tps, wait, cold, wait>>
    BY <1>3, <1>6
  <2>2. /\ pref \in Seq(Int) /\ Len(pref) = 5
        /\ pref[1] = away /\ pref[2] = - snap.tps /\ pref[3] = wait
    BY <1>1, <1>2, <2>1
  <2> QED
    BY <1>6, <1>4, <2>2 DEF away
<1>7. CASE req.prefers \notin {"quality", "latency"}
  <2>1. pref = <<away, cold, wait, cold, wait>>
    BY <1>3, <1>7
  <2>2. /\ pref \in Seq(Int) /\ Len(pref) = 5
        /\ pref[1] = away /\ pref[2] = cold /\ pref[3] = wait
    BY <1>1, <1>2, <2>1
  <2> QED
    BY <1>7, <1>4, <2>2 DEF away, cold, wait
<1> QED
  BY <1>5, <1>6, <1>7

(* Two ranks in order agree on their first number, or are in order there;   *)
(* and so on at the second and the third.                                   *)
LEMMA FirstNumbers ==
    ASSUME NEW a \in [1..6 -> Int], NEW b \in [1..6 -> Int], Less(a, b)
    PROVE  /\ a[1] <= b[1]
           /\ a[1] = b[1] => a[2] <= b[2]
           /\ a[1] = b[1] /\ a[2] = b[2] => a[3] <= b[3]
<1>1. PICK i \in 1..6 : a[i] < b[i] /\ \A j \in 1..(i - 1) : a[j] = b[j]
  BY DEF Less
<1>2. CASE i = 1
  BY <1>1, <1>2
<1>3. CASE i = 2
  <2>1. a[1] = b[1]
    BY <1>1, <1>3
  <2> QED BY <1>1, <1>3, <2>1
<1>4. CASE i = 3
  <2>1. a[1] = b[1] /\ a[2] = b[2]
    BY <1>1, <1>4
  <2> QED BY <1>1, <1>4, <2>1
<1>5. CASE i \in 4..6
  <2>1. 1 \in 1..(i - 1) /\ 2 \in 1..(i - 1) /\ 3 \in 1..(i - 1)
    BY <1>5
  <2>2. a[1] = b[1] /\ a[2] = b[2] /\ a[3] = b[3]
    BY <1>1, <2>1
  <2> QED BY <2>2
<1> QED
  BY <1>2, <1>3, <1>4, <1>5

(* Among the providers that can take a call, if there are any, one is the   *)
(* best: no tie is left open.                                               *)
THEOREM BestExists ==
    ASSUME NEW snaps, NEW req, NEW now, NEW max_age, Field(snaps),
           Eligible(snaps, req, now, max_age) # {}
    PROVE  \E s \in snaps : Best(s, snaps, req, now, max_age)
<1> DEFINE able == Eligible(snaps, req, now, max_age)
           key  == [s \in able |-> Rank(s, req)]
<1>1. able \subseteq snaps
  BY DEF Eligible
<1>2. IsFiniteSet(able) /\ able # {}
  BY <1>1, FS_Subset DEF Field
<1>3. \A s \in able : Comparable(s)
  BY <1>1 DEF Field
<1>4. \A s, t \in able : s.id = t.id => s = t
  BY <1>1 DEF Field
<1> HIDE DEF able
<1>5. \A s \in able : Rank(s, req) \in [1..6 -> Int] /\ Rank(s, req)[6] = s.id
  BY <1>3, Ranks
<1>6. key \in [able -> [1..6 -> Int]]
  BY <1>5
<1>7. \A s, t \in able : key[s] = key[t] => s = t
  BY <1>4, <1>5
<1>8. PICK s \in able : \A t \in able \ {s} : Less(key[s], key[t])
  <2> HIDE DEF key
  <2> QED BY <1>2, <1>6, <1>7, FirstByKey
<1>9. s \in snaps /\ Best(s, snaps, req, now, max_age)
  <2>1. \A t \in able \ {s} : Less(Rank(s, req), Rank(t, req))
    BY <1>8
  <2> QED
    BY <1>1, <2>1 DEF Best, able
<1> QED
  BY <1>9

(* It is the only one, and the call is placed on it. *)
THEOREM PlacementIsTheBest ==
    ASSUME NEW snaps, NEW req, NEW now, NEW max_age, Field(snaps),
           NEW s \in snaps, Best(s, snaps, req, now, max_age)
    PROVE  /\ \A t \in snaps : Best(t, snaps, req, now, max_age) => t = s
           /\ Select(snaps, req, now, max_age)
                = [provider |-> s.id, model |-> ModelOn(s, req).id]
<1>1. ASSUME NEW t \in snaps, Best(t, snaps, req, now, max_age)
      PROVE  t = s
  <2>1. SUFFICES ASSUME t # s
                 PROVE  FALSE
    OBVIOUS
  <2>2. Less(Rank(s, req), Rank(t, req)) /\ Less(Rank(t, req), Rank(s, req))
    BY <1>1, <2>1 DEF Best
  <2>3. Rank(s, req) \in [1..6 -> Int] /\ Rank(t, req) \in [1..6 -> Int]
    BY Ranks DEF Field
  <2> QED
    BY <2>2, <2>3, TuplesOrdered
<1>2. (CHOOSE t \in snaps : Best(t, snaps, req, now, max_age)) = s
  BY <1>1
<1>3. \E t \in snaps : Best(t, snaps, req, now, max_age)
  OBVIOUS
<1> QED
  BY <1>1, <1>2, <1>3 DEF Select

(* Placement depends on its snapshots only through those that can take the  *)
(* call: from two sets with the same of these, it is the same.              *)
THEOREM SameEligibleSamePlacement ==
    ASSUME NEW snaps, NEW others, NEW req, NEW now, NEW max_age, Field(snaps),
           Eligible(others, req, now, max_age) = Eligible(snaps, req, now, max_age)
    PROVE  Select(others, req, now, max_age) = Select(snaps, req, now, max_age)
<1>1. \A s : Best(s, others, req, now, max_age) <=> Best(s, snaps, req, now, max_age)
  BY Zenon DEF Best
<1>2. \A s : Best(s, snaps, req, now, max_age) => s \in snaps /\ s \in others
  BY DEF Best, Eligible
<1>3. CASE \E s \in snaps : Best(s, snaps, req, now, max_age)
  <2>1. PICK s \in snaps : Best(s, snaps, req, now, max_age)
    BY <1>3
  <2>2. \A t \in others : Best(t, others, req, now, max_age) <=> t = s
    BY <1>1, <1>2, <2>1, PlacementIsTheBest
  <2>3. s \in others
    BY <1>2, <2>1
  <2>4. (CHOOSE t \in others : Best(t, others, req, now, max_age)) = s
    BY <2>2, <2>3
  <2>5. Select(others, req, now, max_age) = [provider |-> s.id, model |-> ModelOn(s, req).id]
    BY <2>2, <2>3, <2>4 DEF Select
  <2> QED
    BY <2>1, <2>5, PlacementIsTheBest
<1>4. CASE ~ \E s \in snaps : Best(s, snaps, req, now, max_age)
  BY <1>1, <1>2, <1>4 DEF Select
<1> QED
  BY <1>3, <1>4

(* A refusal is no placement, so it means that nobody can take the call;    *)
(* else the call goes to the best.                                          *)
THEOREM PlacedOrNobodyCan ==
    ASSUME NEW snaps, NEW req, NEW now, NEW max_age, Field(snaps)
    PROVE  IF Eligible(snaps, req, now, max_age) = {}
           THEN Select(snaps, req, now, max_age) = NoPlacement
           ELSE \E s \in snaps :
                  /\ Best(s, snaps, req, now, max_age)
                  /\ Select(snaps, req, now, max_age)
                       = [provider |-> s.id, model |-> ModelOn(s, req).id]
                  /\ Select(snaps, req, now, max_age) # NoPlacement
<1>1. CASE Eligible(snaps, req, now, max_age) = {}
  BY <1>1 DEF Select, Best
<1>2. CASE Eligible(snaps, req, now, max_age) # {}
  <2>1. PICK s \in snaps : Best(s, snaps, req, now, max_age)
    BY <1>2, BestExists
  <2>2. Select(snaps, req, now, max_age) = [provider |-> s.id, model |-> ModelOn(s, req).id]
    BY <2>1, PlacementIsTheBest
  <2>3. Comparable(s) /\ Fitting(s, req) # {}
    BY <2>1, EligibleFacts DEF Field, Best
  <2>4. ModelOn(s, req).id \in Int /\ s.id \in Int
    BY <2>3, ModelTaken DEF ModelInfo, Comparable
  <2>5. Select(snaps, req, now, max_age) \in [provider : Int, model : Int]
    BY <2>2, <2>4
  <2> QED
    BY <1>2, <2>1, <2>2, <2>5, PlacementAssumption
<1> QED
  BY <1>1, <1>2
=============================================================================
