------------------------ MODULE SharedJournalProofs ------------------------
(***************************************************************************)
(* Theorems about two processes over one journal (SharedJournal.tla), for  *)
(* any set of run ids and any history limit, whatever writes are refused.  *)
(*                                                                         *)
(* The argument: a run belongs to one process for ever, so its row has one *)
(* writer besides the reconciliations, and these only touch rows that have *)
(* no outcome.  What an overtaken connection reads was once true, and of   *)
(* an outcome it still is.                                                 *)
(***************************************************************************)
EXTENDS SharedJournal, FiniteSetTheorems, TLAPS

(* The state of either process. *)
Objects(p) == IF p = "A" THEN runA ELSE runB
Memory(p)  == IF p = "A" THEN memoryA ELSE memoryB
Served(p)  == IF p = "A" THEN heldA ELSE heldB
Owned(p)   == Memory(p) \cup Served(p)
Rest(p)    == <<Objects(p), Memory(p), Served(p)>>

Running(p, r) == Objects(p)[r].state = "running"

Types ==
    /\ \A p \in Processes :
         /\ Objects(p) \in [RunIds -> A!RunObject \cup {NoRun}]
         /\ Owned(p) \subseteq {r \in RunIds : Objects(p)[r] # NoRun}
         /\ past[p] \in [RunIds -> A!RowStates]
    /\ born \in [RunIds -> Nat]
    /\ journal \in [RunIds -> A!RowStates]
    /\ seen \in [RunIds -> A!RowStates]
    /\ conn \in [Processes -> {"clean", "begun", "pinned", "overtaken"}]
    /\ past = [p \in Processes |-> past[p]]

(* An id that was never drawn has left no trace. *)
FreshHasNoTrace ==
    \A r \in RunIds : born[r] = 0 =>
        /\ journal[r] = "absent" /\ seen[r] = "absent"
        /\ \A p \in Processes : r \notin Owned(p) /\ Objects(p)[r] = NoRun /\ past[p][r] = "absent"

(* A run belongs to one process. *)
OneOwner == \A r \in RunIds : ~ (Objects("A")[r] # NoRun /\ Objects("B")[r] # NoRun)

(* The row of a run that is running is behind it, and that of one that is   *)
(* not says how it ended, if its final write was not refused.               *)
RowsFollow ==
    \A p \in Processes, r \in RunIds : Objects(p)[r] # NoRun =>
        IF Running(p, r)
        THEN /\ r \in Memory(p)
             /\ journal[r] \notin Outcomes
             /\ r \in Served(p) => journal[r] # "absent"
        ELSE r \notin lost => journal[r] = Objects(p)[r].state

(* What was read of an outcome, by a client or a stale connection, is true. *)
ReadsAreTrue ==
    \A r \in RunIds :
        /\ r \notin lost /\ seen[r] \in Outcomes => journal[r] = seen[r]
        /\ \A p \in Processes : past[p][r] \in Outcomes => journal[r] = past[p][r]

IInv == Types /\ FreshHasNoTrace /\ OneOwner /\ RowsFollow /\ ReadsAreTrue

---------------------------------------------------------------------------
(* What the steps of a process do, in terms that do not name it. *)

Other(p) == IF p = "A" THEN "B" ELSE "A"

(* Every row stays, or moves forward. *)
Forward == \A r \in RunIds : journal'[r] # journal[r] => Rank(journal'[r]) > Rank(journal[r])

(* What a connection reads stays as it is, or is what the rows were. *)
PastMoves ==
    /\ past' = [p \in Processes |-> past'[p]]
    /\ \A p \in Processes : past'[p] \in {past[p], journal, Unread}
    /\ conn' \in [Processes -> {"clean", "begun", "pinned", "overtaken"}]

(* create, with its row or without. *)
Inserted(p, r) ==
    /\ born[r] = 0 /\ born' \in [RunIds -> Nat] /\ born'[r] # 0
    /\ \A x \in RunIds \ {r} : born'[x] = born[x]
    /\ \E o \in A!RunObject : o.state = "running" /\ Objects(p)' = [Objects(p) EXCEPT ![r] = o]
    /\ Memory(p)' \subseteq Memory(p) \cup {r} /\ r \in Memory(p)'
    /\ \A x \in RunIds : x \in Memory(p) \ Memory(p)' => ~ Running(p, x)
    /\ \/ journal' = [journal EXCEPT ![r] = "running"] /\ Served(p)' = Served(p) \cup {r}
       \/ journal' = journal /\ Served(p)' = Served(p)
    /\ UNCHANGED <<seen, lost, Rest(Other(p))>>

(* finish, with its row or without. *)
Settled(p, r) ==
    /\ r \in Served(p) /\ Running(p, r)
    /\ \E s \in Outcomes :
         /\ Objects(p)' = [Objects(p) EXCEPT ![r].state = s]
         /\ \/ journal' = [journal EXCEPT ![r] = s] /\ lost' \in {lost, lost \cup {r}}
            \/ journal' = journal /\ lost' = lost \cup {r}
    /\ UNCHANGED <<born, seen, Memory(p), Served(p), Rest(Other(p))>>

(* cancel. *)
Flagged(p, r) ==
    /\ Objects(p)[r] # NoRun
    /\ Objects(p)' = [Objects(p) EXCEPT ![r].cancel = TRUE]
    /\ UNCHANGED <<born, seen, journal, lost, Memory(p), Served(p), Rest(Other(p))>>

(* A handler abandons its run. *)
Dropped(p, r) ==
    /\ Served(p)' = Served(p) \ {r}
    /\ UNCHANGED <<born, seen, journal, lost, Objects(p), Memory(p), Rest(Other(p))>>

---------------------------------------------------------------------------
(* An object of a run is running or says how it ended. *)
LEMMA StateFacts ==
    /\ "running" \notin Outcomes /\ "absent" \notin Outcomes /\ "interrupted" \notin Outcomes
    /\ NoRun \notin A!RunObject
    /\ \A s \in Outcomes : Rank(s) = 3 /\ s \in A!TERMINAL_STATES
    /\ Rank("absent") = 0 /\ Rank("running") = 1 /\ Rank("interrupted") = 2
    /\ "running" \notin A!TERMINAL_STATES
    /\ A!RowStates = {"absent", "running", "interrupted"} \cup Outcomes
BY SharedAssumption DEF Rank, A!TERMINAL_STATES, A!RowStates

LEMMA ObjectFacts ==
    ASSUME Types, NEW p \in Processes, NEW r \in RunIds, Objects(p)[r] # NoRun
    PROVE  /\ Objects(p)[r] \in A!RunObject
           /\ Objects(p)[r].state \in {"running"} \cup Outcomes
           /\ Objects(p)[r].state \in A!TERMINAL_STATES <=> ~ Running(p, r)
<1>1. Objects(p)[r] \in A!RunObject
  BY DEF Types
<1>2. Objects(p)[r].state \in {"running"} \cup Outcomes
  BY <1>1 DEF A!RunObject
<1> QED BY <1>1, <1>2, StateFacts DEF Running
---------------------------------------------------------------------------
(* The process A, and the process B, do no more than that. *)

(* The instances bring the Cardinality of their own FiniteSets. *)
LEMMA SameCardinality ==
    ASSUME NEW S
    PROVE  A!Cardinality(S) = Cardinality(S) /\ B!Cardinality(S) = Cardinality(S)
BY DEF A!Cardinality, B!Cardinality, Cardinality, IsFiniteSet, A!IsFiniteSet, B!IsFiniteSet

LEMMA ConnectionMoves ==
    ASSUME IInv, NEW p \in Processes, Recorded(p)
    PROVE  PastMoves
<1>1. CASE Refused(p)
  BY <1>1 DEF Refused, PastMoves, IInv, Types
<1>2. CASE Committed(p)
  BY <1>2 DEF Committed, PastMoves, IInv, Types
<1> QED BY <1>1, <1>2 DEF Recorded

LEMMA InsertsA ==
    ASSUME IInv, NEW r \in RunIds, NEW p \in Providers, A!Create(r, p),
           UNCHANGED varsB, UNCHANGED lost
    PROVE  Inserted("A", r)
<1> DEFINE o == [provider |-> p, state |-> "running", cancel |-> FALSE]
<1>1. A!Insert(r, p) /\ born[r] = 0
  BY DEF A!Create, A!Records, A!NotRecorded, A!Insert, A!Fresh
<1>2. born' = [born EXCEPT ![r] = Cardinality(A!Created) + 1] /\ Cardinality(A!Created) \in Nat
  <2>1. IsFiniteSet(A!Created)
    BY SharedAssumption, FS_Subset DEF A!Created
  <2>2. Cardinality(A!Created) \in Nat
    BY <2>1, FS_CardinalityType
  <2> QED BY <1>1, <2>2, SameCardinality DEF A!Insert
<1>3. born' \in [RunIds -> Nat] /\ born'[r] # 0 /\ \A x \in RunIds \ {r} : born'[x] = born[x]
  BY <1>2 DEF IInv, Types
<1>4. o \in A!RunObject /\ o.state = "running" /\ Objects("A")' = [Objects("A") EXCEPT ![r] = o]
  BY <1>1 DEF A!Insert, Objects, A!RunObject
<1>5. Objects("B")' = Objects("B") /\ Memory("B")' = Memory("B") /\ Served("B")' = Served("B")
  BY DEF varsB, Objects, Memory, Served
<1>6. /\ Memory("A")' \subseteq Memory("A") \cup {r} /\ r \in Memory("A")'
      /\ \A x \in RunIds : x \in Memory("A") \ Memory("A")' => x \in A!Finished
  BY DEF A!Create, A!Records, A!NotRecorded, A!Excess, Memory
<1>7. \A x \in RunIds : x \in A!Finished => ~ Running("A", x)
  BY StateFacts DEF A!Finished, A!Terminal, A!TERMINAL_STATES, A!TERMINAL_STATES, Running, Objects
<1>8. \/ journal' = [journal EXCEPT ![r] = "running"] /\ Served("A")' = Served("A") \cup {r}
      \/ journal' = journal /\ Served("A")' = Served("A")
  BY DEF A!Create, A!Records, A!NotRecorded, HasJournal, Served
<1>9. seen' = seen
  BY <1>1 DEF A!Insert
<1>10. Other("A") = "B"
  BY DEF Other
<1> QED
  BY <1>1, <1>3, <1>4, <1>5, <1>6, <1>7, <1>8, <1>9, <1>10 DEF Inserted, Rest

LEMMA SettlesA ==
    ASSUME IInv, NEW r \in RunIds, NEW s \in Outcomes, A!Finish(r, s), UNCHANGED varsB,
           lost' = IF journal' = journal THEN lost \cup {r} ELSE lost
    PROVE  Settled("A", r)
<1>1. r \in Served("A") /\ Objects("A")[r] # NoRun
  BY DEF A!Finish, Served, Objects, IInv, Types, Owned, Processes
<1>2. Running("A", r)
  <2>1. Objects("A")[r].state \notin A!TERMINAL_STATES
    BY DEF A!Finish, A!Terminal, A!TERMINAL_STATES, A!TERMINAL_STATES, Objects
  <2> QED BY <2>1, <1>1, ObjectFacts DEF IInv, Processes
<1>3. Objects("A")' = [Objects("A") EXCEPT ![r].state = s]
  BY DEF A!Finish, Objects
<1>4. \/ journal' = [journal EXCEPT ![r] = s] /\ lost' \in {lost, lost \cup {r}}
      \/ journal' = journal /\ lost' = lost \cup {r}
  BY DEF A!Finish, HasJournal
<1>5. Objects("B")' = Objects("B") /\ Memory("B")' = Memory("B") /\ Served("B")' = Served("B")
  BY DEF varsB, Objects, Memory, Served
<1>6. born' = born /\ seen' = seen /\ Memory("A")' = Memory("A") /\ Served("A")' = Served("A")
  BY DEF A!Finish, Memory, Served
<1>7. Other("A") = "B"
  BY DEF Other
<1> QED
  BY <1>1, <1>2, <1>3, <1>4, <1>5, <1>6, <1>7 DEF Settled, Rest

LEMMA FlagsA ==
    ASSUME IInv, NEW r \in RunIds, A!Cancel(r), UNCHANGED varsB, UNCHANGED lost
    PROVE  Flagged("A", r)
<1>1. r \in Memory("A")
  BY DEF A!Cancel, A!CancelAnswer, Memory
<1>2. Objects("A")[r] # NoRun
  BY <1>1 DEF IInv, Types, Owned, Processes
<1>3. Objects("B")' = Objects("B") /\ Memory("B")' = Memory("B") /\ Served("B")' = Served("B")
  BY DEF varsB, Objects, Memory, Served
<1>4. /\ Objects("A")' = [Objects("A") EXCEPT ![r].cancel = TRUE]
      /\ born' = born /\ seen' = seen /\ journal' = journal
      /\ Memory("A")' = Memory("A") /\ Served("A")' = Served("A")
  BY DEF A!Cancel, Memory, Served, Objects
<1>5. Other("A") = "B"
  BY DEF Other
<1> QED
  BY <1>2, <1>3, <1>4, <1>5 DEF Flagged, Rest

LEMMA DropsA ==
    ASSUME NEW r \in RunIds, A!Abandon(r), UNCHANGED varsB, UNCHANGED lost
    PROVE  Dropped("A", r)
<1>1. Objects("B")' = Objects("B") /\ Memory("B")' = Memory("B") /\ Served("B")' = Served("B")
  BY DEF varsB, Objects, Memory, Served
<1>2. /\ Objects("A")' = Objects("A")
      /\ born' = born /\ seen' = seen /\ journal' = journal
      /\ Memory("A")' = Memory("A") /\ Served("A")' = Served("A") \ {r}
  BY DEF A!Abandon, Memory, Served, Objects
<1>3. Other("A") = "B"
  BY DEF Other
<1> QED
  BY <1>1, <1>2, <1>3 DEF Dropped, Rest

LEMMA InsertsB ==
    ASSUME IInv, NEW r \in RunIds, NEW p \in Providers, B!Create(r, p),
           UNCHANGED varsA, UNCHANGED lost
    PROVE  Inserted("B", r)
<1> DEFINE o == [provider |-> p, state |-> "running", cancel |-> FALSE]
<1>1. B!Insert(r, p) /\ born[r] = 0
  BY DEF B!Create, B!Records, B!NotRecorded, B!Insert, B!Fresh
<1>2. born' = [born EXCEPT ![r] = Cardinality(B!Created) + 1] /\ Cardinality(B!Created) \in Nat
  <2>1. IsFiniteSet(B!Created)
    BY SharedAssumption, FS_Subset DEF B!Created
  <2>2. Cardinality(B!Created) \in Nat
    BY <2>1, FS_CardinalityType
  <2> QED BY <1>1, <2>2, SameCardinality DEF B!Insert
<1>3. born' \in [RunIds -> Nat] /\ born'[r] # 0 /\ \A x \in RunIds \ {r} : born'[x] = born[x]
  BY <1>2 DEF IInv, Types
<1>4. o \in A!RunObject /\ o.state = "running" /\ Objects("B")' = [Objects("B") EXCEPT ![r] = o]
  BY <1>1 DEF B!Insert, Objects, A!RunObject
<1>5. Objects("A")' = Objects("A") /\ Memory("A")' = Memory("A") /\ Served("A")' = Served("A")
  BY DEF varsA, Objects, Memory, Served
<1>6. /\ Memory("B")' \subseteq Memory("B") \cup {r} /\ r \in Memory("B")'
      /\ \A x \in RunIds : x \in Memory("B") \ Memory("B")' => x \in B!Finished
  BY DEF B!Create, B!Records, B!NotRecorded, B!Excess, Memory
<1>7. \A x \in RunIds : x \in B!Finished => ~ Running("B", x)
  BY StateFacts DEF B!Finished, B!Terminal, B!TERMINAL_STATES, A!TERMINAL_STATES, Running, Objects
<1>8. \/ journal' = [journal EXCEPT ![r] = "running"] /\ Served("B")' = Served("B") \cup {r}
      \/ journal' = journal /\ Served("B")' = Served("B")
  BY DEF B!Create, B!Records, B!NotRecorded, HasJournal, Served
<1>9. seen' = seen
  BY <1>1 DEF B!Insert
<1>10. Other("B") = "A"
  BY DEF Other
<1> QED
  BY <1>1, <1>3, <1>4, <1>5, <1>6, <1>7, <1>8, <1>9, <1>10 DEF Inserted, Rest

LEMMA SettlesB ==
    ASSUME IInv, NEW r \in RunIds, NEW s \in Outcomes, B!Finish(r, s), UNCHANGED varsA,
           lost' = IF journal' = journal THEN lost \cup {r} ELSE lost
    PROVE  Settled("B", r)
<1>1. r \in Served("B") /\ Objects("B")[r] # NoRun
  BY DEF B!Finish, Served, Objects, IInv, Types, Owned, Processes
<1>2. Running("B", r)
  <2>1. Objects("B")[r].state \notin A!TERMINAL_STATES
    BY DEF B!Finish, B!Terminal, B!TERMINAL_STATES, A!TERMINAL_STATES, Objects
  <2> QED BY <2>1, <1>1, ObjectFacts DEF IInv, Processes
<1>3. Objects("B")' = [Objects("B") EXCEPT ![r].state = s]
  BY DEF B!Finish, Objects
<1>4. \/ journal' = [journal EXCEPT ![r] = s] /\ lost' \in {lost, lost \cup {r}}
      \/ journal' = journal /\ lost' = lost \cup {r}
  BY DEF B!Finish, HasJournal
<1>5. Objects("A")' = Objects("A") /\ Memory("A")' = Memory("A") /\ Served("A")' = Served("A")
  BY DEF varsA, Objects, Memory, Served
<1>6. born' = born /\ seen' = seen /\ Memory("B")' = Memory("B") /\ Served("B")' = Served("B")
  BY DEF B!Finish, Memory, Served
<1>7. Other("B") = "A"
  BY DEF Other
<1> QED
  BY <1>1, <1>2, <1>3, <1>4, <1>5, <1>6, <1>7 DEF Settled, Rest

LEMMA FlagsB ==
    ASSUME IInv, NEW r \in RunIds, B!Cancel(r), UNCHANGED varsA, UNCHANGED lost
    PROVE  Flagged("B", r)
<1>1. r \in Memory("B")
  BY DEF B!Cancel, B!CancelAnswer, Memory
<1>2. Objects("B")[r] # NoRun
  BY <1>1 DEF IInv, Types, Owned, Processes
<1>3. Objects("A")' = Objects("A") /\ Memory("A")' = Memory("A") /\ Served("A")' = Served("A")
  BY DEF varsA, Objects, Memory, Served
<1>4. /\ Objects("B")' = [Objects("B") EXCEPT ![r].cancel = TRUE]
      /\ born' = born /\ seen' = seen /\ journal' = journal
      /\ Memory("B")' = Memory("B") /\ Served("B")' = Served("B")
  BY DEF B!Cancel, Memory, Served, Objects
<1>5. Other("B") = "A"
  BY DEF Other
<1> QED
  BY <1>2, <1>3, <1>4, <1>5 DEF Flagged, Rest

LEMMA DropsB ==
    ASSUME NEW r \in RunIds, B!Abandon(r), UNCHANGED varsA, UNCHANGED lost
    PROVE  Dropped("B", r)
<1>1. Objects("A")' = Objects("A") /\ Memory("A")' = Memory("A") /\ Served("A")' = Served("A")
  BY DEF varsA, Objects, Memory, Served
<1>2. /\ Objects("B")' = Objects("B")
      /\ born' = born /\ seen' = seen /\ journal' = journal
      /\ Memory("B")' = Memory("B") /\ Served("B")' = Served("B") \ {r}
  BY DEF B!Abandon, Memory, Served, Objects
<1>3. Other("B") = "A"
  BY DEF Other
<1> QED
  BY <1>1, <1>2, <1>3 DEF Dropped, Rest
---------------------------------------------------------------------------
(* The invariant is kept. *)

LEMMA RanksAreBounded ==
    \A row \in A!RowStates : Rank(row) \in 0..3 /\ (row \in Outcomes <=> Rank(row) = 3)
BY StateFacts

(* Rows that move forward leave outcomes as they are, and so what was read  *)
(* of one stays true.                                                       *)
LEMMA PastStaysTrue ==
    ASSUME IInv, PastMoves, journal' \in [RunIds -> A!RowStates], Forward
    PROVE  /\ \A r \in RunIds : journal[r] \in Outcomes => journal'[r] = journal[r]
           /\ past' = [p \in Processes |-> past'[p]]
           /\ \A p \in Processes : past'[p] \in [RunIds -> A!RowStates]
           /\ \A p \in Processes, r \in RunIds :
                /\ past'[p][r] \in Outcomes => journal'[r] = past'[p][r]
                /\ born[r] = 0 => past'[p][r] = "absent"
<1>1. ASSUME NEW r \in RunIds, journal[r] \in Outcomes
      PROVE  journal'[r] = journal[r]
  <2>1. Rank(journal[r]) = 3 /\ Rank(journal'[r]) \in 0..3
    BY <1>1, RanksAreBounded DEF IInv, Types
  <2> QED BY <2>1 DEF Forward
<1>2. past' = [p \in Processes |-> past'[p]]
  BY DEF PastMoves
<1>3. Unread \in [RunIds -> A!RowStates]
  BY StateFacts DEF Unread
<1>4. \A p \in Processes : past'[p] \in [RunIds -> A!RowStates]
  BY <1>3 DEF PastMoves, IInv, Types
<1>5. ASSUME NEW p \in Processes, NEW r \in RunIds
      PROVE  /\ past'[p][r] \in Outcomes => journal'[r] = past'[p][r]
             /\ born[r] = 0 => past'[p][r] = "absent"
  <2>1. CASE past'[p] = past[p]
    BY <2>1, <1>1 DEF IInv, ReadsAreTrue, FreshHasNoTrace
  <2>2. CASE past'[p] = journal
    BY <2>2, <1>1 DEF IInv, FreshHasNoTrace
  <2>3. CASE past'[p] = Unread
    BY <2>3, StateFacts DEF Unread
  <2> QED BY <2>1, <2>2, <2>3 DEF PastMoves
<1> QED BY <1>1, <1>2, <1>4, <1>5

LEMMA InsertKeeps ==
    ASSUME IInv, NEW p \in Processes, NEW r \in RunIds, Inserted(p, r), PastMoves
    PROVE  IInv' /\ Forward
<1> USE DEF IInv
<1>1. PICK o \in A!RunObject :
        o.state = "running" /\ Objects(p)' = [Objects(p) EXCEPT ![r] = o]
  BY DEF Inserted
<1>2. /\ journal[r] = "absent" /\ seen[r] = "absent"
      /\ \A q \in Processes : r \notin Owned(q) /\ Objects(q)[r] = NoRun /\ past[q][r] = "absent"
  BY DEF Inserted, FreshHasNoTrace
<1>3. /\ journal' \in [RunIds -> A!RowStates]
      /\ journal'[r] \in {"absent", "running"}
      /\ \A x \in RunIds \ {r} : journal'[x] = journal[x]
  BY <1>2, StateFacts DEF Inserted, Types
<1>4. Forward
  BY <1>2, <1>3, StateFacts DEF Forward
<1>5. /\ Other(p) \in Processes /\ Other(p) # p
      /\ \A q \in Processes : q # p => q = Other(p)
      /\ Objects(Other(p))' = Objects(Other(p)) /\ Memory(Other(p))' = Memory(Other(p))
      /\ Served(Other(p))' = Served(Other(p))
  BY DEF Inserted, Rest, Other, Processes
<1>6. /\ Objects(p)' \in [RunIds -> A!RunObject \cup {NoRun}]
      /\ Objects(p)'[r] = o /\ o # NoRun
      /\ \A x \in RunIds \ {r} : Objects(p)'[x] = Objects(p)[x]
  BY <1>1, StateFacts DEF Types
<1>7. /\ Owned(p)' \subseteq Owned(p) \cup {r} /\ Owned(Other(p))' = Owned(Other(p))
      /\ \A x \in RunIds \ {r} : x \in Served(p)' => x \in Served(p)
      /\ \A x \in RunIds \ {r} : x \in Memory(p) /\ Running(p, x) => x \in Memory(p)'
  BY <1>5 DEF Inserted, Owned
<1>8. Types'
  <2>1. \A q \in Processes : Objects(q)' \in [RunIds -> A!RunObject \cup {NoRun}]
    BY <1>5, <1>6 DEF Types
  <2>2. \A q \in Processes, x \in RunIds : Objects(q)[x] # NoRun => Objects(q)'[x] # NoRun
    BY <1>5, <1>6
  <2>3. \A q \in Processes : Owned(q)' \subseteq Owned(q) \cup {r}
                             /\ (q # p => Owned(q)' = Owned(q))
    BY <1>5, <1>7
  <2>4. \A q \in Processes : Owned(q)' \subseteq {x \in RunIds : Objects(q)'[x] # NoRun}
    BY <2>2, <2>3, <1>6 DEF Types
  <2> QED
    BY <2>1, <2>4, <1>3, <1>4, PastStaysTrue DEF Types, Inserted, PastMoves
<1>9. FreshHasNoTrace'
  <2> SUFFICES ASSUME NEW x \in RunIds, born'[x] = 0
               PROVE  /\ journal'[x] = "absent" /\ seen'[x] = "absent"
                      /\ \A q \in Processes : /\ x \notin Owned(q)' /\ Objects(q)'[x] = NoRun
                                              /\ past'[q][x] = "absent"
    BY DEF FreshHasNoTrace
  <2>1. x # r /\ born[x] = 0
    BY DEF Inserted
  <2>2. \A q \in Processes : past'[q][x] = "absent"
    BY <2>1, <1>3, <1>4, PastStaysTrue
  <2>3. \A q \in Processes : x \notin Owned(q)' /\ Objects(q)'[x] = NoRun
    BY <2>1, <1>5, <1>6, <1>7 DEF FreshHasNoTrace
  <2> QED BY <2>1, <2>2, <2>3, <1>3 DEF FreshHasNoTrace, Inserted
<1>10. OneOwner'
  <2>1. \A x \in RunIds \ {r}, q \in Processes : Objects(q)'[x] = Objects(q)[x]
    BY <1>5, <1>6
  <2>2. Objects(Other(p))'[r] = NoRun
    BY <1>2, <1>5
  <2> QED BY <2>1, <2>2 DEF OneOwner, Processes, Other
<1>11. RowsFollow'
  <2> SUFFICES ASSUME NEW q \in Processes, NEW x \in RunIds, Objects(q)'[x] # NoRun
               PROVE  IF Running(q, x)'
                      THEN /\ x \in Memory(q)' /\ journal'[x] \notin Outcomes
                           /\ x \in Served(q)' => journal'[x] # "absent"
                      ELSE x \notin lost' => journal'[x] = Objects(q)'[x].state
    BY DEF RowsFollow
  <2>1. CASE x = r
    <3>1. q = p /\ Running(q, x)'
      BY <2>1, <1>1, <1>2, <1>5, <1>6 DEF Running
    <3>2. r \in Served(p)' => journal'[r] = "running"
      BY <1>2 DEF Inserted, Types, Owned
    <3> QED BY <2>1, <3>1, <3>2, <1>3, StateFacts DEF Inserted
  <2>2. CASE x # r
    <3>1. Objects(q)'[x] = Objects(q)[x] /\ journal'[x] = journal[x] /\ lost' = lost
          /\ (Running(q, x)' <=> Running(q, x))
      BY <2>2, <1>3, <1>5, <1>6 DEF Inserted, Running
    <3>2. x \in Served(q)' => x \in Served(q)
      BY <2>2, <1>5, <1>7
    <3>3. Running(q, x) /\ x \in Memory(q) => x \in Memory(q)'
      BY <2>2, <1>5, <1>7
    <3> QED BY <3>1, <3>2, <3>3 DEF RowsFollow
  <2> QED BY <2>1, <2>2
<1>12. ReadsAreTrue'
  <2> SUFFICES ASSUME NEW x \in RunIds
               PROVE  /\ x \notin lost' /\ seen'[x] \in Outcomes => journal'[x] = seen'[x]
                      /\ \A q \in Processes : past'[q][x] \in Outcomes => journal'[x] = past'[q][x]
    BY DEF ReadsAreTrue
  <2>1. seen' = seen /\ lost' = lost
    BY DEF Inserted
  <2> QED BY <2>1, <1>3, <1>4, <1>2, PastStaysTrue DEF ReadsAreTrue
<1> QED BY <1>4, <1>8, <1>9, <1>10, <1>11, <1>12

LEMMA SettleKeeps ==
    ASSUME IInv, NEW p \in Processes, NEW r \in RunIds, Settled(p, r), PastMoves
    PROVE  IInv' /\ Forward
<1> USE DEF IInv
<1>1. PICK s \in Outcomes :
         /\ Objects(p)' = [Objects(p) EXCEPT ![r].state = s]
         /\ \/ journal' = [journal EXCEPT ![r] = s] /\ lost' \in {lost, lost \cup {r}}
            \/ journal' = journal /\ lost' = lost \cup {r}
  BY DEF Settled
<1>2. /\ Objects(p)[r] \in A!RunObject /\ Objects(p)[r] # NoRun
      /\ journal[r] \notin Outcomes /\ journal[r] # "absent" /\ born[r] # 0
  BY ObjectFacts DEF Settled, Types, Owned, RowsFollow, FreshHasNoTrace
<1>3. /\ journal' \in [RunIds -> A!RowStates]
      /\ \A x \in RunIds \ {r} : journal'[x] = journal[x]
      /\ r \notin lost' => journal'[r] = s
      /\ journal'[r] \in {journal[r], s}
      /\ lost \subseteq lost' /\ lost' \subseteq lost \cup {r}
  BY <1>1, StateFacts DEF Types
<1>4. Forward
  BY <1>2, <1>3, StateFacts DEF Forward, Types
<1>5. /\ Other(p) \in Processes /\ Other(p) # p
      /\ \A q \in Processes : q # p => q = Other(p)
      /\ Objects(Other(p))' = Objects(Other(p))
      /\ \A q \in Processes : Memory(q)' = Memory(q) /\ Served(q)' = Served(q)
      /\ born' = born /\ seen' = seen
  BY DEF Settled, Rest, Other, Processes
<1>6. /\ Objects(p)'[r] \in A!RunObject /\ Objects(p)'[r] # NoRun /\ Objects(p)'[r].state = s
      /\ Objects(p)' \in [RunIds -> A!RunObject \cup {NoRun}]
      /\ \A x \in RunIds \ {r} : Objects(p)'[x] = Objects(p)[x]
  <2> DEFINE ended == [Objects(p)[r] EXCEPT !.state = s]
  <2>1. ended \in A!RunObject /\ ended.state = s
    BY <1>2 DEF A!RunObject
  <2>2. Objects(p)' = [Objects(p) EXCEPT ![r] = ended]
    BY <1>1
  <2>3. Objects(p) \in [RunIds -> A!RunObject \cup {NoRun}]
    BY DEF Types
  <2> HIDE DEF ended
  <2> QED BY <2>1, <2>2, <2>3, StateFacts
<1>7. Types'
  <2>1. \A q \in Processes :
           /\ Objects(q)' \in [RunIds -> A!RunObject \cup {NoRun}]
           /\ \A x \in RunIds : Objects(q)[x] # NoRun => Objects(q)'[x] # NoRun
    BY <1>5, <1>6 DEF Types
  <2>2. \A q \in Processes : Owned(q)' \subseteq {x \in RunIds : Objects(q)'[x] # NoRun}
    BY <2>1, <1>5 DEF Types, Owned
  <2> QED
    BY <2>1, <2>2, <1>3, <1>4, <1>5, PastStaysTrue DEF Types, PastMoves
<1>8. FreshHasNoTrace'
  BY <1>2, <1>3, <1>4, <1>5, <1>6, PastStaysTrue DEF FreshHasNoTrace, Owned
<1>9. OneOwner'
  <2>1. \A x \in RunIds, q \in Processes : Objects(q)'[x] # NoRun => Objects(q)[x] # NoRun
    BY <1>2, <1>5, <1>6
  <2> QED BY <2>1 DEF OneOwner, Processes
<1>10. RowsFollow'
  <2> SUFFICES ASSUME NEW q \in Processes, NEW x \in RunIds, Objects(q)'[x] # NoRun
               PROVE  IF Running(q, x)'
                      THEN /\ x \in Memory(q)' /\ journal'[x] \notin Outcomes
                           /\ x \in Served(q)' => journal'[x] # "absent"
                      ELSE x \notin lost' => journal'[x] = Objects(q)'[x].state
    BY DEF RowsFollow
  <2>1. CASE x = r
    <3>1. Objects(Other(p))[r] = NoRun
      BY <1>2, <1>5 DEF OneOwner, Processes, Other
    <3>2. q = p /\ ~ Running(q, x)'
      BY <2>1, <3>1, <1>5, <1>6, StateFacts DEF Running
    <3> QED BY <2>1, <3>2, <1>3, <1>6
  <2>2. CASE x # r
    <3>1. /\ Objects(q)'[x] = Objects(q)[x] /\ journal'[x] = journal[x]
          /\ x \in lost' <=> x \in lost
          /\ Running(q, x)' <=> Running(q, x)
      BY <2>2, <1>3, <1>5, <1>6 DEF Running
    <3> QED BY <3>1, <1>5 DEF RowsFollow
  <2> QED BY <2>1, <2>2
<1>11. ReadsAreTrue'
  <2> SUFFICES ASSUME NEW x \in RunIds
               PROVE  /\ x \notin lost' /\ seen'[x] \in Outcomes => journal'[x] = seen'[x]
                      /\ \A q \in Processes : past'[q][x] \in Outcomes => journal'[x] = past'[q][x]
    BY DEF ReadsAreTrue
  <2>1. x \notin lost /\ seen[x] \in Outcomes => journal[x] = seen[x]
    BY DEF ReadsAreTrue
  <2> QED BY <2>1, <1>3, <1>4, <1>5, PastStaysTrue
<1> QED BY <1>4, <1>7, <1>8, <1>9, <1>10, <1>11

LEMMA FlagKeeps ==
    ASSUME IInv, NEW p \in Processes, NEW r \in RunIds, Flagged(p, r), UNCHANGED <<conn, past>>
    PROVE  IInv' /\ Forward
<1> USE DEF IInv
<1>1. /\ Other(p) \in Processes /\ Other(p) # p
      /\ \A q \in Processes : q # p => q = Other(p)
      /\ Objects(Other(p))' = Objects(Other(p))
      /\ \A q \in Processes : Memory(q)' = Memory(q) /\ Served(q)' = Served(q)
      /\ born' = born /\ seen' = seen /\ journal' = journal /\ lost' = lost
      /\ past' = past /\ conn' = conn
  BY DEF Flagged, Rest, Other, Processes
<1>2. /\ Objects(p)'[r] \in A!RunObject /\ Objects(p)'[r] # NoRun
      /\ Objects(p)'[r].state = Objects(p)[r].state
      /\ Objects(p)' \in [RunIds -> A!RunObject \cup {NoRun}]
      /\ \A x \in RunIds \ {r} : Objects(p)'[x] = Objects(p)[x]
  <2>1. Objects(p)[r] \in A!RunObject
    BY DEF Flagged, Types
  <2> DEFINE flagged == [Objects(p)[r] EXCEPT !.cancel = TRUE]
  <2>2. flagged \in A!RunObject /\ flagged.state = Objects(p)[r].state
    BY <2>1 DEF A!RunObject
  <2>3. Objects(p)' = [Objects(p) EXCEPT ![r] = flagged]
    BY DEF Flagged
  <2>4. Objects(p) \in [RunIds -> A!RunObject \cup {NoRun}]
    BY DEF Types
  <2> HIDE DEF flagged
  <2> QED BY <2>2, <2>3, <2>4, StateFacts
<1>3. \A q \in Processes, x \in RunIds :
         /\ Objects(q)'[x] # NoRun <=> Objects(q)[x] # NoRun
         /\ Objects(q)[x] # NoRun => Objects(q)'[x].state = Objects(q)[x].state
  BY <1>1, <1>2 DEF Flagged
<1>4. Types'
  BY <1>1, <1>2 DEF Types, Owned
<1>5. FreshHasNoTrace' /\ ReadsAreTrue'
  BY <1>1, <1>3 DEF FreshHasNoTrace, ReadsAreTrue, Owned
<1>6. OneOwner'
  BY <1>3 DEF OneOwner, Processes
<1>7. RowsFollow'
  BY <1>1, <1>3 DEF RowsFollow, Running
<1> QED BY <1>1, <1>4, <1>5, <1>6, <1>7 DEF Forward

LEMMA DropKeeps ==
    ASSUME IInv, NEW p \in Processes, NEW r \in RunIds, Dropped(p, r),
           UNCHANGED <<conn, past>>
    PROVE  IInv' /\ Forward
<1>1. \A q \in Processes : /\ Objects(q)' = Objects(q) /\ Memory(q)' = Memory(q)
                           /\ Served(q)' \subseteq Served(q)
                           /\ Owned(q)' \subseteq Owned(q)
  BY DEF Dropped, Rest, Other, Processes, Owned
<1>2. journal' = journal /\ born' = born /\ seen' = seen /\ lost' = lost
  BY DEF Dropped
<1>3. Types' /\ FreshHasNoTrace' /\ ReadsAreTrue'
  BY <1>1, <1>2 DEF IInv, Types, FreshHasNoTrace, ReadsAreTrue
<1>4. OneOwner' /\ RowsFollow'
  BY <1>1, <1>2 DEF IInv, OneOwner, RowsFollow, Running, Processes
<1> QED BY <1>2, <1>3, <1>4 DEF IInv, Forward

(* What Ask answers of a run whose final write was not refused: nothing but *)
(* the outcome that its row has, once it has one, unless an overtaken       *)
(* connection is asked.                                                     *)
LEMMA AnswersAreTrue ==
    ASSUME IInv, NEW p \in Processes, NEW r \in RunIds, Ask(p, r)
    PROVE  /\ seen' \in [RunIds -> A!RowStates]
           /\ \A x \in RunIds \ {r} : seen'[x] = seen[x]
           /\ born[r] = 0 => seen'[r] = seen[r]
           /\ r \notin lost /\ seen'[r] \in Outcomes => journal[r] = seen'[r]
           /\ r \notin lost /\ journal[r] \in Outcomes /\ conn[p] # "overtaken" /\ seen'[r] # seen[r]
                => seen'[r] = journal[r]
<1> USE DEF IInv
<1> DEFINE inMemory == r \in Memory(p)
           answer   == IF inMemory THEN Objects(p)[r].state ELSE Rows(p)[r]
<1>1. seen' = IF answer = "absent" THEN seen ELSE [seen EXCEPT ![r] = answer]
  BY DEF Ask, Memory, Objects, Processes
<1>2. CASE inMemory
  <2>1. Objects(p)[r] # NoRun
    BY <1>2 DEF Types, Owned
  <2>2. answer = Objects(p)[r].state /\ answer \in {"running"} \cup Outcomes
    BY <1>2, <2>1, ObjectFacts
  <2>3. /\ answer = "running" => journal[r] \notin Outcomes
        /\ answer # "running" /\ r \notin lost => journal[r] = answer
    BY <2>1, <2>2 DEF RowsFollow, Running
  <2>4. born[r] # 0
    BY <2>1 DEF FreshHasNoTrace
  <2>5. answer \in A!RowStates /\ answer # "absent"
    BY <2>2, StateFacts
  <2> HIDE DEF answer
  <2> QED BY <1>1, <2>2, <2>3, <2>4, <2>5, StateFacts DEF Types
<1>3. CASE ~ inMemory
  <2>1. /\ answer \in A!RowStates
        /\ answer \in Outcomes => journal[r] = answer
        /\ conn[p] # "overtaken" => answer = journal[r]
        /\ born[r] = 0 => answer = "absent"
    BY <1>3 DEF Rows, Types, ReadsAreTrue, FreshHasNoTrace
  <2> HIDE DEF answer
  <2>2. CASE answer = "absent"
    BY <2>2, <1>1, <2>1, StateFacts DEF Types, ReadsAreTrue
  <2>3. CASE answer # "absent"
    BY <2>3, <1>1, <2>1, StateFacts DEF Types
  <2> QED BY <2>2, <2>3
<1> QED BY <1>2, <1>3

LEMMA AskKeeps ==
    ASSUME IInv, NEW p \in Processes, NEW r \in RunIds, Ask(p, r)
    PROVE  IInv' /\ Forward
<1>1. /\ \A q \in Processes : /\ Objects(q)' = Objects(q) /\ Memory(q)' = Memory(q)
                              /\ Served(q)' = Served(q) /\ Owned(q)' = Owned(q)
      /\ journal' = journal /\ born' = born /\ past' = past /\ lost' = lost
  BY DEF Ask, varsA, varsB, Objects, Memory, Served, Owned
<1>2. conn' \in [Processes -> {"clean", "begun", "pinned", "overtaken"}]
  BY DEF Ask, IInv, Types
<1>3. Types'
  BY <1>1, <1>2, AnswersAreTrue DEF IInv, Types
<1>4. FreshHasNoTrace'
  BY <1>1, AnswersAreTrue DEF IInv, FreshHasNoTrace
<1>5. OneOwner'
  BY <1>1 DEF IInv, OneOwner, Processes
<1>6. RowsFollow'
  BY <1>1 DEF IInv, RowsFollow, Running
<1>7. ReadsAreTrue'
  BY <1>1, AnswersAreTrue DEF IInv, ReadsAreTrue
<1> QED BY <1>1, <1>3, <1>4, <1>5, <1>6, <1>7 DEF IInv, Forward

LEMMA CrashKeeps ==
    ASSUME IInv, NEW p \in Processes, Crash(p)
    PROVE  IInv' /\ Forward
<1>1. /\ \A q \in Processes : IF q = p
            THEN Objects(q)' = [r \in RunIds |-> NoRun] /\ Memory(q)' = {} /\ Served(q)' = {}
            ELSE Objects(q)' = Objects(q) /\ Memory(q)' = Memory(q) /\ Served(q)' = Served(q)
      /\ journal' = journal /\ born' = born /\ seen' = seen /\ lost' = lost
  <2>1. CASE p = "A"
    BY <2>1 DEF Crash, A!Crash, varsB, Objects, Memory, Served, Processes
  <2>2. CASE p = "B"
    BY <2>2 DEF Crash, B!Crash, varsA, Objects, Memory, Served, Processes
  <2> QED BY <2>1, <2>2 DEF Processes
<1>2. \A q \in Processes, r \in RunIds :
         Objects(q)'[r] # NoRun => q # p /\ Objects(q)'[r] = Objects(q)[r]
  BY <1>1
<1>3. /\ conn' \in [Processes -> {"clean", "begun", "pinned", "overtaken"}]
      /\ past' = [past EXCEPT ![p] = Unread]
  BY DEF Crash, IInv, Types
<1>4. PastMoves
  BY <1>3 DEF PastMoves, IInv, Types
<1>5. Forward /\ journal' \in [RunIds -> A!RowStates]
  BY <1>1 DEF Forward, IInv, Types
<1>6. Types'
  <2>1. \A q \in Processes : Objects(q)' \in [RunIds -> A!RunObject \cup {NoRun}]
    BY <1>1 DEF IInv, Types
  <2>2. \A q \in Processes : Owned(q)' \subseteq {r \in RunIds : Objects(q)'[r] # NoRun}
    BY <1>1 DEF IInv, Types, Owned
  <2> QED
    BY <2>1, <2>2, <1>1, <1>3, <1>4, <1>5, PastStaysTrue DEF IInv, Types
<1>7. FreshHasNoTrace'
  BY <1>1, <1>4, <1>5, PastStaysTrue DEF IInv, FreshHasNoTrace, Owned
<1>8. OneOwner'
  BY <1>2 DEF IInv, OneOwner, Processes
<1>9. RowsFollow'
  BY <1>1, <1>2 DEF IInv, RowsFollow, Running
<1>10. ReadsAreTrue'
  BY <1>1, <1>4, <1>5, PastStaysTrue DEF IInv, ReadsAreTrue
<1> QED BY <1>5, <1>6, <1>7, <1>8, <1>9, <1>10 DEF IInv

LEMMA ReconcileKeeps ==
    ASSUME IInv, NEW p \in Processes, Reconcile(p)
    PROVE  IInv' /\ Forward
<1>1. /\ \A q \in Processes : /\ Objects(q)' = Objects(q) /\ Memory(q)' = Memory(q)
                              /\ Served(q)' = Served(q) /\ Owned(q)' = Owned(q)
      /\ born' = born /\ seen' = seen /\ lost' = lost
  BY DEF Reconcile, Objects, Memory, Served, Owned
<1>2. journal' \in [RunIds -> A!RowStates]
      /\ \A r \in RunIds : \/ journal'[r] = journal[r]
                           \/ journal[r] = "running" /\ journal'[r] = "interrupted"
  BY StateFacts DEF Reconcile, Updated, IInv, Types
<1>3. Forward
  BY <1>2, StateFacts DEF Forward
<1>4. PastMoves
  BY DEF Reconcile, Committed, PastMoves, IInv, Types
<1>5. Types'
  BY <1>1, <1>2, <1>3, <1>4, PastStaysTrue DEF IInv, Types, PastMoves
<1>6. FreshHasNoTrace'
  BY <1>1, <1>2, <1>3, <1>4, PastStaysTrue, StateFacts DEF IInv, FreshHasNoTrace
<1>7. OneOwner'
  BY <1>1 DEF IInv, OneOwner, Processes
<1>8. RowsFollow'
  <2>1. \A q \in Processes, r \in RunIds : Objects(q)[r] # NoRun =>
           Objects(q)[r].state \in {"running"} \cup Outcomes
    BY ObjectFacts DEF IInv
  <2> QED BY <2>1, <1>1, <1>2, StateFacts DEF IInv, RowsFollow, Running
<1>9. ReadsAreTrue'
  BY <1>1, <1>2, <1>3, <1>4, PastStaysTrue DEF IInv, ReadsAreTrue
<1> QED BY <1>3, <1>5, <1>6, <1>7, <1>8, <1>9 DEF IInv

(* The steps of a start that change no row. *)
LEMMA StillKeeps ==
    ASSUME IInv, UNCHANGED <<varsA, varsB, born, journal, conn, past, seen, lost>>
    PROVE  IInv' /\ Forward
<1>1. \A q \in Processes : /\ Objects(q)' = Objects(q) /\ Memory(q)' = Memory(q)
                           /\ Served(q)' = Served(q) /\ Owned(q)' = Owned(q)
  BY DEF varsA, varsB, Objects, Memory, Served, Owned
<1>2. Types' /\ FreshHasNoTrace' /\ ReadsAreTrue'
  BY <1>1 DEF IInv, Types, FreshHasNoTrace, ReadsAreTrue
<1>3. OneOwner' /\ RowsFollow'
  BY <1>1 DEF IInv, OneOwner, RowsFollow, Running, Processes
<1> QED BY <1>2, <1>3 DEF IInv, Forward

LEMMA InitIInv == Init => IInv
<1> SUFFICES ASSUME Init PROVE IInv
  OBVIOUS
<1>1. /\ \A p \in Processes : Objects(p) = [r \in RunIds |-> NoRun] /\ Owned(p) = {}
      /\ born = [r \in RunIds |-> 0]
      /\ journal = [r \in RunIds |-> "absent"]
      /\ seen = [r \in RunIds |-> "absent"]
      /\ conn = [p \in Processes |-> "clean"]
      /\ past = [p \in Processes |-> [r \in RunIds |-> "absent"]]
  BY DEF Init, A!Init, Objects, Owned, Memory, Served, Unread
<1>2. Types
  BY <1>1, StateFacts DEF Types
<1>3. FreshHasNoTrace /\ ReadsAreTrue
  BY <1>1, StateFacts DEF FreshHasNoTrace, ReadsAreTrue
<1>4. OneOwner /\ RowsFollow
  BY <1>1 DEF OneOwner, RowsFollow, Processes
<1> QED BY <1>2, <1>3, <1>4 DEF IInv

LEMMA StepIInv == IInv /\ [Next]_vars => IInv' /\ Forward
<1> SUFFICES ASSUME IInv, [Next]_vars PROVE IInv' /\ Forward
  OBVIOUS
<1>1. CASE StepsA
  <2>1. ASSUME NEW r \in RunIds, NEW p \in Providers, A!Create(r, p), Recorded("A"),
               UNCHANGED lost, UNCHANGED varsB
        PROVE  IInv' /\ Forward
    BY <2>1, InsertsA, ConnectionMoves, InsertKeeps DEF Processes
  <2>2. ASSUME NEW r \in RunIds, NEW s \in Outcomes, A!Finish(r, s), Recorded("A"),
               lost' = IF journal' = journal THEN lost \cup {r} ELSE lost, UNCHANGED varsB
        PROVE  IInv' /\ Forward
    BY <2>2, SettlesA, ConnectionMoves, SettleKeeps DEF Processes
  <2>3. ASSUME NEW r \in RunIds, A!Cancel(r), UNCHANGED <<orphans, conn, past, lost>>,
               UNCHANGED varsB
        PROVE  IInv' /\ Forward
    BY <2>3, FlagsA, FlagKeeps DEF Processes
  <2>4. ASSUME NEW r \in RunIds, A!Abandon(r), UNCHANGED <<orphans, conn, past, lost>>,
               UNCHANGED varsB
        PROVE  IInv' /\ Forward
    BY <2>4, DropsA, DropKeeps DEF Processes
  <2> QED BY <1>1, <2>1, <2>2, <2>3, <2>4 DEF StepsA
<1>2. CASE StepsB
  <2>1. ASSUME NEW r \in RunIds, NEW p \in Providers, B!Create(r, p), Recorded("B"),
               UNCHANGED lost, UNCHANGED varsA
        PROVE  IInv' /\ Forward
    BY <2>1, InsertsB, ConnectionMoves, InsertKeeps DEF Processes
  <2>2. ASSUME NEW r \in RunIds, NEW s \in Outcomes, B!Finish(r, s), Recorded("B"),
               lost' = IF journal' = journal THEN lost \cup {r} ELSE lost, UNCHANGED varsA
        PROVE  IInv' /\ Forward
    BY <2>2, SettlesB, ConnectionMoves, SettleKeeps DEF Processes
  <2>3. ASSUME NEW r \in RunIds, B!Cancel(r), UNCHANGED <<orphans, conn, past, lost>>,
               UNCHANGED varsA
        PROVE  IInv' /\ Forward
    BY <2>3, FlagsB, FlagKeeps DEF Processes
  <2>4. ASSUME NEW r \in RunIds, B!Abandon(r), UNCHANGED <<orphans, conn, past, lost>>,
               UNCHANGED varsA
        PROVE  IInv' /\ Forward
    BY <2>4, DropsB, DropKeeps DEF Processes
  <2> QED BY <1>2, <2>1, <2>2, <2>3, <2>4 DEF StepsB
<1>3. ASSUME NEW p \in Processes, NEW r \in RunIds, Ask(p, r)
      PROVE  IInv' /\ Forward
  BY <1>3, AskKeeps
<1>4. ASSUME NEW p \in Processes, Crash(p)
      PROVE  IInv' /\ Forward
  BY <1>4, CrashKeeps
<1>5. ASSUME NEW p \in Processes, Scan(p) \/ ReconcileFails(p)
      PROVE  IInv' /\ Forward
  BY <1>5, StillKeeps DEF Scan, ReconcileFails
<1>6. ASSUME NEW p \in Processes, Reconcile(p)
      PROVE  IInv' /\ Forward
  BY <1>6, ReconcileKeeps
<1>7. CASE UNCHANGED vars
  BY <1>7, StillKeeps DEF vars
<1> QED BY <1>1, <1>2, <1>3, <1>4, <1>5, <1>6, <1>7 DEF Next

---------------------------------------------------------------------------
(* The theorems. *)

THEOREM Invariance == Spec => []IInv
<1> QED BY InitIInv, StepIInv, PTL DEF Spec

(* Whatever another process made of the row of a live run, in the end it    *)
(* says how the run ended, if that write was not refused.                   *)
THEOREM OutcomesWin == Spec => []TruthWins
<1>1. IInv => TruthWins
  <2> SUFFICES ASSUME IInv, NEW r \in RunIds \ lost
               PROVE  /\ r \in memoryA /\ A!Terminal(r) => journal[r] = runA[r].state
                      /\ r \in memoryB /\ B!Terminal(r) => journal[r] = runB[r].state
    BY DEF TruthWins
  <2>1. ASSUME NEW p \in Processes, r \in Memory(p), Objects(p)[r].state \in A!TERMINAL_STATES
        PROVE  journal[r] = Objects(p)[r].state
    <3>1. Objects(p)[r] # NoRun
      BY <2>1 DEF IInv, Types, Owned
    <3>2. ~ Running(p, r)
      BY <2>1, StateFacts DEF Running
    <3> QED BY <3>1, <3>2 DEF IInv, RowsFollow
  <2>2. r \in memoryA /\ A!Terminal(r) => journal[r] = runA[r].state
    BY <2>1 DEF A!Terminal, A!TERMINAL_STATES, Processes, Memory, Objects
  <2>3. r \in memoryB /\ B!Terminal(r) => journal[r] = runB[r].state
    BY <2>1 DEF B!Terminal, A!TERMINAL_STATES, B!TERMINAL_STATES, Processes, Memory, Objects
  <2> QED BY <2>2, <2>3
<1> QED BY <1>1, Invariance, PTL

(* Rows only move forward, whoever writes them, and however old what he     *)
(* read of them.                                                            *)
THEOREM NoRowMovesBack == Spec => RowsMoveForward
<1>1. IInv /\ [Next]_vars =>
        [\A r \in RunIds : journal'[r] # journal[r] => Rank(journal'[r]) > Rank(journal[r])]_vars
  BY StepIInv DEF Forward
<1> QED BY <1>1, Invariance, PTL DEF Spec, RowsMoveForward

(* Each process can cancel what it serves, and no other.                    *)
THEOREM CancelsReach == Spec => []EachCancelsItsOwn
<1>1. IInv => EachCancelsItsOwn
  <2> SUFFICES ASSUME IInv PROVE EachCancelsItsOwn
    OBVIOUS
  <2>1. \A r \in RunIds : ~ (\E p, q \in Processes : p # q /\ r \in Owned(p) /\ r \in Owned(q))
    BY DEF IInv, OneOwner, Types, Processes
  <2>2. heldA \cap heldB = {}
    <3>1. heldA \subseteq RunIds
      BY DEF IInv, Types, Owned, Served, Processes
    <3> QED BY <2>1, <3>1 DEF Owned, Served, Processes
  <2>3. \A r \in RunIds, p \in Processes :
           Objects(p)[r] # NoRun /\ Objects(p)[r].state \notin A!TERMINAL_STATES
             => r \in Memory(p)
    BY ObjectFacts DEF IInv, RowsFollow
  <2>4. A!LiveRunsCanBeCancelled
    BY <2>3 DEF A!LiveRunsCanBeCancelled, A!Active, A!Terminal, A!CancelAnswer, Objects, Memory,
                Processes
  <2>5. B!LiveRunsCanBeCancelled
    BY <2>3 DEF B!LiveRunsCanBeCancelled, B!Active, B!Terminal, B!CancelAnswer, Objects, Memory,
                Processes, A!TERMINAL_STATES, B!TERMINAL_STATES
  <2>6. \A r \in RunIds :
           ~ (A!CancelAnswer(r) = "cancelling" /\ B!CancelAnswer(r) = "cancelling")
    <3> SUFFICES ASSUME NEW r \in RunIds, A!CancelAnswer(r) = "cancelling",
                        B!CancelAnswer(r) = "cancelling"
                 PROVE  FALSE
      OBVIOUS
    <3>1. r \in memoryA
      BY DEF A!CancelAnswer
    <3>2. r \in memoryB
      BY DEF B!CancelAnswer
    <3> QED BY <2>1, <3>1, <3>2 DEF Owned, Memory, Processes
  <2> QED BY <2>2, <2>4, <2>5, <2>6 DEF EachCancelsItsOwn
<1> QED BY <1>1, Invariance, PTL

(* A client is told one outcome, by either process, of a run whose final    *)
(* write was not refused, as long as no connection reads the past.          *)
THEOREM OneOutcomeIsTold == Spec => OneOutcome
<1>1. IInv /\ [Next]_vars =>
        [\A r \in RunIds \ lost :
            /\ seen[r] \in Outcomes
            /\ \A p \in Processes : conn[p] # "overtaken"
            => seen'[r] = seen[r]]_vars
  <2> SUFFICES ASSUME IInv, Next, NEW r \in RunIds \ lost, seen[r] \in Outcomes,
                      \A p \in Processes : conn[p] # "overtaken"
               PROVE  seen'[r] = seen[r]
    OBVIOUS
  <2>1. journal[r] = seen[r]
    BY DEF IInv, ReadsAreTrue
  <2>2. ASSUME NEW p \in Processes, NEW q \in RunIds, Ask(p, q)
        PROVE  seen'[r] = seen[r]
    BY <2>1, <2>2, AnswersAreTrue
  <2>3. ASSUME ~ \E p \in Processes, q \in RunIds : Ask(p, q)
        PROVE  seen' = seen
    BY <2>3
       DEF Next, StepsA, StepsB, A!Create, B!Create, A!Insert, B!Insert, A!Finish, B!Finish,
           A!Abandon, B!Abandon, A!Cancel, B!Cancel, Crash, A!Crash, B!Crash, Scan, Reconcile, ReconcileFails
  <2> QED BY <2>2, <2>3
<1> QED BY <1>1, Invariance, PTL DEF Spec, OneOutcome
=============================================================================
