---------------------------- MODULE RunsProofs ----------------------------
(***************************************************************************)
(* Theorems about the run registry (Runs.tla), for any set of run ids, any *)
(* history limit, with or without a journal.                               *)
(*                                                                         *)
(* The invariants rest on one strengthening, IInv.  LiveRunsCanBeCancelled *)
(* is not inductive alone: it needs that eviction spares active runs,      *)
(* which is about the object, and that a run without a row has no object.  *)
(***************************************************************************)
EXTENDS Runs, FiniteSetTheorems, NaturalsInduction, WellFoundedInduction, TLAPS

(* A dead process has no objects. *)
DownIsEmpty == ~ up => \A r \in RunIds : run[r] = NoRun

(* Only finished runs leave memory. *)
ActiveInMemory == \A r \in RunIds : Active(r) => r \in memory

(* An id that was never drawn has left no trace. *)
FreshHasNoTrace ==
    \A r \in RunIds : Fresh(r) =>
        run[r] = NoRun /\ journal[r] = "absent" /\ seen[r] = "absent"

NoJournalNoRows == ~ HasJournal => \A r \in RunIds : journal[r] = "absent"

(* A run that has not ended has its handler, or was abandoned; an abandoned *)
(* run has neither a handler nor an end.                                    *)
Attended ==
    /\ \A r \in RunIds : Active(r) => r \in held \cup abandoned
    /\ \A r \in abandoned : Active(r) /\ r \notin held

IInv == /\ TypeOK
        /\ DownIsEmpty
        /\ ActiveInMemory
        /\ FreshHasNoTrace
        /\ NoJournalNoRows
        /\ JournalNeverAhead
        /\ Attended

(* What a journal that never fails adds: the row of a run in memory is its  *)
(* state, a run out of memory is not running in the journal, and what a     *)
(* client was shown as terminal is still what memory and journal say.       *)
Synced ==
    /\ HasJournal => \A r \in memory : journal[r] = run[r].state
    /\ up => \A r \in RunIds \ memory : journal[r] # "running"
    /\ \A r \in RunIds : seen[r] \in TERMINAL_STATES =>
          /\ r \in memory => run[r].state = seen[r]
          /\ HasJournal => journal[r] = seen[r]

---------------------------------------------------------------------------
(* The states a handler may report are terminal; "running" and "absent" are *)
(* not.                                                                     *)
LEMMA StateFacts ==
    /\ Outcomes \subseteq TERMINAL_STATES
    /\ "interrupted" \in TERMINAL_STATES
    /\ "running" \notin TERMINAL_STATES
    /\ "absent" \notin TERMINAL_STATES
BY OutcomesAssumption DEF TERMINAL_STATES

(* The order stamp of a new run is a positive number. *)
LEMMA StampFact == Cardinality(Created) \in Nat
<1>1. IsFiniteSet(Created)
  BY RunIdsAssumption, FS_Subset DEF Created
<1> QED
  BY <1>1, FS_CardinalityType
---------------------------------------------------------------------------
LEMMA InitIInv == Init => IInv
BY DEF Init, IInv, TypeOK, DownIsEmpty, ActiveInMemory, FreshHasNoTrace,
       NoJournalNoRows, JournalNeverAhead, Attended, Active, RowStates

(* The insertion that both outcomes of create start with. *)
LEMMA InsertFacts ==
    ASSUME TypeOK, NEW r \in RunIds, NEW p \in Providers, Insert(r, p)
    PROVE  /\ run' \in [RunIds -> RunObject \cup {NoRun}]
           /\ born' \in [RunIds -> Nat]
           /\ \A q \in RunIds : Fresh(q)' => Fresh(q) /\ q # r
           /\ run'[r].state = "running" /\ run'[r] # NoRun
           /\ Active(r)'
           /\ \A q \in RunIds \ {r} : run'[q] = run[q]
           /\ \A q \in RunIds \ {r} : Active(q)' => Active(q)
           /\ up' = TRUE /\ up /\ seen' = seen
<1>1. Cardinality(Created) + 1 \in Nat \ {0}
  BY StampFact
<1>2. [provider |-> p, state |-> "running", cancel |-> FALSE] \in RunObject
  BY DEF RunObject
<1>3. [provider |-> p, state |-> "running", cancel |-> FALSE] # NoRun
  BY <1>2, NoRunAssumption
<1> QED
  BY <1>1, <1>2, <1>3, StateFacts DEF TypeOK, Insert, Fresh, Active, Terminal

LEMMA NextIInv == IInv /\ [Next]_vars => IInv'
<1> SUFFICES ASSUME IInv, [Next]_vars PROVE IInv'
  OBVIOUS
<1> USE DEF IInv
<1>1. ASSUME NEW r \in RunIds, NEW p \in Providers, Insert(r, p), Records(r)
      PROVE  IInv'
  <2>1. Insert(r, p) /\ TypeOK
    BY <1>1 DEF Records
  <2>2. TypeOK'
    BY <1>1, <2>1, InsertFacts DEF TypeOK, Records, RowStates
  <2>3. ActiveInMemory'
    BY <1>1, <2>1, InsertFacts DEF ActiveInMemory, Records, Active, Terminal, Excess, Finished
  <2>4. FreshHasNoTrace' /\ NoJournalNoRows' /\ DownIsEmpty'
    BY <1>1, <2>1, InsertFacts
       DEF FreshHasNoTrace, NoJournalNoRows, DownIsEmpty, Records, TypeOK
  <2>5. JournalNeverAhead'
    <3>1. journal[r] = "absent"
      BY <2>1 DEF FreshHasNoTrace, Insert
    <3>2. journal'[r] \in {"absent", "running"}
      BY <1>1, <3>1 DEF Records, TypeOK
    <3>3. \A q \in RunIds \ {r} : journal'[q] = journal[q]
      BY <1>1 DEF Records, TypeOK
    <3> QED
      BY <2>1, <3>2, <3>3, InsertFacts DEF JournalNeverAhead
  <2>6. Attended'
    <3>1. r \notin abandoned /\ r \notin held
      BY <2>1 DEF FreshHasNoTrace, Insert, TypeOK
    <3>2. \A q \in RunIds \ {r} : Active(q)' <=> Active(q)
      BY <2>1, InsertFacts DEF Active, Terminal
    <3>3. abandoned \subseteq RunIds /\ abandoned' = abandoned /\ held' = held \cup {r}
      BY <1>1 DEF TypeOK, Records
    <3> QED
      BY <2>1, <3>1, <3>2, <3>3, InsertFacts DEF Attended
  <2> QED
    BY <2>2, <2>3, <2>4, <2>5, <2>6
<1>2. ASSUME NEW r \in RunIds, NEW p \in Providers, Insert(r, p), NotRecorded(r)
      PROVE  IInv'
  <2>1. Insert(r, p) /\ TypeOK
    BY <1>2 DEF NotRecorded
  <2>2. TypeOK'
    BY <1>2, <2>1, InsertFacts DEF TypeOK, NotRecorded
  <2>3. ActiveInMemory'
    BY <1>2, <2>1, InsertFacts DEF ActiveInMemory, NotRecorded, Active, Terminal
  <2>4. FreshHasNoTrace' /\ NoJournalNoRows' /\ DownIsEmpty'
    BY <1>2, <2>1, InsertFacts
       DEF FreshHasNoTrace, NoJournalNoRows, DownIsEmpty, NotRecorded
  <2>5. JournalNeverAhead'
    <3>1. journal[r] = "absent"
      BY <2>1 DEF FreshHasNoTrace, Insert
    <3> QED
      BY <1>2, <2>1, <3>1, InsertFacts
         DEF JournalNeverAhead, NotRecorded
  <2>6. Attended'
    <3>1. r \notin abandoned /\ r \notin held
      BY <2>1 DEF FreshHasNoTrace, Insert, TypeOK
    <3>2. \A q \in RunIds \ {r} : Active(q)' <=> Active(q)
      BY <2>1, InsertFacts DEF Active, Terminal
    <3>3. abandoned \subseteq RunIds /\ abandoned' = abandoned \cup {r} /\ held' = held
      BY <1>2 DEF TypeOK, NotRecorded
    <3> QED
      BY <2>1, <3>1, <3>2, <3>3, InsertFacts DEF Attended
  <2> QED
    BY <2>2, <2>3, <2>4, <2>5, <2>6
<1>3. ASSUME NEW r \in RunIds, NEW s \in Outcomes, Finish(r, s)
      PROVE  IInv'
  <2>1. run[r] \in RunObject /\ run[r] # NoRun /\ Active(r)
    BY <1>3 DEF Finish, TypeOK, Active
  <2>2. run'[r] \in RunObject /\ run'[r].state = s /\ run'[r] # NoRun
    BY <1>3, <2>1, NoRunAssumption DEF Finish, TypeOK, RunObject
  <2>3. \A q \in RunIds \ {r} : run'[q] = run[q]
    BY <1>3 DEF Finish, TypeOK
  <2>4. ~ Active(r)' /\ (\A q \in RunIds : Active(q)' => Active(q))
    BY <2>2, <2>3, StateFacts DEF Active, Terminal
  <2>5. TypeOK'
    BY <1>3, <2>2, <2>3 DEF Finish, TypeOK, RowStates
  <2>6. ActiveInMemory' /\ DownIsEmpty' /\ NoJournalNoRows'
    BY <1>3, <2>4 DEF Finish, ActiveInMemory, DownIsEmpty, NoJournalNoRows
  <2>7. FreshHasNoTrace'
    BY <1>3, <2>1, <2>3 DEF Finish, FreshHasNoTrace, Fresh, TypeOK
  <2>8. JournalNeverAhead'
    BY <1>3, <2>4 DEF Finish, JournalNeverAhead, TypeOK
  <2>9. Attended'
    <3>1. \A q \in RunIds \ {r} : Active(q)' <=> Active(q)
      BY <2>3 DEF Active, Terminal
    <3>2. abandoned \subseteq RunIds /\ r \in held /\ UNCHANGED <<held, abandoned>>
      BY <1>3 DEF TypeOK, Finish
    <3> QED
      BY <2>4, <3>1, <3>2 DEF Attended
  <2> QED
    BY <2>5, <2>6, <2>7, <2>8, <2>9
<1>4. ASSUME NEW r \in RunIds, Cancel(r)
      PROVE  IInv'
  <2>1. r \in memory /\ run[r] \in RunObject /\ run[r] # NoRun
    BY <1>4 DEF Cancel, CancelAnswer, TypeOK
  <2>2. run'[r] \in RunObject /\ run'[r] # NoRun /\ run'[r].state = run[r].state
    BY <1>4, <2>1, NoRunAssumption DEF Cancel, TypeOK, RunObject
  <2>3. \A q \in RunIds \ {r} : run'[q] = run[q]
    BY <1>4 DEF Cancel, TypeOK
  <2>4. \A q \in RunIds : Active(q)' => Active(q)
    BY <2>1, <2>2, <2>3 DEF Active, Terminal
  <2>5. TypeOK'
    BY <1>4, <2>2, <2>3 DEF Cancel, TypeOK
  <2>6. ActiveInMemory' /\ DownIsEmpty' /\ NoJournalNoRows' /\ JournalNeverAhead'
    BY <1>4, <2>4 DEF Cancel, ActiveInMemory, DownIsEmpty, NoJournalNoRows,
                      JournalNeverAhead
  <2>7. FreshHasNoTrace'
    BY <1>4, <2>1, <2>3 DEF Cancel, FreshHasNoTrace, Fresh
  <2>8. Attended'
    <3>1. \A q \in RunIds : Active(q)' <=> Active(q)
      BY <2>1, <2>2, <2>3 DEF Active, Terminal
    <3>2. abandoned \subseteq RunIds /\ UNCHANGED <<held, abandoned>>
      BY <1>4 DEF TypeOK, Cancel
    <3> QED
      BY <3>1, <3>2 DEF Attended
  <2> QED
    BY <2>5, <2>6, <2>7, <2>8
<1>5. ASSUME NEW r \in RunIds, Get(r)
      PROVE  IInv'
  <2>1. Lookup(r) \in RowStates
    BY DEF Lookup, TypeOK, RowStates, RunObject
  <2>2. ~ Fresh(r)
    BY <1>5 DEF Get, Lookup, FreshHasNoTrace, TypeOK
  <2>3. TypeOK' /\ FreshHasNoTrace'
    BY <1>5, <2>1, <2>2 DEF Get, TypeOK, FreshHasNoTrace, Fresh
  <2>4. /\ ActiveInMemory' /\ DownIsEmpty' /\ NoJournalNoRows' /\ JournalNeverAhead'
        /\ Attended'
    BY <1>5 DEF Get, ActiveInMemory, DownIsEmpty, NoJournalNoRows,
                JournalNeverAhead, Attended, Active, Terminal
  <2> QED
    BY <2>3, <2>4
<1>6. ASSUME Crash PROVE IInv'
  BY <1>6 DEF Crash, TypeOK, ActiveInMemory, DownIsEmpty, NoJournalNoRows,
              JournalNeverAhead, FreshHasNoTrace, Attended, Active, Fresh
<1>7. ASSUME Restart PROVE IInv'
  <2>1. TypeOK' /\ FreshHasNoTrace' /\ NoJournalNoRows'
    BY <1>7 DEF Restart, TypeOK, FreshHasNoTrace, Fresh, NoJournalNoRows, RowStates
  <2>2. \A r \in RunIds : ~ Active(r)'
    BY <1>7 DEF Restart, DownIsEmpty, Active
  <2>3. Attended'
    BY <1>7, <2>2 DEF Restart, Attended, TypeOK
  <2> QED
    BY <1>7, <2>1, <2>2, <2>3 DEF Restart, ActiveInMemory, DownIsEmpty, JournalNeverAhead
<1>8. CASE UNCHANGED vars
  BY <1>8 DEF vars, TypeOK, DownIsEmpty, ActiveInMemory, FreshHasNoTrace,
              NoJournalNoRows, JournalNeverAhead, Attended, Active, Terminal, Fresh
<1>9. ASSUME NEW r \in RunIds, Abandon(r) PROVE IInv'
  <2>1. Active(r) /\ r \in held
    BY <1>9 DEF Abandon, TypeOK, Active
  <2>2. \A q \in RunIds : Active(q)' <=> Active(q)
    BY <1>9 DEF Abandon, Active, Terminal
  <2>3. TypeOK'
    BY <1>9 DEF Abandon, TypeOK
  <2>4. ActiveInMemory' /\ DownIsEmpty' /\ NoJournalNoRows' /\ JournalNeverAhead'
    BY <1>9, <2>2 DEF Abandon, ActiveInMemory, DownIsEmpty, NoJournalNoRows, JournalNeverAhead
  <2>5. FreshHasNoTrace'
    BY <1>9 DEF Abandon, FreshHasNoTrace, Fresh
  <2>6. Attended'
    <3>1. /\ abandoned \subseteq RunIds
          /\ held' = held \ {r} /\ abandoned' = abandoned \cup {r}
      BY <1>9 DEF TypeOK, Abandon
    <3> QED
      BY <2>1, <2>2, <3>1 DEF Attended
  <2> QED
    BY <2>3, <2>4, <2>5, <2>6
<1> QED
  BY <1>1, <1>2, <1>3, <1>4, <1>5, <1>6, <1>7, <1>8, <1>9 DEF Next, Create

LEMMA Invariant == Spec => []IInv
BY InitIInv, NextIInv, PTL DEF Spec

(* Every variable of the registry keeps its type. *)
THEOREM TypeCorrect == Spec => []TypeOK
BY Invariant, PTL DEF IInv

(* A run that a handler serves can be cancelled, whatever was created,      *)
(* evicted, journaled or lost before.                                       *)
THEOREM LiveRunsReachable == Spec => []LiveRunsCanBeCancelled
<1>1. IInv => LiveRunsCanBeCancelled
  BY DEF IInv, ActiveInMemory, LiveRunsCanBeCancelled, CancelAnswer, Active
<1> QED
  BY <1>1, Invariant, PTL

(* The journal never says of a run in flight that it is over. *)
THEOREM JournalFollows == Spec => []JournalNeverAhead
BY Invariant, PTL DEF IInv
---------------------------------------------------------------------------
(* With a journal that never fails. *)

LEMMA InitSynced == Init => Synced
BY StateFacts DEF Init, Synced, Active

LEMMA NextSynced ==
    ASSUME ~ JournalMayFail, IInv, Synced, [Next]_vars
    PROVE  Synced'
<1>a. /\ HasJournal => \A r \in memory : journal[r] = run[r].state
      /\ up => \A r \in RunIds \ memory : journal[r] # "running"
      /\ \A r \in RunIds : seen[r] \in TERMINAL_STATES =>
            /\ r \in memory => run[r].state = seen[r]
            /\ HasJournal => journal[r] = seen[r]
  BY DEF Synced
<1>b. TypeOK
  BY DEF IInv
<1>1. ASSUME NEW r \in RunIds, NEW p \in Providers, Insert(r, p), Records(r)
      PROVE  Synced'
  <2>1. Insert(r, p)
    BY <1>1 DEF Records
  <2>2. /\ run'[r].state = "running" /\ run'[r] # NoRun
        /\ \A q \in RunIds \ {r} : run'[q] = run[q] /\ (Active(q)' => Active(q))
        /\ up /\ up' = TRUE /\ seen' = seen
    BY <2>1, <1>b, InsertFacts
  <2>3. r \notin memory /\ seen[r] = "absent" /\ journal[r] = "absent"
    BY <2>1 DEF Insert, IInv, FreshHasNoTrace, TypeOK
  <2>4. /\ memory' \subseteq memory \cup {r} /\ r \in memory'
        /\ \A q \in memory \ memory' : Terminal(q)
    BY <1>1 DEF Records, Excess, Finished
  <2>5. /\ HasJournal => journal'[r] = "running"
        /\ \A q \in RunIds \ {r} : journal'[q] = journal[q]
    BY <1>1, <1>b DEF Records, TypeOK
  <2>6. HasJournal => \A q \in memory' : journal'[q] = run'[q].state
    BY <1>a, <1>b, <2>2, <2>4, <2>5 DEF TypeOK
  <2>7. \A q \in RunIds \ memory' : journal'[q] # "running"
    <3> SUFFICES ASSUME NEW q \in RunIds, q \notin memory'
                 PROVE  journal'[q] # "running"
      OBVIOUS
    <3>0. q # r
      BY <2>4
    <3>1. CASE q \in memory
      <4>1. HasJournal => journal[q] # "running"
        BY <1>a, <2>4, <3>1, StateFacts DEF Terminal
      <4>2. ~ HasJournal => journal[q] = "absent"
        BY DEF IInv, NoJournalNoRows
      <4> QED
        BY <4>1, <4>2, <3>0, <2>5
    <3>2. CASE q \notin memory
      BY <3>0, <3>2, <1>a, <2>2, <2>5
    <3> QED
      BY <3>1, <3>2
  <2>8. \A q \in RunIds : seen'[q] \in TERMINAL_STATES =>
            /\ q \in memory' => run'[q].state = seen'[q]
            /\ HasJournal => journal'[q] = seen'[q]
    BY <1>a, <2>2, <2>3, <2>4, <2>5, StateFacts
  <2> QED
    BY <2>6, <2>7, <2>8 DEF Synced
<1>2. ASSUME NEW r \in RunIds, NEW s \in Outcomes, Finish(r, s)
      PROVE  Synced'
  <2>1. /\ run[r] \in RunObject /\ Active(r) /\ r \in memory
        /\ run'[r].state = s /\ run'[r] # NoRun
        /\ \A q \in RunIds \ {r} : run'[q] = run[q]
    BY <1>2, <1>b, NoRunAssumption
       DEF Finish, TypeOK, RunObject, Active, IInv, ActiveInMemory
  <2>2. /\ HasJournal => journal'[r] = s
        /\ \A q \in RunIds \ {r} : journal'[q] = journal[q]
        /\ UNCHANGED <<up, memory, seen>>
    BY <1>2, <1>b DEF Finish, TypeOK
  <2>3. run[r].state = "running" /\ s # "running"
    BY <2>1, StateFacts DEF Active, Terminal, RunObject
  <2>4. \A q \in RunIds : Active(q)' => Active(q)
    BY <2>1 DEF Active, Terminal
  <2>5. \A q \in RunIds : seen'[q] \in TERMINAL_STATES =>
            /\ q \in memory' => run'[q].state = seen'[q]
            /\ HasJournal => journal'[q] = seen'[q]
    BY <1>a, <2>1, <2>2, <2>3, StateFacts
  <2>6. HasJournal => \A q \in memory' : journal'[q] = run'[q].state
    BY <1>a, <1>b, <2>1, <2>2 DEF TypeOK
  <2>7. up' => \A q \in RunIds \ memory' : journal'[q] # "running"
    BY <1>a, <2>1, <2>2
  <2> QED
    BY <1>a, <2>2, <2>4, <2>5, <2>6, <2>7 DEF Synced
<1>3. ASSUME NEW r \in RunIds, Cancel(r)
      PROVE  Synced'
  <2>1. /\ run'[r].state = run[r].state /\ run'[r] # NoRun /\ run[r] # NoRun
        /\ \A q \in RunIds \ {r} : run'[q] = run[q]
        /\ UNCHANGED <<up, memory, seen, journal>>
    <3>1. r \in memory /\ run[r] \in RunObject /\ run[r] # NoRun
      BY <1>3, <1>b DEF Cancel, CancelAnswer, TypeOK
    <3> QED
      BY <3>1, <1>3, <1>b, NoRunAssumption DEF Cancel, TypeOK, RunObject
  <2>2. \A q \in RunIds : run'[q].state = run[q].state /\ (Active(q)' => Active(q))
    BY <2>1 DEF Active, Terminal
  <2> QED
    BY <1>a, <1>b, <2>1, <2>2 DEF Synced, TypeOK
<1>4. ASSUME NEW r \in RunIds, Get(r)
      PROVE  Synced'
  <2>1. /\ \A q \in RunIds \ {r} : seen'[q] = seen[q]
        /\ seen'[r] = Lookup(r)
        /\ UNCHANGED <<up, run, memory, journal>>
    BY <1>4, <1>b DEF Get, TypeOK
  <2>2. /\ r \in memory => Lookup(r) = run[r].state
        /\ HasJournal => Lookup(r) = journal[r]
    BY <1>a DEF Lookup
  <2>3. \A q \in RunIds : Active(q)' => Active(q)
    BY <2>1 DEF Active, Terminal
  <2>4. \A q \in RunIds : seen'[q] \in TERMINAL_STATES =>
            /\ q \in memory' => run'[q].state = seen'[q]
            /\ HasJournal => journal'[q] = seen'[q]
    BY <1>a, <2>1, <2>2
  <2> QED
    BY <1>a, <2>1, <2>3, <2>4 DEF Synced
<1>5. ASSUME Crash PROVE Synced'
  BY <1>5, <1>a DEF Crash, Synced, Active
<1>6. ASSUME Restart PROVE Synced'
  <2>1. memory = {} /\ \A r \in RunIds : run[r] = NoRun
    BY <1>6, <1>b DEF Restart, TypeOK, IInv, DownIsEmpty
  <2>2. \A r \in RunIds : journal'[r] # "running"
    BY <1>6, StateFacts DEF Restart
  <2>3. \A r \in RunIds : journal[r] \in TERMINAL_STATES => journal'[r] = journal[r]
    BY <1>6 DEF Restart
  <2> QED
    BY <1>a, <1>6, <2>1, <2>2, <2>3 DEF Restart, Synced, Active
<1>7. CASE UNCHANGED vars
  BY <1>7, <1>a DEF vars, Synced, Active, Terminal
<1>8. \A r \in RunIds : ~ NotRecorded(r)
  BY DEF NotRecorded
<1>9. ASSUME NEW r \in RunIds, Abandon(r) PROVE Synced'
  BY <1>9, <1>a DEF Abandon, Synced
<1> QED
  BY <1>1, <1>2, <1>3, <1>4, <1>5, <1>6, <1>7, <1>8, <1>9 DEF Next, Create

LEMMA SyncInvariant == ~ JournalMayFail => (Spec => [](IInv /\ Synced))
<1> SUFFICES ASSUME ~ JournalMayFail PROVE Spec => [](IInv /\ Synced)
  OBVIOUS
<1>1. IInv /\ Synced /\ [Next]_vars => Synced'
  BY NextSynced
<1> QED
  BY <1>1, InitIInv, NextIInv, InitSynced, PTL DEF Spec

(* Only an abandoned run is left dangling as running: of any other, GET     *)
(* answers "running" only while a handler of this process serves it.        *)
THEOREM OnlyTheAbandonedDangle ==
    ~ JournalMayFail => (Spec => []RunningIsServedOrAbandoned)
<1>1. IInv /\ Synced => RunningIsServedOrAbandoned
  <2> SUFFICES ASSUME IInv, Synced, up, NEW r \in RunIds, Lookup(r) = "running"
               PROVE  Active(r) /\ r \in held \cup abandoned
    BY DEF RunningIsServedOrAbandoned
  <2>1. r \in memory
    BY DEF Lookup, Synced
  <2>2. Active(r)
    BY <2>1, StateFacts DEF Lookup, Active, Terminal, IInv, TypeOK
  <2> QED
    BY <2>2 DEF IInv, Attended
<1> QED
  BY <1>1, SyncInvariant, PTL

(* active_count, the load that placement sees, is what is served and what   *)
(* was abandoned, each run once, whatever the journal refuses.              *)
THEOREM LoadIsAccountedFor == Spec => []LoadIsServedOrAbandoned
<1>1. IInv => LoadIsServedOrAbandoned
  <2> SUFFICES ASSUME IInv, NEW p \in Providers
               PROVE  ActiveCount(p) =
                        Cardinality({r \in held : Active(r) /\ run[r].provider = p})
                        + Cardinality({r \in abandoned : run[r].provider = p})
    BY DEF LoadIsServedOrAbandoned
  <2> DEFINE Served == {r \in held : Active(r) /\ run[r].provider = p}
             Left   == {r \in abandoned : run[r].provider = p}
  <2>1. \A r \in RunIds : Active(r) => (r \in memory /\ r \in held \cup abandoned)
    BY DEF IInv, ActiveInMemory, Attended
  <2>2. memory \subseteq RunIds /\ held \subseteq RunIds /\ abandoned \subseteq RunIds
    BY DEF IInv, TypeOK
  <2>3. \A r \in abandoned : Active(r) /\ r \notin held
    BY DEF IInv, Attended
  <2>4. {r \in memory : Active(r) /\ run[r].provider = p} = Served \cup Left
    BY <2>1, <2>2, <2>3
  <2>5. Served \cap Left = {}
    BY <2>3
  <2>6. Served \subseteq RunIds /\ Left \subseteq RunIds
    BY <2>2
  <2> HIDE DEF Served, Left
  <2>7. IsFiniteSet(Served) /\ IsFiniteSet(Left)
    BY <2>6, RunIdsAssumption, FS_Subset
  <2>8. Cardinality(Served \cup Left)
          = Cardinality(Served) + Cardinality(Left) - Cardinality(Served \cap Left)
    BY <2>7, FS_Union
  <2>9. Cardinality(Served) \in Nat /\ Cardinality(Left) \in Nat /\ Cardinality({}) = 0
    BY <2>7, FS_CardinalityType, FS_EmptySet
  <2>10. ActiveCount(p) = Cardinality(Served \cup Left)
    BY <2>4 DEF ActiveCount
  <2>11. Cardinality(Served \cup Left) = Cardinality(Served) + Cardinality(Left)
    <3>1. Cardinality(Served \cap Left) = 0
      BY <2>5, <2>9
    <3> HIDE <2>5
    <3> QED
      BY <2>8, <2>9, <3>1
  <2> QED
    BY <2>10, <2>11 DEF Served, Left
<1> QED
  BY <1>1, Invariant, PTL

(* A terminal answer is final, over evictions, crashes and restarts.        *)
THEOREM TerminalAnswersAreFinal == ~ JournalMayFail => (Spec => AnswersAreFinal)
<1>1. IInv /\ Synced /\ [Next]_vars =>
        [\A r \in RunIds : seen[r] \in TERMINAL_STATES => seen'[r] = seen[r]]_vars
  <2> SUFFICES ASSUME IInv, Synced, Next,
                      NEW r \in RunIds, seen[r] \in TERMINAL_STATES
               PROVE  seen'[r] = seen[r]
    OBVIOUS
  <2>1. CASE Get(r)
    <3>1. Lookup(r) # "absent" /\ seen'[r] = Lookup(r)
      BY <2>1 DEF Get, IInv, TypeOK
    <3> QED
      BY <3>1 DEF Lookup, Synced
  <2>2. ASSUME NEW q \in RunIds \ {r}, Get(q)
        PROVE  seen'[r] = seen[r]
    BY <2>2 DEF Get, IInv, TypeOK
  <2>3. ASSUME ~ (\E q \in RunIds : Get(q))
        PROVE  seen' = seen
    BY <2>3 DEF Next, Create, Records, NotRecorded, Insert, Finish, Abandon, Cancel, Crash, Restart
  <2> QED
    BY <2>1, <2>2, <2>3
<1> QED
  BY <1>1, SyncInvariant, PTL DEF Spec, AnswersAreFinal
---------------------------------------------------------------------------
(* The refinement: with a journal that never fails, the client's view is    *)
(* the state column of the journal, at every moment.                        *)

ClientView == [r \in RunIds |-> IF up THEN Lookup(r) ELSE journal[r]]

LEMMA ViewIsJournal ==
    ASSUME HasJournal, IInv, Synced PROVE ClientView = journal
<1>1. \A r \in RunIds : r \in memory => run[r].state = journal[r]
  BY DEF Synced
<1>2. journal = [r \in RunIds |-> journal[r]]
  BY DEF IInv, TypeOK
<1> QED
  BY <1>1, <1>2 DEF ClientView, Lookup

(* Create opens a run, finish settles it, a restart interrupts all that      *)
(* were running, and no other step shows.                                   *)
LEMMA StepRefines ==
    ASSUME HasJournal, ~ JournalMayFail, IInv, Synced, IInv', Synced', [Next]_vars
    PROVE  [Ledger!Next]_ClientView
<1>a. ClientView = journal
  BY ViewIsJournal
<1>b. ClientView' = journal'
  <2>1. \A r \in RunIds : r \in memory' => run'[r].state = journal'[r]
    BY DEF Synced
  <2>2. journal' = [r \in RunIds |-> journal'[r]]
    BY DEF IInv, TypeOK
  <2> QED
    BY <2>1, <2>2 DEF ClientView, Lookup
<1>c. journal \in [RunIds -> RowStates]
  BY DEF IInv, TypeOK
<1>1. ASSUME NEW r \in RunIds, NEW p \in Providers, Insert(r, p), Records(r)
      PROVE  Ledger!Open(r)
  <2>1. journal[r] = "absent"
    BY <1>1 DEF Records, Insert, IInv, FreshHasNoTrace
  <2>2. journal' = [journal EXCEPT ![r] = "running"]
    BY <1>1 DEF Records
  <2> QED
    BY <1>a, <1>b, <2>1, <2>2 DEF Ledger!Open, ClientView
<1>2. ASSUME NEW r \in RunIds, NEW s \in Outcomes, Finish(r, s)
      PROVE  Ledger!Settle(r, s)
  <2>1. r \in memory /\ run[r].state = "running"
    BY <1>2, StateFacts
       DEF Finish, IInv, TypeOK, ActiveInMemory, Active, Terminal, RunObject
  <2>2. journal[r] = "running"
    BY <2>1 DEF Synced
  <2>3. journal' = [journal EXCEPT ![r] = s]
    BY <1>2 DEF Finish
  <2> QED
    BY <1>a, <1>b, <2>2, <2>3 DEF Ledger!Settle, ClientView
<1>3. ASSUME Restart
      PROVE  Ledger!InterruptAll
  <2>1. \A r \in RunIds : journal[r] \in TERMINAL_STATES \cup {"absent"}
                          <=> journal[r] # "running"
    BY <1>c, StateFacts DEF RowStates
  <2>2. journal' = [r \in RunIds |->
                      IF journal[r] = "running" THEN "interrupted" ELSE journal[r]]
    BY <1>3, <2>1 DEF Restart
  <2> QED
    BY <1>a, <1>b, <2>2 DEF Ledger!InterruptAll, ClientView
<1>4. ASSUME \/ \E r \in RunIds : Abandon(r) \/ Cancel(r) \/ Get(r)
             \/ Crash
             \/ UNCHANGED vars
      PROVE  UNCHANGED ClientView
  BY <1>4, <1>a, <1>b DEF Abandon, Cancel, Get, Crash, vars
<1>5. \A r \in RunIds : ~ NotRecorded(r)
  BY DEF NotRecorded
<1> QED
  BY <1>1, <1>2, <1>3, <1>4, <1>5 DEF Next, Create, Ledger!Next

(* With a journal that does not fail, the registry with its evictions, its  *)
(* crashes and its reconciliation gives every client the ledger it was      *)
(* promised.                                                                *)
THEOREM RegistryImplementsLedger ==
    HasJournal /\ ~ JournalMayFail => (Spec => ImplementsLedger)
<1> SUFFICES ASSUME HasJournal, ~ JournalMayFail
             PROVE  Spec => ImplementsLedger
  OBVIOUS
<1>1. Init => Ledger!Init
  BY DEF Init, Ledger!Init, Lookup
<1>2. IInv /\ Synced /\ (IInv /\ Synced)' /\ [Next]_vars
        => [Ledger!Next]_ClientView
  BY StepRefines
<1>3. Spec => [](IInv /\ Synced)
  BY SyncInvariant
<1> QED
  BY <1>1, <1>2, <1>3, PTL DEF Spec, ImplementsLedger, Ledger!Spec, ClientView
---------------------------------------------------------------------------
(* The history. *)

(* Stamps tell the runs apart, and a new run gets one beyond all of them.    *)
Stamped ==
    /\ \A r \in RunIds : born[r] <= Cardinality(Created)
    /\ \A q, r \in Created : born[q] = born[r] => q = r

LEMMA StampedInvariant == Spec => []Stamped
<1>1. Init => Stamped
  BY StampFact DEF Init, Stamped, Created
<1>2. ASSUME Stamped, TypeOK, [Next]_vars PROVE Stamped'
  <2>1. ASSUME NEW r \in RunIds, NEW p \in Providers, Insert(r, p) PROVE Stamped'
    <3> DEFINE n == Cardinality(Created)
    <3>1. /\ born'[r] = n + 1
          /\ \A q \in RunIds \ {r} : born'[q] = born[q]
          /\ r \notin Created
      <4>1. born \in [RunIds -> Nat] /\ born[r] = 0
        BY <1>2, <2>1 DEF Insert, Fresh, TypeOK
      <4>2. born' = [born EXCEPT ![r] = n + 1]
        BY <2>1 DEF Insert
      <4> QED
        BY <4>1, <4>2 DEF Created
    <3>2. n \in Nat /\ born \in [RunIds -> Nat]
      BY StampFact, <1>2 DEF TypeOK
    <3>3. Created' = Created \cup {r}
      BY <3>1, <3>2 DEF Created
    <3>4. IsFiniteSet(Created)
      BY RunIdsAssumption, FS_Subset DEF Created
    <3>5. Cardinality(Created') = n + 1
      BY <3>1, <3>3, <3>4, FS_AddElement
    <3>6. \A q \in RunIds : born[q] <= n
      BY <1>2 DEF Stamped
    <3>7. \A q \in Created : q \in RunIds /\ q # r /\ born'[q] = born[q] /\ born[q] < n + 1
      BY <3>1, <3>2, <3>6 DEF Created
    <3> HIDE DEF n
    <3>8. \A q \in RunIds : born'[q] <= n + 1
      BY <3>1, <3>2, <3>6
    <3>9. \A q, k \in Created' : born'[q] = born'[k] => q = k
      BY <1>2, <3>1, <3>2, <3>3, <3>7 DEF Stamped
    <3> QED
      BY <3>5, <3>8, <3>9 DEF Stamped
  <2>2. ASSUME born' = born PROVE Stamped'
    BY <1>2, <2>2 DEF Stamped, Created
  <2>3. (\E r \in RunIds, p \in Providers : Create(r, p)) \/ born' = born
    BY <1>2 DEF Next, Finish, Abandon, Cancel, Get, Crash, Restart, vars
  <2> QED
    BY <2>1, <2>2, <2>3 DEF Create
<1> QED
  BY <1>1, <1>2, TypeCorrect, PTL DEF Spec

(* The finished runs that are not older than r, itself among them: how many *)
(* they are is what decides whether r is evicted.                           *)
NotOlder(r) == {q \in Finished : born[q] >= born[r]}

LEMMA HistorySizes ==
    ASSUME TypeOK
    PROVE  /\ IsFiniteSet(Finished) /\ IsFiniteSet(Finished \ Excess)
           /\ Cardinality(Finished \ Excess) \in Nat
           /\ \A r : IsFiniteSet(NotOlder(r)) /\ Cardinality(NotOlder(r)) \in Nat
           /\ Finished \subseteq RunIds /\ Excess \subseteq Finished
           /\ \A r \in Finished : born[r] \in Nat
<1>1. Finished \subseteq RunIds /\ Excess \subseteq Finished
  BY DEF TypeOK, Finished, Excess
<1>2. IsFiniteSet(Finished)
  BY <1>1, RunIdsAssumption, FS_Subset
<1>3. \A S \in SUBSET Finished : IsFiniteSet(S) /\ Cardinality(S) \in Nat
  BY <1>2, FS_Subset, FS_CardinalityType
<1>4. \A r : NotOlder(r) \in SUBSET Finished
  BY DEF NotOlder
<1>5. Finished \ Excess \in SUBSET Finished
  OBVIOUS
<1> QED
  BY <1>1, <1>2, <1>3, <1>4, <1>5 DEF TypeOK

(* What is evicted is older than all that is kept. *)
LEMMA EvictedAreOlder ==
    ASSUME TypeOK, NEW e \in Excess, NEW k \in Finished \ Excess
    PROVE  born[e] < born[k]
<1>1. e \in Finished /\ born[e] \in Nat /\ born[k] \in Nat
  BY HistorySizes
<1>2. SUFFICES ASSUME born[k] <= born[e] PROVE FALSE
  BY <1>1
<1>3. NotOlder(e) \in SUBSET NotOlder(k)
  <2> SUFFICES ASSUME NEW q \in NotOlder(e) PROVE q \in NotOlder(k)
    OBVIOUS
  <2>1. q \in Finished /\ born[q] >= born[e] /\ born[q] \in Nat
    BY HistorySizes DEF NotOlder
  <2> QED
    BY <1>1, <1>2, <2>1 DEF NotOlder
<1>4. Cardinality(NotOlder(e)) <= Cardinality(NotOlder(k))
  BY <1>3, HistorySizes, FS_Subset
<1>5. Cardinality(NotOlder(e)) > HistoryLimit /\ ~ Cardinality(NotOlder(k)) > HistoryLimit
  BY DEF Excess, NotOlder
<1>6. /\ Cardinality(NotOlder(e)) \in Nat /\ Cardinality(NotOlder(k)) \in Nat
      /\ HistoryLimit \in Nat
  BY HistorySizes, LimitAssumption
<1> QED
  BY <1>4, <1>5, <1>6

(* Of the runs of a set that is not empty, one has the least mark. *)
LEMMA LeastExists ==
    ASSUME NEW S, S # {}, NEW f \in [S -> Nat]
    PROVE  \E r \in S : \A q \in S : f[r] <= f[q]
<1> DEFINE R     == OpToRel(<, Nat)
           marks == {f[r] : r \in S}
<1>1. IsWellFoundedOn(R, Nat)
  BY NatLessThanWellFounded
<1>2. R = {ss \in Nat \X Nat : ss[1] < ss[2]}
  BY DEF OpToRel
<1>3. marks \subseteq Nat /\ marks # {}
  OBVIOUS
<1> HIDE DEF R, marks
<1>4. PICK m \in marks : \A n \in marks : ~ (<<n, m>> \in R)
  BY <1>1, <1>3, WFMin
<1>5. PICK r \in S : m = f[r]
  BY DEF marks
<1>6. ASSUME NEW q \in S PROVE f[r] <= f[q]
  <2>1. f[q] \in marks /\ f[q] \in Nat /\ f[r] \in Nat
    BY DEF marks
  <2>2. ~ (f[q] < f[r])
    BY <1>2, <1>4, <1>5, <2>1
  <2> QED
    BY <2>1, <2>2
<1> QED
  BY <1>6

(* What is kept is within the limit: nothing kept is older than the oldest  *)
(* kept run, which was counted.                                             *)
LEMMA KeptWithinLimit ==
    ASSUME TypeOK
    PROVE  Cardinality(Finished \ Excess) <= HistoryLimit
<1> DEFINE Kept == Finished \ Excess
<1>1. CASE Kept = {}
  BY <1>1, FS_EmptySet, LimitAssumption
<1>2. CASE Kept # {}
  <2>1. [r \in Kept |-> born[r]] \in [Kept -> Nat]
    BY HistorySizes
  <2>2. PICK k \in Kept : \A q \in Kept : born[k] <= born[q]
    BY <1>2, <2>1, LeastExists
  <2>3. Kept \in SUBSET NotOlder(k)
    BY <2>2, HistorySizes DEF NotOlder
  <2>4. Cardinality(Kept) <= Cardinality(NotOlder(k))
    BY <2>3, HistorySizes, FS_Subset
  <2>5. ~ Cardinality(NotOlder(k)) > HistoryLimit
    BY DEF Excess, NotOlder
  <2>6. /\ Cardinality(Kept) \in Nat /\ Cardinality(NotOlder(k)) \in Nat
        /\ HistoryLimit \in Nat
    BY HistorySizes, LimitAssumption
  <2> QED
    BY <2>4, <2>5, <2>6
<1> QED
  BY <1>1, <1>2

(* If anything is evicted, as many are kept as may be: the newest of the    *)
(* evicted was counted with the kept ones only.                             *)
LEMMA NoMoreThanNeeded ==
    ASSUME TypeOK, Stamped, FreshHasNoTrace, Excess # {}
    PROVE  Cardinality(Finished \ Excess) = HistoryLimit
<1> DEFINE Kept == Finished \ Excess
<1>1. [r \in Excess |-> Cardinality(NotOlder(r))] \in [Excess -> Nat]
  BY HistorySizes
<1>2. PICK e \in Excess :
         \A q \in Excess : Cardinality(NotOlder(e)) <= Cardinality(NotOlder(q))
  <2> DEFINE f == [r \in Excess |-> Cardinality(NotOlder(r))]
  <2>1. f \in [Excess -> Nat]
    BY <1>1
  <2>2. \A r \in Excess : f[r] = Cardinality(NotOlder(r))
    OBVIOUS
  <2> HIDE DEF f
  <2>3. PICK r \in Excess : \A q \in Excess : f[r] <= f[q]
    BY <2>1, LeastExists
  <2> QED
    BY <2>2, <2>3
<1>3. ASSUME NEW q \in NotOlder(e), q \in Excess PROVE q = e
  <2> SUFFICES ASSUME q # e PROVE FALSE
    OBVIOUS
  <2>1. q \in Finished /\ e \in Finished /\ born[q] >= born[e]
    BY HistorySizes DEF NotOlder
  <2>2. born[q] \in Nat /\ born[e] \in Nat
    BY <2>1, HistorySizes
  <2>3. q \in Created /\ e \in Created
    BY <2>1 DEF TypeOK, Finished, FreshHasNoTrace, Fresh, Created
  <2>4. born[q] > born[e]
    BY <2>1, <2>2, <2>3 DEF Stamped
  <2>5. NotOlder(q) \in SUBSET NotOlder(e)
    <3> SUFFICES ASSUME NEW k \in NotOlder(q) PROVE k \in NotOlder(e)
      OBVIOUS
    <3>1. k \in Finished /\ born[k] >= born[q] /\ born[k] \in Nat
      BY HistorySizes DEF NotOlder
    <3> QED
      BY <2>2, <2>4, <3>1 DEF NotOlder
  <2>6. e \in NotOlder(e) /\ e \notin NotOlder(q)
    BY <2>1, <2>2, <2>4 DEF NotOlder
  <2>7. /\ Cardinality(NotOlder(q)) <= Cardinality(NotOlder(e))
        /\ Cardinality(NotOlder(e)) # Cardinality(NotOlder(q))
    BY <2>5, <2>6, HistorySizes, FS_Subset
  <2>8. Cardinality(NotOlder(q)) \in Nat /\ Cardinality(NotOlder(e)) \in Nat
    BY HistorySizes
  <2> QED
    BY <1>2, <1>3, <2>7, <2>8
<1>4. NotOlder(e) \in SUBSET (Kept \cup {e})
  BY <1>3 DEF NotOlder
<1>5. /\ IsFiniteSet(Kept \cup {e})
      /\ Cardinality(Kept \cup {e}) = Cardinality(Kept) + 1
  <2>1. IsFiniteSet(Kept) /\ e \notin Kept
    BY HistorySizes
  <2> QED
    BY <2>1, FS_AddElement
<1>6. Cardinality(NotOlder(e)) <= Cardinality(Kept) + 1
  BY <1>4, <1>5, FS_Subset
<1>7. Cardinality(NotOlder(e)) > HistoryLimit
  BY DEF Excess, NotOlder
<1>8. /\ Cardinality(Kept) \in Nat /\ Cardinality(NotOlder(e)) \in Nat
      /\ HistoryLimit \in Nat
  BY HistorySizes, LimitAssumption
<1>9. Cardinality(Kept) <= HistoryLimit
  BY KeptWithinLimit
<1> QED
  BY <1>6, <1>7, <1>8, <1>9

(* For every limit, a create leaves no more finished runs than the limit,   *)
(* evicts only finished runs, the oldest, and no more than it has to,       *)
(* whatever the journal refused before.                                     *)
THEOREM HistoryKeepsTheNewest == Spec => TrimKeepsTheNewest
<1> DEFINE Trims ==
      \A r \in RunIds, p \in Providers : Insert(r, p) /\ Records(r) =>
         /\ Cardinality(Finished') <= HistoryLimit
         /\ \A e \in memory \ memory' :
              /\ e \in Finished
              /\ Cardinality(Finished') = HistoryLimit
              /\ \A k \in Finished' : born[e] < born[k]
<1>1. ASSUME IInv, Stamped PROVE Trims
  <2> SUFFICES ASSUME NEW r \in RunIds, NEW p \in Providers, Insert(r, p), Records(r)
               PROVE  /\ Cardinality(Finished') <= HistoryLimit
                      /\ \A e \in memory \ memory' :
                           /\ e \in Finished
                           /\ Cardinality(Finished') = HistoryLimit
                           /\ \A k \in Finished' : born[e] < born[k]
    OBVIOUS
  <2>1. TypeOK /\ FreshHasNoTrace
    BY <1>1 DEF IInv
  <2>2. /\ r \notin memory
        /\ run'[r].state \notin TERMINAL_STATES
        /\ \A q \in RunIds \ {r} : run'[q] = run[q]
    BY <2>1, StateFacts DEF Insert, TypeOK, FreshHasNoTrace
  <2>3. Finished' = Finished \ Excess
    BY <2>1, <2>2 DEF Records, Finished, Terminal, TypeOK
  <2>4. \A e \in memory \ memory' : e \in Excess
    BY DEF Records
  <2>5. Cardinality(Finished') <= HistoryLimit
    BY <2>1, <2>3, KeptWithinLimit
  <2>6. ASSUME NEW e \in Excess
        PROVE  /\ e \in Finished
               /\ Cardinality(Finished') = HistoryLimit
               /\ \A k \in Finished' : born[e] < born[k]
    <3>1. Cardinality(Finished') = HistoryLimit
      BY <1>1, <2>1, <2>3, NoMoreThanNeeded
    <3> QED
      BY <2>1, <2>3, <3>1, EvictedAreOlder DEF Excess
  <2> QED
    BY <2>4, <2>5, <2>6
<1>2. IInv /\ Stamped => [Trims]_vars
  BY <1>1
<1> QED
  BY <1>2, Invariant, StampedInvariant, PTL DEF TrimKeepsTheNewest
===========================================================================
