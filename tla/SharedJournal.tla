--------------------------- MODULE SharedJournal ---------------------------
(***************************************************************************)
(* Two processes over one journal file, as a rolling restart has them: the *)
(* new process starts, and reconciles, while the old one still serves.     *)
(* Two instances of Runs share the rows; between them stands what SQLite   *)
(* (external) makes of their connections.                                  *)
(*                                                                         *)
(* record does not roll back: an INSERT that is refused because the other  *)
(* connection holds the write lock leaves the implicit transaction begun.  *)
(* The next SELECT of that connection pins its snapshot (WAL), and a later *)
(* commit of the other one overtakes it: from then on the connection reads *)
(* the past, and every INSERT on it is refused.                            *)
(***************************************************************************)
EXTENDS Naturals, FiniteSets

CONSTANTS RunIds, Providers, Outcomes, HistoryLimit, NoRun,   \* as in Runs
          JournalMayFail    \* the write lock may be held for longer than the timeout

HasJournal == TRUE
Processes  == {"A", "B"}

VARIABLES
    upA, runA, memoryA, heldA, abandonedA,    \* the one process (see Runs)
    upB, runB, memoryB, heldB, abandonedB,    \* the other
    born,                                     \* the insertion order of the runs of both
    journal,                                  \* the committed rows
    orphans,  \* process |-> what reconcile selected and has not updated yet, or NotScanning
    conn,     \* process |-> "clean", "begun", "pinned" or "overtaken"
    past,     \* process |-> the rows that an overtaken connection reads
    seen,     \* history: the state that GET /runs/{id}, of either process, last answered
    lost      \* history: runs whose final write was refused

varsA  == <<upA, runA, memoryA, heldA, abandonedA>>
varsB  == <<upB, runB, memoryB, heldB, abandonedB>>
vars   == <<varsA, varsB, born, journal, orphans, conn, past, seen, lost>>

A == INSTANCE Runs WITH
       up <- upA, run <- runA, memory <- memoryA, held <- heldA, abandoned <- abandonedA
B == INSTANCE Runs WITH
       up <- upB, run <- runB, memory <- memoryB, held <- heldB, abandoned <- abandonedB

(* What Runs assumes, here of the two instances. *)
ASSUME SharedAssumption ==
    /\ IsFiniteSet(RunIds) /\ HistoryLimit \in Nat /\ JournalMayFail \in BOOLEAN
    /\ Outcomes \subseteq {"succeeded", "failed", "cancelled", "disconnected"}
    /\ NoRun \notin A!RunObject

NotScanning == {"none"}
Unread == [r \in RunIds |-> "absent"]

Init ==
    /\ A!Init
    /\ upB = FALSE /\ runB = [r \in RunIds |-> NoRun] /\ memoryB = {} /\ heldB = {}
    /\ abandonedB = {}
    /\ orphans = [p \in Processes |-> NotScanning]
    /\ conn = [p \in Processes |-> "clean"]
    /\ past = [p \in Processes |-> Unread]
    /\ lost = {}

---------------------------------------------------------------------------
(* The connections. *)

(* A commit of p ends its transaction and overtakes a pinned other one. *)
Committed(p) ==
    /\ conn[p] # "overtaken"
    /\ conn' = [q \in Processes |->
                  IF q = p THEN "clean"
                  ELSE IF conn[q] = "pinned" THEN "overtaken" ELSE conn[q]]
    /\ past' = [q \in Processes |->
                  IF q # p /\ conn[q] = "pinned" THEN journal ELSE past[q]]

(* A write of p is refused, and the transaction stays as far as it got. *)
Refused(p) ==
    /\ conn' = [conn EXCEPT ![p] = IF @ = "clean" THEN "begun" ELSE @]
    /\ UNCHANGED past

(* What record makes of the connection, whichever way it ended. *)
Recorded(p) ==
    /\ IF journal' = journal THEN Refused(p) ELSE Committed(p)
    /\ UNCHANGED orphans

(* The rows that the connection of p reads. *)
Rows(p) == IF conn[p] = "overtaken" THEN past[p] ELSE journal

(* get: memory, then the SELECT of load, which pins the snapshot of a begun *)
(* transaction; a 404 shows the client no state.                            *)
Ask(p, r) ==
    LET inMemory == IF p = "A" THEN r \in memoryA ELSE r \in memoryB
        answer   == CASE ~ inMemory -> Rows(p)[r]
                      [] inMemory /\ p = "A" -> runA[r].state
                      [] inMemory /\ p = "B" -> runB[r].state
    IN /\ IF p = "A" THEN upA ELSE upB
       /\ seen' = IF answer = "absent" THEN seen ELSE [seen EXCEPT ![r] = answer]
       /\ conn' = IF ~ inMemory /\ conn[p] = "begun" THEN [conn EXCEPT ![p] = "pinned"] ELSE conn
       /\ UNCHANGED <<varsA, varsB, born, journal, orphans, past, lost>>

---------------------------------------------------------------------------
(* The operations of each registry that write; the other stands still. *)
StepsA ==
    /\ UNCHANGED varsB
    /\ \/ /\ \E r \in RunIds, p \in Providers : A!Create(r, p)
          /\ Recorded("A") /\ UNCHANGED lost
       \/ \E r \in RunIds, s \in Outcomes :
             /\ A!Finish(r, s) /\ Recorded("A")
             /\ lost' = IF journal' = journal THEN lost \cup {r} ELSE lost
       \/ /\ \E r \in RunIds : A!Abandon(r) \/ A!Cancel(r)
          /\ UNCHANGED <<orphans, conn, past, lost>>

StepsB ==
    /\ UNCHANGED varsA
    /\ \/ /\ \E r \in RunIds, p \in Providers : B!Create(r, p)
          /\ Recorded("B") /\ UNCHANGED lost
       \/ \E r \in RunIds, s \in Outcomes :
             /\ B!Finish(r, s) /\ Recorded("B")
             /\ lost' = IF journal' = journal THEN lost \cup {r} ELSE lost
       \/ /\ \E r \in RunIds : B!Abandon(r) \/ B!Cancel(r)
          /\ UNCHANGED <<orphans, conn, past, lost>>

(* A process dies; its connection and the snapshot go with it. *)
Crash(p) ==
    /\ IF p = "A" THEN A!Crash /\ UNCHANGED varsB ELSE B!Crash /\ UNCHANGED varsA
    /\ conn' = [conn EXCEPT ![p] = "clean"]
    /\ past' = [past EXCEPT ![p] = Unread]
    /\ UNCHANGED <<orphans, lost>>

(* reconcile, its SELECT; the rows may move before the UPDATE. *)
Scan(p) ==
    /\ IF p = "A" THEN ~ upA ELSE ~ upB
    /\ orphans[p] = NotScanning
    /\ orphans' = [orphans EXCEPT ![p] = {r \in RunIds : journal[r] = "running"}]
    /\ UNCHANGED <<varsA, varsB, born, journal, conn, past, seen, lost>>

(* Mutant: an UPDATE of the rows that were selected, whatever they say now. *)
UpdateOfSelected(selected) ==
    [r \in RunIds |-> IF r \in selected THEN "interrupted" ELSE journal[r]]

(* Its UPDATE, which looks at the state of the rows again. *)
Updated(selected) ==
    [r \in RunIds |-> IF selected # {} /\ journal[r] = "running" THEN "interrupted"
                      ELSE journal[r]]

(* The process is up once its registry is built. *)
Reconcile(p) ==
    /\ orphans[p] # NotScanning
    /\ journal' = Updated(orphans[p])
    /\ IF journal' = journal THEN UNCHANGED <<conn, past>> ELSE Committed(p)
    /\ orphans' = [orphans EXCEPT ![p] = NotScanning]
    /\ IF p = "A" THEN upA' = TRUE /\ UNCHANGED upB ELSE upB' = TRUE /\ UNCHANGED upA
    /\ UNCHANGED <<runA, memoryA, heldA, abandonedA, runB, memoryB, heldB, abandonedB>>
    /\ UNCHANGED <<born, seen, lost>>

(* A refused UPDATE raises out of the constructor: the start fails. *)
ReconcileFails(p) ==
    /\ JournalMayFail
    /\ orphans[p] \notin {NotScanning, {}}
    /\ orphans' = [orphans EXCEPT ![p] = NotScanning]
    /\ UNCHANGED <<varsA, varsB, born, journal, conn, past, seen, lost>>

Next ==
    \/ StepsA \/ StepsB
    \/ \E p \in Processes : \/ (\E r \in RunIds : Ask(p, r)) \/ Crash(p)
                            \/ Scan(p) \/ Reconcile(p) \/ ReconcileFails(p)

Spec == Init /\ [][Next]_vars
---------------------------------------------------------------------------
(* PROPERTIES *)

(* The truth wins: whatever the start of another process made of the row of *)
(* a live run, once the process that served it has finished it, and its     *)
(* write was not refused, the row says how it ended, and goes on saying so  *)
(* while the run is in memory (runs.py:98-116, 186-193).                    *)
TruthWins ==
    \A r \in RunIds \ lost :
        /\ r \in memoryA /\ A!Terminal(r) => journal[r] = runA[r].state
        /\ r \in memoryB /\ B!Terminal(r) => journal[r] = runB[r].state

(* A row only moves forward, whoever writes it and however stale what they  *)
(* read: absent, running, interrupted, outcome; an outcome is for ever.     *)
Rank(row) == CASE row = "absent" -> 0 [] row = "running" -> 1
               [] row = "interrupted" -> 2 [] row \in Outcomes -> 3
RowsMoveForward ==
    [][\A r \in RunIds : journal'[r] # journal[r] => Rank(journal'[r]) > Rank(journal[r])]_vars

(* Each process can cancel every run it serves, although the other may have *)
(* interrupted its row, and although its own journal may read the past; and *)
(* neither claims to be cancelling, or serves, a run of the other.          *)
EachCancelsItsOwn ==
    /\ heldA \cap heldB = {}
    /\ A!LiveRunsCanBeCancelled /\ B!LiveRunsCanBeCancelled
    /\ \A r \in RunIds : ~ (A!CancelAnswer(r) = "cancelling" /\ B!CancelAnswer(r) = "cancelling")

(* The load that each process places by is made of its own runs: those it   *)
(* serves, and one for each that a handler left or a refused row stranded.  *)
(* The other's runs, and what its start makes of their rows, never count.   *)
EachCountsItsOwn ==
    A!LoadIsServedOrAbandoned /\ B!LoadIsServedOrAbandoned

(* A client that asks either process about a run is told one outcome, once  *)
(* it is told any: not of a run whose final write was refused, nor by a     *)
(* process whose connection was overtaken.                                  *)
OneOutcome ==
    [][\A r \in RunIds \ lost :
          /\ seen[r] \in Outcomes
          /\ \A p \in Processes : conn[p] # "overtaken"
          => seen'[r] = seen[r]]_vars
=============================================================================
