------------------------------- MODULE Runs -------------------------------
(***************************************************************************)
(* The run registry and its SQLite journal (src/computeconnect/runs.py):   *)
(* create, finish, cancel, get, the trimming of the history, the crash of  *)
(* the process and the reconciliation of the journal at the next start.    *)
(*                                                                         *)
(* The operations of the registry are synchronous, on one event loop: each *)
(* is one step.  A crash is possible between any two of them (a crash      *)
(* inside one leaves the journal as it was before or after its commit,     *)
(* and the memory of the process is lost either way).                      *)
(***************************************************************************)
EXTENDS Naturals, FiniteSets

CONSTANTS RunIds,         \* the uuids that may be drawn; bounds the runs created
          Providers,      \* provider ids
          Outcomes,       \* the states the handlers pass to finish
          HistoryLimit,   \* _history_limit: finished runs kept in memory
          HasJournal,     \* run_journal_path is configured
          JournalMayFail, \* sqlite may refuse a write (disk full, file locked)
          NoRun           \* no Run object in this process

ASSUME RunIdsAssumption == IsFiniteSet(RunIds)
ASSUME OutcomesAssumption ==
    Outcomes \subseteq {"succeeded", "failed", "cancelled", "disconnected"}
ASSUME LimitAssumption == HistoryLimit \in Nat
ASSUME FlagsAssumption == HasJournal \in BOOLEAN /\ JournalMayFail \in BOOLEAN
TERMINAL_STATES == {"succeeded", "failed", "cancelled", "refused", "disconnected", "interrupted"}

VARIABLES
    up,        \* the process is running
    run,       \* run id |-> its Run object in this process, or NoRun
    memory,    \* the keys of RunRegistry._runs
    born,      \* run id |-> its place in the insertion order of _runs, 0 before
    held,      \* the runs of the handlers: create returned them, and finish is to come or done
    abandoned, \* history: the unfinished runs of this process that no handler is left to finish
    journal,   \* run id |-> the state column of its row, "absent" without a row
    seen       \* history: the state GET /runs/{id} last answered, or "absent"

vars == <<up, run, memory, born, held, abandoned, journal, seen>>

RunObject == [provider : Providers, state : {"running"} \cup Outcomes, cancel : BOOLEAN]
ASSUME NoRunAssumption == NoRun \notin RunObject

RowStates == {"absent", "running", "interrupted"} \cup Outcomes

(* Run.state of an object that exists. *)
Terminal(r) == run[r].state \in TERMINAL_STATES
Active(r)   == run[r] # NoRun /\ ~ Terminal(r)

(* The finished runs that are still in memory. *)
Finished == {r \in memory : Terminal(r)}

---------------------------------------------------------------------------
(* Mutant: get without the fallback to the journal. *)
LookupMemoryOnly(r) == IF r \in memory THEN run[r].state ELSE "absent"

(* RunRegistry.get: memory first, then the journal; "absent" is a 404. *)
Lookup(r) == IF r \in memory THEN run[r].state
             ELSE IF HasJournal THEN journal[r] ELSE "absent"

(* What RunRegistry.cancel answers. *)
CancelAnswer(r) ==
    CASE r \notin memory /\ HasJournal /\ journal[r] # "absent" -> "already_finished"
      [] r \notin memory /\ ~ (HasJournal /\ journal[r] # "absent") -> "not_found"
      [] r \in memory /\ Terminal(r)   -> "already_finished"
      [] r \in memory /\ ~ Terminal(r) -> "cancelling"

(* Mutant: active_count that counts the finished history too. *)
ActiveCountOfAll(p) == Cardinality({r \in memory : run[r].provider = p})

(* RunRegistry.active_count. *)
ActiveCount(p) == Cardinality({r \in memory : Active(r) /\ run[r].provider = p})

(* Mutant: _trim that does not look at the state of the runs. *)
ExcessOfAll == {r \in memory :
                  Cardinality({q \in memory : born[q] >= born[r]}) > HistoryLimit}

(* Mutant: _trim that is off by one. *)
ExcessOffByOne == {r \in Finished :
                     Cardinality({q \in Finished : born[q] > born[r]}) > HistoryLimit}

(* RunRegistry._trim: the finished runs beyond the newest HistoryLimit. *)
Excess == {r \in Finished :
             Cardinality({q \in Finished : born[q] >= born[r]}) > HistoryLimit}

---------------------------------------------------------------------------
Init ==
    /\ up = TRUE
    /\ run = [r \in RunIds |-> NoRun]
    /\ memory = {}
    /\ born = [r \in RunIds |-> 0]
    /\ held = {}
    /\ abandoned = {}
    /\ journal = [r \in RunIds |-> "absent"]
    /\ seen = [r \in RunIds |-> "absent"]

Fresh(r) == born[r] = 0
Created  == {r \in RunIds : born[r] # 0}

(* The insertion into _runs that create starts with. *)
Insert(r, p) ==
    /\ up
    /\ Fresh(r)
    /\ run' = [run EXCEPT ![r] = [provider |-> p, state |-> "running", cancel |-> FALSE]]
    /\ born' = [born EXCEPT ![r] = Cardinality(Created) + 1]
    /\ UNCHANGED <<up, seen>>

(* The row is written: trim, and the caller gets the run. *)
Records(r) ==
    /\ journal' = IF HasJournal THEN [journal EXCEPT ![r] = "running"] ELSE journal
    /\ memory' = (memory \ Excess) \cup {r}
    /\ held' = held \cup {r}
    /\ UNCHANGED abandoned

(* The journal raises: the run is in _runs already, nothing is trimmed, and *)
(* the caller gets an exception instead of the run, which stays running.    *)
NotRecorded(r) ==
    /\ HasJournal /\ JournalMayFail
    /\ memory' = memory \cup {r}
    /\ abandoned' = abandoned \cup {r}
    /\ UNCHANGED <<held, journal>>

(* create: insert, journal, trim. *)
Create(r, p) ==
    /\ Insert(r, p)
    /\ (Records(r) \/ NotRecorded(r))

(* Mutant: finish that stores a state outside the vocabulary. *)
FinishCompleted(r, s) ==
    /\ up
    /\ r \in held
    /\ ~ Terminal(r)
    /\ run' = [run EXCEPT ![r].state = "completed"]
    /\ UNCHANGED <<up, memory, born, held, abandoned, journal, seen>>

(* Mutant: finish without the early return. *)
FinishAgain(r, s) ==
    /\ up
    /\ r \in held
    /\ run' = [run EXCEPT ![r].state = s]
    /\ journal' = IF HasJournal THEN [journal EXCEPT ![r] = s] ELSE journal
    /\ UNCHANGED <<up, memory, born, held, abandoned, seen>>

(* finish, by the handler that holds the run; a finished run is left alone. *)
(* The object is final before the journal is written: when the journal      *)
(* raises, memory and journal part.                                         *)
Finish(r, s) ==
    /\ up
    /\ r \in held
    /\ ~ Terminal(r)
    /\ run' = [run EXCEPT ![r].state = s]
    /\ \/ journal' = IF HasJournal THEN [journal EXCEPT ![r] = s] ELSE journal
       \/ HasJournal /\ JournalMayFail /\ journal' = journal
    /\ UNCHANGED <<up, memory, born, held, abandoned, seen>>

(* A streaming handler leaves before it has asked the engine for anything:  *)
(* the client went away at the first frame, which stands before the try     *)
(* whose finally finishes the run.                                          *)
Abandon(r) ==
    /\ up
    /\ r \in held
    /\ ~ Terminal(r)
    /\ held' = held \ {r}
    /\ abandoned' = abandoned \cup {r}
    /\ UNCHANGED <<up, run, memory, born, journal, seen>>

(* Mutant: cancel that journals the run as cancelled at once. *)
CancelJournals(r) ==
    /\ up
    /\ CancelAnswer(r) = "cancelling"
    /\ run' = [run EXCEPT ![r].cancel = TRUE]
    /\ journal' = [journal EXCEPT ![r] = "cancelled"]
    /\ UNCHANGED <<up, memory, born, held, abandoned, seen>>

(* cancel, on a run it can still reach; the other answers change nothing. *)
Cancel(r) ==
    /\ up
    /\ CancelAnswer(r) = "cancelling"
    /\ run' = [run EXCEPT ![r].cancel = TRUE]
    /\ UNCHANGED <<up, memory, born, held, abandoned, journal, seen>>

(* GET /runs/{id}; a 404 shows the client no state. *)
Get(r) ==
    /\ up
    /\ Lookup(r) # "absent"
    /\ seen' = [seen EXCEPT ![r] = Lookup(r)]
    /\ UNCHANGED <<up, run, memory, born, held, abandoned, journal>>

(* The process dies; only the journal survives. *)
Crash ==
    /\ up
    /\ up' = FALSE
    /\ run' = [r \in RunIds |-> NoRun]
    /\ memory' = {}
    /\ held' = {}
    /\ abandoned' = {}
    /\ UNCHANGED <<born, journal, seen>>

(* Mutant: a start without reconciliation. *)
RestartOnly ==
    /\ ~ up
    /\ up' = TRUE
    /\ UNCHANGED <<run, memory, born, held, abandoned, journal, seen>>

(* Mutant: a reconciliation of every row, terminal or not. *)
RestartInterruptsAll ==
    /\ ~ up
    /\ up' = TRUE
    /\ journal' = [r \in RunIds |->
                     IF journal[r] = "absent" THEN "absent" ELSE "interrupted"]
    /\ UNCHANGED <<run, memory, born, held, abandoned, seen>>

(* A new process: RunRegistry.__init__ reconciles the journal. *)
Restart ==
    /\ ~ up
    /\ up' = TRUE
    /\ journal' = [r \in RunIds |->
                     IF journal[r] \in TERMINAL_STATES \cup {"absent"}
                     THEN journal[r] ELSE "interrupted"]
    /\ UNCHANGED <<run, memory, born, held, abandoned, seen>>

Next ==
    \/ \E r \in RunIds, p \in Providers : Create(r, p)
    \/ \E r \in RunIds, s \in Outcomes : Finish(r, s)
    \/ \E r \in RunIds : Abandon(r) \/ Cancel(r) \/ Get(r)
    \/ Crash
    \/ Restart

Spec == Init /\ [][Next]_vars
---------------------------------------------------------------------------
(* PROPERTIES *)

(* Types: an object is in a state a handler can give it, only a live        *)
(* process has memory, and the keys of _runs are objects of this process.   *)
TypeOK ==
    /\ up \in BOOLEAN
    /\ run \in [RunIds -> RunObject \cup {NoRun}]
    /\ memory \subseteq {r \in RunIds : up /\ run[r] # NoRun}
    /\ held \subseteq {r \in RunIds : up /\ run[r] # NoRun}
    /\ abandoned \subseteq {r \in RunIds : up /\ run[r] # NoRun}
    /\ born \in [RunIds -> Nat]
    /\ journal \in [RunIds -> RowStates]
    /\ seen \in [RunIds -> RowStates]

(* A run whose handler is at work can be cancelled through POST             *)
(* /runs/{id}/cancel: no sequence of creates, finishes, evictions and       *)
(* journal failures makes cancel answer "already_finished" or "not_found"   *)
(* of it (runs.py:172-184 decides that from memory and the journal).        *)
LiveRunsCanBeCancelled ==
    \A r \in RunIds : Active(r) => CancelAnswer(r) = "cancelling"

(* "running" is answered only of a run of this process that has not ended,  *)
(* and that a handler is serving or has abandoned: neither the fallback of  *)
(* get to the journal nor a restart leaves a run of an earlier process, or  *)
(* a finished one, dangling as running (runs.py:24-26).  What an abandoned  *)
(* run says until the process ends is wrong; nothing else is.  Needs a      *)
(* journal that does not fail.                                              *)
RunningIsServedOrAbandoned ==
    up => \A r \in RunIds :
            Lookup(r) = "running" => Active(r) /\ r \in held \cup abandoned

(* active_count, which placement reads as the load of a provider, is the    *)
(* number of runs that some handler is serving there, and one for every run *)
(* that was abandoned there since the process started: an eviction hides no *)
(* load, nothing that ended is still counted, and what is counted without   *)
(* being served is what handlers and refused writes left behind, each once. *)
LoadIsServedOrAbandoned ==
    \A p \in Providers :
        ActiveCount(p) =
            Cardinality({r \in held : Active(r) /\ run[r].provider = p})
            + Cardinality({r \in abandoned : run[r].provider = p})

(* The journal is never ahead of the process: while a handler serves a run, *)
(* its row, if it has one, says so.  This is what lets a restart call every *)
(* other row finished.  It holds with a failing journal too.                *)
JournalNeverAhead ==
    \A r \in RunIds : Active(r) => journal[r] \in {"absent", "running"}

(* A client that was shown a terminal state is never shown another state,   *)
(* across eviction from memory, crash and restart.                          *)
AnswersAreFinal ==
    [][\A r \in RunIds : seen[r] \in TERMINAL_STATES => seen'[r] = seen[r]]_vars

(* The history: a create leaves at most HistoryLimit finished runs; what it *)
(* evicts is finished and older than every finished run it keeps, and it    *)
(* evicts no more than it has to (runs.py:202-206).                         *)
TrimKeepsTheNewest ==
    [][\A r \in RunIds, p \in Providers : Insert(r, p) /\ Records(r) =>
         /\ Cardinality(Finished') <= HistoryLimit
         /\ \A e \in memory \ memory' :
              /\ e \in Finished
              /\ Cardinality(Finished') = HistoryLimit
              /\ \A k \in Finished' : born[e] < born[k]]_vars

(* What a client is told implements RunLedger: with a journal that does not *)
(* fail, GET answers (after the restart, while the process is down) move    *)
(* forward only, a terminal state is for ever and no run is forgotten.      *)
Ledger == INSTANCE RunLedger WITH
            status <- [r \in RunIds |-> IF up THEN Lookup(r) ELSE journal[r]]
ImplementsLedger == Ledger!Spec
=============================================================================
