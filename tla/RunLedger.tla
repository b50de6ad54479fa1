----------------------------- MODULE RunLedger -----------------------------
(***************************************************************************)
(* What the run registry promises to the clients that hold a run id: every *)
(* run is in one state, the state only moves forward, a terminal state is  *)
(* for ever, no run is forgotten, and a restart turns what was in flight,  *)
(* all of it and nothing else, into "interrupted".  Runs.tla implements    *)
(* this when the registry has a journal and the journal does not fail.     *)
(***************************************************************************)
CONSTANTS RunIds,     \* the run ids that may be drawn
          Outcomes    \* the states a handler may finish a run with

VARIABLE status       \* run id |-> "absent", "running" or a terminal state

TypeOK == status \in [RunIds -> {"absent", "running", "interrupted"} \cup Outcomes]

Init == status = [r \in RunIds |-> "absent"]

(* A request is placed and gets a run. *)
Open(r) ==
    /\ status[r] = "absent"
    /\ status' = [status EXCEPT ![r] = "running"]

(* The handler of the run reports how it ended. *)
Settle(r, s) ==
    /\ status[r] = "running"
    /\ status' = [status EXCEPT ![r] = s]

(* The process is restarted: everything in flight is lost, and said to be. *)
InterruptAll ==
    status' = [r \in RunIds |->
                 IF status[r] = "running" THEN "interrupted" ELSE status[r]]

Next == \/ \E r \in RunIds : Open(r)
        \/ \E r \in RunIds, s \in Outcomes : Settle(r, s)
        \/ InterruptAll

Spec == Init /\ [][Next]_status
=============================================================================
