------------------------------- MODULE Relay -------------------------------
(***************************************************************************)
(* What serving one run promises: the engine's output is relayed in order, *)
(* nothing invented, lost or repeated; the engine is never more than Ahead *)
(* deltas ahead of what was relayed (backpressure); the run is settled     *)
(* once, only after the upstream connection is gone, with a status that    *)
(* tells the truth: "succeeded" and "failed" only when all the engine made *)
(* was relayed and the engine ended, or broke, by itself.                  *)
(***************************************************************************)
EXTENDS Naturals

CONSTANTS MaxDeltas,   \* bound: deltas the engine makes
          Ahead        \* deltas the engine may be ahead of the relay

VARIABLES made,        \* deltas the engine has made
          relayed,     \* deltas relayed, the first ones of those made
          source,      \* the upstream connection
          fate         \* "running" until the run is settled

rvars == <<made, relayed, source, fate>>

Init == made = 0 /\ relayed = 0 /\ source = "open" /\ fate = "running"

Make ==
    /\ source = "open" /\ made < MaxDeltas /\ made < relayed + Ahead
    /\ made' = made + 1
    /\ UNCHANGED <<relayed, source, fate>>

(* The engine ends or breaks, or the relay drops the connection. *)
EndOfSource(how) ==
    /\ source = "open"
    /\ source' = how
    /\ UNCHANGED <<made, relayed, fate>>

Pass ==
    /\ fate = "running" /\ relayed < made
    /\ relayed' = relayed + 1
    /\ UNCHANGED <<made, source, fate>>

Truthful(status) ==
    /\ status = "succeeded" => source = "complete" /\ relayed = made
    /\ status = "failed"    => source = "broken" /\ relayed = made
    /\ source # "open"

Settle(status) ==
    /\ fate = "running"
    /\ Truthful(status)
    /\ fate' = status
    /\ UNCHANGED <<made, relayed, source>>

Next == \/ Make
        \/ \E how \in {"complete", "broken", "dropped"} : EndOfSource(how)
        \/ Pass
        \/ \E status \in {"succeeded", "failed", "cancelled", "disconnected"} :
             Settle(status)

Spec == Init /\ [][Next]_rvars
=============================================================================
