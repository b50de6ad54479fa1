------------------------------ MODULE EventBus ------------------------------
(***************************************************************************)
(* buspublish.py: every event is a background task of its own, so events   *)
(* reach the bus in any order, or never; publish itself never waits, and   *)
(* publishes nothing without both a bus URL and a token.                   *)
(***************************************************************************)
VARIABLES
    enabled,   \* BusPublisher.enabled
    flight,    \* the events whose task is in _tasks
    log,       \* the events the bus has
    lost       \* history: the events whose task ended without it

bus == <<enabled, flight, log, lost>>

BusInit == enabled \in BOOLEAN /\ flight = {} /\ log = {} /\ lost = {}

(* publish: the task is created before the caller goes on. *)
Publish(event) ==
    /\ flight' = IF enabled THEN flight \cup {event} ELSE flight
    /\ UNCHANGED <<enabled, log, lost>>

(* _send: the POST is answered, by any status; no status is looked at. *)
Deliver(event) ==
    /\ event \in flight
    /\ flight' = flight \ {event}
    /\ log' = log \cup {event}
    /\ UNCHANGED <<enabled, lost>>

(* The bus cannot be reached, is too slow, or answers and drops the event; *)
(* or the server stops with the task in flight.                            *)
Lose(event) ==
    /\ event \in flight
    /\ flight' = flight \ {event}
    /\ lost' = lost \cup {event}
    /\ UNCHANGED <<enabled, log>>

BusNext == \E event \in flight : Deliver(event) \/ Lose(event)

(* All that was ever published. *)
Published == flight \cup log \cup lost
=============================================================================
