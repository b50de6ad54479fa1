-------------------------- MODULE UpstreamStream --------------------------
(***************************************************************************)
(* The upstream side of one run: the engine's stream_chat generator and    *)
(* UpstreamStream (app.py), whose pump task moves the deltas through a     *)
(* queue of one item.  The handler's side of the queue (start, next,       *)
(* aclose) is given as operators that Serving.tla uses in its actions.     *)
(*                                                                         *)
(* A delta is its number in the engine's output.                           *)
(***************************************************************************)
EXTENDS Naturals, Sequences

CONSTANTS MaxDeltas,   \* bound: deltas the engine makes
          QueueSize,   \* maxsize of the asyncio.Queue
          Chunks       \* the JSON chunks the engine's server may send

(* What a chunk says beside its text, and what the caller's dicts hold of   *)
(* it: reasoning text, a finish reason, and the usage block (absent, some   *)
(* other keys only, both counts, or both with a value that is no number).   *)
Sinks == [text : BOOLEAN, why : {"none", "stop", "length"},
          usage : {"absent", "partial", "full", "malformed"}]
Nothing == [text |-> FALSE, why |-> "none", usage |-> "absent"]

ASSUME ChunksAssumption == Chunks \subseteq [content : BOOLEAN, rest : Sinks]
ASSUME SizesAssumption == MaxDeltas \in Nat /\ QueueSize \in Nat \ {0}

Items == [kind : {"delta"}, n : 1..MaxDeltas] \cup [kind : {"done", "error"}, n : {0}]
Delta(k) == [kind |-> "delta", n |-> k]
Done     == [kind |-> "done", n |-> 0]
Error    == [kind |-> "error", n |-> 0]
NoItem   == [kind |-> "none", n |-> 0]

VARIABLES
    made,     \* deltas the engine has yielded
    source,   \* the connection: "open", "complete", "broken", "dropped"
    sink,     \* usage_sink and reasoning_sink, the caller's dicts
    rest,     \* what is left of the chunk whose text was yielded
    pump,     \* the pump task: "unstarted", "reading", "putting", "cancelling", "ended"
    item,     \* the item the pump is putting
    queue,    \* the asyncio.Queue
    got       \* the item that next's get_task has taken from it, NoItem before

uvars == <<made, source, sink, rest, pump, item, queue, got>>

UTypeOK ==
    /\ made \in 0..MaxDeltas
    /\ source \in {"open", "complete", "broken", "dropped"}
    /\ sink \in Sinks /\ rest \in Sinks
    /\ pump \in {"unstarted", "reading", "putting", "cancelling", "ended"}
    /\ item \in Items
    /\ queue \in Seq(Items) /\ Len(queue) <= QueueSize
    /\ got \in Items \cup {NoItem}

UInit ==
    /\ made = 0
    /\ source = "open"
    /\ sink = Nothing /\ rest = Nothing
    /\ pump = "unstarted"
    /\ item = Done
    /\ queue = <<>>
    /\ got = NoItem

---------------------------------------------------------------------------
(* The handler's side. *)

(* start: create the pump task. *)
Start ==
    /\ pump = "unstarted"
    /\ pump' = "reading"
    /\ UNCHANGED <<made, source, sink, rest, item, queue, got>>

(* Mutant: a get that leaves the item in the queue. *)
Peek ==
    /\ got = NoItem /\ queue # <<>>
    /\ got' = Head(queue)
    /\ UNCHANGED <<made, source, sink, rest, pump, item, queue>>

(* next's get_task, a task of its own, takes the oldest item.  The pump may *)
(* put the next one, and read on, before the handler sees this one.         *)
Pop ==
    /\ got = NoItem /\ queue # <<>>
    /\ got' = Head(queue)
    /\ queue' = Tail(queue)
    /\ UNCHANGED <<made, source, sink, rest, pump, item>>

(* next resumes in the handler, with what get_task has taken. *)
Returns(kind) ==
    /\ got.kind = kind
    /\ got' = NoItem
    /\ UNCHANGED queue

(* Mutant: an aclose that waits for the pump without cancelling it. *)
LeavePump == pump' = pump

(* aclose up to its await: cancel the pump; a finished task is left alone. *)
CancelPump ==
    pump' = IF pump \in {"reading", "putting"} THEN "cancelling" ELSE pump

---------------------------------------------------------------------------
(* The engine, while the pump awaits its next item. *)

(* Reasoning text is appended, a finish reason and a usage block replace    *)
(* what came before.                                                        *)
Absorb(more) ==
    [text  |-> sink.text \/ more.text,
     why   |-> IF more.why = "none" THEN sink.why ELSE more.why,
     usage |-> IF more.usage = "absent" THEN sink.usage ELSE more.usage]

(* stream_chat reads a data line with a JSON chunk (of one choice; a line   *)
(* of another kind is skipped): its text is yielded before the rest of the  *)
(* chunk is looked at, which happens when the generator is resumed.         *)
ReadChunk(chunk) ==
    /\ pump = "reading"
    /\ IF chunk.content
       THEN /\ made < MaxDeltas
            /\ made' = made + 1
            /\ item' = Delta(made + 1)
            /\ rest' = chunk.rest
            /\ pump' = "putting"
            /\ UNCHANGED sink
       ELSE /\ sink' = Absorb(chunk.rest)
            /\ UNCHANGED <<made, item, rest, pump>>
    /\ UNCHANGED <<source, queue, got>>

(* The stream ends, with [DONE] or without, or raises: an error status, a   *)
(* broken connection, the read timeout, a chunk that is not of the expected *)
(* shape, a simulated failure.  Its connection is closed by the generator's *)
(* own context managers.                                                    *)
EngineEnd(how) ==
    /\ pump = "reading"
    /\ source' = how
    /\ item' = IF how = "complete" THEN Done ELSE Error
    /\ pump' = "putting"
    /\ UNCHANGED <<made, sink, rest, queue, got>>

(* Mutant: a queue without the bound. *)
PumpPutUnbounded ==
    /\ pump = "putting"
    /\ queue' = Append(queue, item)
    /\ pump' = IF item.kind = "delta" THEN "reading" ELSE "ended"
    /\ sink' = Absorb(rest)
    /\ rest' = Nothing
    /\ UNCHANGED <<made, source, item, got>>

(* _pump: put the item when the queue has room, and resume the generator,   *)
(* which looks at the rest of the chunk; done and error are last.           *)
PumpPut ==
    /\ pump = "putting"
    /\ Len(queue) < QueueSize
    /\ queue' = Append(queue, item)
    /\ pump' = IF item.kind = "delta" THEN "reading" ELSE "ended"
    /\ sink' = Absorb(rest)
    /\ rest' = Nothing
    /\ UNCHANGED <<made, source, item, got>>

(* Mutant: a pump that ends without closing the engine's generator. *)
PumpStopKeepsSource ==
    /\ pump = "cancelling"
    /\ pump' = "ended"
    /\ UNCHANGED <<made, source, sink, rest, item, queue, got>>

(* The cancelled pump closes the engine's generator, and with it the       *)
(* upstream connection.                                                    *)
PumpStop ==
    /\ pump = "cancelling"
    /\ pump' = "ended"
    /\ source' = IF source = "open" THEN "dropped" ELSE source
    /\ UNCHANGED <<made, sink, rest, item, queue, got>>

Engine == (\E chunk \in Chunks : ReadChunk(chunk))
          \/ (\E how \in {"complete", "broken"} : EngineEnd(how))
UNext  == Engine \/ PumpPut \/ PumpStop
=============================================================================
