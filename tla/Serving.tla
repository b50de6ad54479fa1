------------------------------ MODULE Serving ------------------------------
(***************************************************************************)
(* One run from its creation to the end of its response, on each of the    *)
(* three serving surfaces of app.py: "generate" (_generate_stream), "sse"  *)
(* (_openai_sse) and "json" (the non-streaming v1_chat_completions).  The  *)
(* engine, the pump, the handler, POST /runs/{id}/cancel and the client,   *)
(* who may leave at any time, interleave at every await and every yield.   *)
(*                                                                         *)
(* What is yielded is handed to the transport; runs.finish and the         *)
(* compute.generation.placed event are one step: no await is between them, *)
(* but a journal that refuses the final row raises between them.           *)
(***************************************************************************)
EXTENDS UpstreamStream

CONSTANTS Surfaces,       \* the surfaces a run may be served on
          JournalMayFail  \* sqlite may refuse the final row (see Runs)

ASSUME SurfacesAssumption ==
    Surfaces \subseteq {"generate", "sse", "json"} /\ JournalMayFail \in BOOLEAN

VARIABLES
    pc,        \* where the handler is suspended
    status,    \* its local status
    sent,      \* the deltas yielded (json: collected), oldest first
    run,       \* the Run: surface ("sse" and "json" are both "openai" in the code),
               \*   state, cancel_event, the metrics finish stored, and the state
               \*   that its journal row says
    placed,    \* the outcomes of the compute.generation.placed events, in order
    client,    \* "here" or "gone"
    answer     \* what the client is told at the end: the closing document, the last
               \*   SSE chunk, the json response; a field that a surface does not
               \*   send is as in NoAnswer

hvars == <<pc, status, sent, run, placed, client, answer>>
vars  == <<made, source, sink, rest, pump, item, queue, got, pc, status, sent, run, placed, client, answer>>

Surface   == run.surface
Streaming == Surface \in {"generate", "sse"}
Statuses  == {"succeeded", "failed", "cancelled", "disconnected"}

(* output_chars is the marker's (TRUE) or the sum over the chunks (FALSE). *)
NoMetrics == [chunks |-> 0, marker |-> FALSE]
NoAnswer  == [code |-> 0, status |-> "none", finish |-> "none", chunks |-> 0, marker |-> FALSE]

TypeOK ==
    /\ UTypeOK
    /\ pc \in {"created", "prefix", "next", "waiting", "yield", "closing",
               "raising", "fallback", "document", "over"}
    /\ status \in Statuses
    /\ sent \in Seq(1..MaxDeltas)
    /\ run \in [surface : Surfaces, state : {"running"} \cup Statuses, cancel : BOOLEAN,
                chunks : 0..MaxDeltas, marker : BOOLEAN, row : {"running"} \cup Statuses]
    /\ placed \in Seq({"succeeded", "failed", "cancelled"})
    /\ client \in {"here", "gone"}
    /\ answer \in [code : {0, 200, 500, 502}, status : {"none"} \cup Statuses,
                   finish : {"none", "stop", "length", "cancelled", "error"},
                   chunks : 0..MaxDeltas, marker : BOOLEAN]

Init ==
    /\ UInit
    /\ pc = "created"
    /\ status = "succeeded"
    /\ sent = <<>>
    /\ run \in [surface : Surfaces, state : {"running"}, cancel : {FALSE},
                chunks : {0}, marker : {FALSE}, row : {"running"}]
    /\ placed = <<>>
    /\ client = "here"
    /\ answer = NoAnswer

Terminal == run.state # "running"

---------------------------------------------------------------------------
(* The NO-SILENT-EMPTY condition: nothing but reasoning, cut by the budget. *)
OnlyReasoning == sent = <<>> /\ sink.text /\ sink.why = "length"
Truncated     == status = "succeeded" /\ OnlyReasoning

(* _RUN_STATE_TO_OUTCOME. *)
Outcome(s) == IF s = "disconnected" THEN "cancelled" ELSE s

(* The finish_reason of a status. *)
FinishReason == [succeeded |-> "stop", cancelled |-> "cancelled", failed |-> "error"]

(* runs.finish, which leaves a finished run alone, and the placed event. *)
Finish(s, m) ==
    /\ run' = IF Terminal THEN run
              ELSE [run EXCEPT !.state = s, !.chunks = m.chunks, !.marker = m.marker, !.row = s]
    /\ placed' = Append(placed, Outcome(s))

(* runs.finish whose row is refused: the run is finished in memory already, *)
(* and the exception takes the place of the event.                          *)
FinishRefused(s, m) ==
    /\ JournalMayFail /\ ~ Terminal
    /\ run' = [run EXCEPT !.state = s, !.chunks = m.chunks, !.marker = m.marker]
    /\ UNCHANGED placed

---------------------------------------------------------------------------
(* The body iterator is started: the first yield comes before the upstream  *)
(* is, and before the try.  The json handler has no body iterator.          *)
Begin ==
    /\ pc = "created" /\ Streaming
    /\ pc' = "prefix"
    /\ UNCHANGED <<uvars, status, sent, run, placed, client, answer>>

StartUpstream ==
    /\ pc = IF Streaming THEN "prefix" ELSE "created"
    /\ Start
    /\ pc' = "next"
    /\ UNCHANGED <<status, sent, run, placed, client, answer>>

(* upstream.next makes its two tasks and waits for either: the get comes    *)
(* first, and takes an item if there is one.                                *)
Ask ==
    /\ pc = "next"
    /\ Pop \/ (queue = <<>> /\ UNCHANGED uvars)
    /\ pc' = "waiting"
    /\ UNCHANGED <<status, sent, run, placed, client, answer>>

(* The get takes an item that was put later; the handler runs after it. *)
Fetch ==
    /\ pc = "waiting"
    /\ Pop
    /\ UNCHANGED hvars

(* upstream.next returns a delta; the streaming surfaces yield it.  An item *)
(* that was taken wins over a cancellation.                                 *)
GetDelta ==
    /\ pc = "waiting"
    /\ Returns("delta")
    /\ sent' = Append(sent, got.n)
    /\ pc' = IF Streaming THEN "yield" ELSE "next"
    /\ UNCHANGED <<made, source, sink, rest, pump, item, status, run, placed, client, answer>>

(* The transport took the chunk and asks for the next one. *)
Resume ==
    /\ pc = "yield"
    /\ pc' = "next"
    /\ UNCHANGED <<uvars, status, sent, run, placed, client, answer>>

(* upstream.next returns _DONE; the loop ends and aclose starts. *)
GetDone ==
    /\ pc = "waiting"
    /\ Returns("done")
    /\ CancelPump
    /\ pc' = "closing"
    /\ UNCHANGED <<made, source, sink, rest, item, status, sent, run, placed, client, answer>>

(* upstream.next raises the engine's error.  The json surface finishes the  *)
(* run (with no metrics) before it closes the upstream, the others after;   *)
(* a refused row takes it out of the except clause with another exception.  *)
GetError ==
    /\ pc = "waiting"
    /\ Returns("error")
    /\ CancelPump
    /\ status' = "failed"
    /\ \/ Streaming /\ pc' = "closing" /\ UNCHANGED <<run, placed>>
       \/ ~ Streaming /\ pc' = "closing" /\ Finish("failed", NoMetrics)
       \/ ~ Streaming /\ pc' = "raising" /\ FinishRefused("failed", NoMetrics)
    /\ UNCHANGED <<made, source, sink, rest, item, sent, client, answer>>

(* Mutant: a cancellation that is noticed even with an item taken, and that *)
(* finishes the run at once.                                                *)
GetCancelledEager ==
    /\ pc = "waiting"
    /\ run.cancel
    /\ CancelPump
    /\ status' = "cancelled"
    /\ pc' = "closing"
    /\ Finish("cancelled", [chunks |-> Len(sent), marker |-> FALSE])
    /\ UNCHANGED <<made, source, sink, rest, item, queue, got, sent, client, answer>>

(* upstream.next returns _CANCELLED: the event is set and the get has taken *)
(* nothing, even if the pump has put an item since it looked.               *)
GetCancelled ==
    /\ pc = "waiting" /\ got = NoItem
    /\ run.cancel
    /\ CancelPump
    /\ status' = "cancelled"
    /\ pc' = "closing"
    /\ UNCHANGED <<made, source, sink, rest, item, queue, got, sent, run, placed, client, answer>>

(* The client is gone: GeneratorExit at a yield, CancelledError at an await *)
(* inside the try.  The upstream is closed and the exception goes on; what  *)
(* the get has taken, or takes from now on, is read by nobody.              *)
Leave ==
    /\ client = "gone" /\ Streaming
    /\ pc \in {"next", "waiting", "yield"}
    /\ CancelPump
    /\ status' = "disconnected"
    /\ pc' = "closing"
    /\ UNCHANGED <<made, source, sink, rest, item, queue, got, sent, run, placed, client, answer>>

(* The same before the try, at the first yield or before the iterator was   *)
(* started: no handler and no finally sees it.                              *)
LeaveEarly ==
    /\ client = "gone" /\ Streaming
    /\ pc \in {"created", "prefix"}
    /\ pc' = "over"
    /\ UNCHANGED <<uvars, status, sent, run, placed, client, answer>>

(* After the finally: the run is finished, the document is just not read.   *)
LeaveLate ==
    /\ client = "gone" /\ Streaming
    /\ pc \in {"fallback", "document"}
    /\ pc' = "over"
    /\ UNCHANGED <<uvars, status, sent, run, placed, client, answer>>

---------------------------------------------------------------------------
(* Mutant: a finally that does not wait for the pump task. *)
SettleStreamAtOnce ==
    /\ pc = "closing" /\ Streaming
    /\ Finish(status, [chunks |-> Len(sent), marker |-> Surface = "generate" /\ Truncated])
    /\ pc' = CASE status = "disconnected"           -> "over"
               [] Surface = "generate" /\ Truncated -> "fallback"
               [] OTHER                             -> "document"
    /\ UNCHANGED <<uvars, status, sent, client, answer>>

(* Mutant: a finally that stores the metrics without the correction. *)
SettleStreamRaw ==
    /\ pc = "closing" /\ pump = "ended" /\ Streaming
    /\ Finish(status, [chunks |-> Len(sent), marker |-> FALSE])
    /\ pc' = CASE status = "disconnected"           -> "over"
               [] Surface = "generate" /\ Truncated -> "fallback"
               [] OTHER                             -> "document"
    /\ UNCHANGED <<uvars, status, sent, client, answer>>

(* The finally of the streaming surfaces, once the pump has ended. *)
SettleStream ==
    /\ pc = "closing" /\ pump = "ended" /\ Streaming
    /\ Finish(status, [chunks |-> Len(sent), marker |-> Surface = "generate" /\ Truncated])
    /\ pc' = CASE status = "disconnected"           -> "over"
               [] Surface = "generate" /\ Truncated -> "fallback"
               [] OTHER                             -> "document"
    /\ UNCHANGED <<uvars, status, sent, client, answer>>

(* The same with the row refused: the exception leaves the generator, and   *)
(* the response is cut short, with no closing document and no event.        *)
SettleRefused ==
    /\ pc = "closing" /\ pump = "ended" /\ Streaming
    /\ FinishRefused(status, [chunks |-> Len(sent), marker |-> Surface = "generate" /\ Truncated])
    /\ pc' = "over"
    /\ UNCHANGED <<uvars, status, sent, client, answer>>

(* /generate yields the marker and the reasoning as its output. *)
Fallback ==
    /\ pc = "fallback"
    /\ pc' = "document"
    /\ UNCHANGED <<uvars, status, sent, run, placed, client, answer>>

(* The closing document of /generate, the last chunk of the SSE stream. *)
Document ==
    /\ pc = "document"
    /\ answer' = IF Surface = "generate"
                 THEN [NoAnswer EXCEPT !.code = 200, !.status = status,
                                       !.chunks = Len(sent), !.marker = Truncated]
                 ELSE [NoAnswer EXCEPT !.code = 200, !.finish = FinishReason[status]]
    /\ pc' = "over"
    /\ UNCHANGED <<uvars, status, sent, run, placed, client>>

(* json, an engine error: 502, the run is finished already; a 500 if its    *)
(* row was refused.                                                         *)
AnswerError ==
    /\ pc \in {"closing", "raising"} /\ pump = "ended" /\ ~ Streaming /\ status = "failed"
    /\ answer' = [NoAnswer EXCEPT !.code = IF pc = "closing" THEN 502 ELSE 500]
    /\ pc' = "over"
    /\ UNCHANGED <<uvars, status, sent, run, placed, client>>

(* json: finish, read the usage, emit, answer.  The content is replaced by  *)
(* the marker, and the finish reason by "length", whatever the status.      *)
AnswerJson ==
    /\ pc = "closing" /\ pump = "ended" /\ ~ Streaming /\ status # "failed"
    /\ sink.usage # "malformed"
    /\ Finish(status, [chunks |-> Len(sent), marker |-> FALSE])
    /\ answer' = [NoAnswer EXCEPT !.code = 200, !.marker = OnlyReasoning,
                     !.finish = IF OnlyReasoning THEN "length"
                                ELSE IF status = "succeeded" THEN "stop" ELSE "cancelled"]
    /\ pc' = "over"
    /\ UNCHANGED <<uvars, status, sent, client>>

(* The same with an exception: of finish, its row refused, or after it, of  *)
(* int(), when the block has both counts and one is no number.  Either way  *)
(* the run is finished, there is no event, and the answer is a 500.         *)
AnswerRaises ==
    /\ pc = "closing" /\ pump = "ended" /\ ~ Streaming /\ status # "failed"
    /\ \/ FinishRefused(status, [chunks |-> Len(sent), marker |-> FALSE])
       \/ /\ sink.usage = "malformed"
          /\ run' = [run EXCEPT !.state = status, !.chunks = Len(sent), !.row = status]
          /\ UNCHANGED placed
    /\ answer' = [NoAnswer EXCEPT !.code = 500]
    /\ pc' = "over"
    /\ UNCHANGED <<uvars, status, sent, client>>

---------------------------------------------------------------------------
(* POST /runs/{id}/cancel on this run. *)
RequestCancel ==
    /\ ~ Terminal /\ ~ run.cancel
    /\ run' = [run EXCEPT !.cancel = TRUE]
    /\ UNCHANGED <<uvars, pc, status, sent, placed, client, answer>>

(* The client closes its connection. *)
Disconnect ==
    /\ client = "here" /\ pc # "over"
    /\ client' = "gone"
    /\ UNCHANGED <<uvars, pc, status, sent, run, placed, answer>>

(* The response is over: the process goes on with other requests. *)
Over == pc = "over" /\ UNCHANGED vars

Handler == \/ Begin \/ StartUpstream \/ Ask \/ Fetch \/ GetDelta \/ GetDone \/ GetError
           \/ GetCancelled \/ SettleStream \/ SettleRefused \/ Fallback \/ Document
           \/ AnswerError \/ AnswerJson \/ AnswerRaises
Leaving == Leave \/ LeaveEarly \/ LeaveLate
Env     == RequestCancel \/ Disconnect \/ Over

Next == \/ UNext /\ UNCHANGED hvars
        \/ Handler
        \/ Resume
        \/ Leaving
        \/ Env

(* The event loop runs what is ready: the handler and its get, the pump,    *)
(* the delivery of a disconnection (Starlette cancels the response task, or *)
(* the abandoned generator is closed when it is collected).  Resume is not  *)
(* fair: a client that is there may stop reading for ever.  The engine may  *)
(* be silent for ever, and nobody has to cancel or leave.                   *)
Fairness ==
    /\ WF_vars(Handler)
    /\ WF_vars(Leaving)
    /\ WF_vars((PumpPut \/ PumpStop) /\ UNCHANGED hvars)

Spec == Init /\ [][Next]_vars /\ Fairness
---------------------------------------------------------------------------
(* PROPERTIES *)

(* Each surface implements Relay: in-order relay with at most three deltas  *)
(* of the engine on the way (one that get_task has taken, one queued, one   *)
(* in the pump's hand), and a run is settled once, with a true status,      *)
(* after its upstream connection is gone.                                   *)
R == INSTANCE Relay WITH relayed <- Len(sent), fate <- run.state,
                         Ahead <- QueueSize + 2
ImplementsRelay == R!Spec

(* The chunks handed to the client are the first ones the engine made, in   *)
(* the engine's order, through pump, queue and cancellation.                *)
SentInOrder == \A k \in 1..Len(sent) : sent[k] = k

(* The event log, the registry and the journal agree: never two placed      *)
(* events for a run, none before the run is finished and journaled, and     *)
(* with the outcome of the state it was finished with.  When the response   *)
(* of a run whose upstream was started is over and there is no event, the   *)
(* client was told a 500, or its stream was cut short without a closing     *)
(* document because the row was refused (app.py:621-637, 854-877).          *)
OnePlacedEvent ==
    /\ Len(placed) <= 1
    /\ placed # <<>> =>
         Terminal /\ run.row = run.state /\ placed = <<Outcome(run.state)>>
    /\ pc = "over" /\ pump # "unstarted" /\ placed = <<>> =>
         answer.code = 500 \/ (answer = NoAnswer /\ run.row # run.state)

(* What a client is told at the end agrees with what GET /runs/{id} tells,  *)
(* in the terms each surface has: /generate sends the state, the chunks and *)
(* the output, which is the truncation marker for both or for neither (the  *)
(* finally block computes that once, the code after it again, app.py:605-   *)
(* 613); the SSE stream and the json answer send a finish reason, that of   *)
(* the state, except that a json answer of nothing but reasoning says       *)
(* "length", of a cancelled run too (app.py:893-902).  The chunks recorded  *)
(* are the deltas that were relayed.                                        *)
AnswerMatchesRecord ==
    /\ answer.code = 200 =>
         /\ run.state \in DOMAIN FinishReason
         /\ run.chunks = Len(sent)
         /\ Surface = "generate" =>
              answer.status = run.state /\ answer.chunks = run.chunks /\ answer.marker = run.marker
         /\ Surface = "sse" => answer.finish = FinishReason[run.state]
         /\ Surface = "json" =>
              answer.finish = IF answer.marker THEN "length" ELSE FinishReason[run.state]
    /\ answer.code = 502 => run.state = "failed"

(* A cancelled run ends although the engine may be silent for ever, and     *)
(* although an item that was taken is preferred to the cancellation: unless *)
(* the client, still there, stops reading and holds the handler at a yield. *)
(* An engine that never pauses is outwaited: items win until its answer     *)
(* ends (max_tokens in the code, MaxDeltas here).                           *)
CancelEnds ==
    []<>(pc # "yield") => ((run.cancel /\ pump # "unstarted") ~> Terminal)

(* A client that leaves mid-stream releases the upstream: the pump ends,    *)
(* the connection is closed and the run is finished (D3, app.py:595-599).   *)
DisconnectReleases ==
    (Streaming /\ client = "gone" /\ pump # "unstarted")
        ~> (Terminal /\ pump = "ended" /\ source # "open")

(* What app.py:633-637 says: "exactly one compute.generation.placed fires   *)
(* per run regardless of how it ended".  The code does not: LeaveEarly.     *)
EveryRunIsPlaced == pc = "over" => Len(placed) = 1

(* What app.py:856-859 says: "a partial/malformed block falls back to the   *)
(* estimate".  The code answers a malformed block with a 500.               *)
MalformedUsageFallsBack == answer.code # 500
=============================================================================
