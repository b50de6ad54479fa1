--------------------------- MODULE ServingProofs ----------------------------
(***************************************************************************)
(* Proofs about Serving.tla, for every bound on the deltas, every queue    *)
(* size, every set of chunks the engine's server may send and every set of *)
(* surfaces: the safety properties, and that Serving implements Relay.     *)
(***************************************************************************)
EXTENDS Serving, SequenceTheorems, TLAPS

(* What is sent is a prefix of what the engine made. *)
Numbered == SentInOrder /\ Len(sent) <= made

(* An end the pump puts is the one the engine came to. *)
EndsAs(end) == \/ end = Done  /\ source = "complete"
               \/ end = Error /\ source = "broken"

(* What next's get_task has taken follows what was sent: the next delta, or *)
(* the end, behind everything the engine made.                              *)
Hand    == IF got = NoItem THEN 0 ELSE 1
Fetched == Len(sent) + Hand
Handed ==
    got # NoItem =>
        \/ got = Delta(Len(sent) + 1) /\ Len(sent) + 1 <= made
        \/ queue = <<>> /\ pump = "ended" /\ EndsAs(got) /\ made = Len(sent)

(* The queue holds the deltas that follow those, in order, and an end only  *)
(* as its last item, again behind everything the engine made.               *)
Queued ==
    \A k \in 1..Len(queue) :
        \/ queue[k] = Delta(Fetched + k) /\ Fetched + k <= made
        \/ /\ k = Len(queue) /\ pump = "ended"
           /\ EndsAs(queue[k]) /\ made + 1 = Fetched + k

(* What is made is sent, taken, queued or in the pump's hand, until the     *)
(* pump is cancelled, and a pump that has ended leaves no open connection.  *)
Pumped ==
    /\ pump = "unstarted" =>
         made = 0 /\ source = "open" /\ queue = <<>> /\ sent = <<>> /\ got = NoItem
    /\ pump = "reading" => source = "open" /\ made = Fetched + Len(queue)
    /\ pump = "putting" =>
         \/ source = "open" /\ item = Delta(made) /\ made = Fetched + Len(queue) + 1
         \/ EndsAs(item) /\ made = Fetched + Len(queue)
    /\ pump = "ended" => source # "open"

StreamInv == UTypeOK /\ Numbered /\ Handed /\ Queued /\ Pumped

(* How far the pump is, by where the handler is. *)
Phased ==
    /\ pc \in {"created", "prefix"} => pump = "unstarted"
    /\ pc \in {"next", "waiting", "yield"} => pump \in {"reading", "putting", "ended"}
    /\ pc \in {"closing", "raising"} => pump \in {"cancelling", "ended"}
    /\ pc \in {"fallback", "document"} => pump = "ended"
    /\ pc = "over" => pump \in {"unstarted", "ended"}
    /\ pc \in {"prefix", "yield", "fallback", "document"} => Streaming
    /\ pc = "raising" => ~ Streaming

(* A status that says how the engine ended is true. *)
EngineSaid(how) == pump = "ended" /\ source = how /\ made = Len(sent)
Concluded ==
    /\ pc \in {"created", "prefix", "next", "waiting", "yield"} => status = "succeeded"
    /\ pc \in {"closing", "raising", "fallback", "document", "over"} /\ pump # "unstarted" =>
         /\ status = "succeeded" => EngineSaid("complete")
         /\ status = "failed"    => EngineSaid("broken")
    /\ pc \in {"fallback", "document"} \/ ~ Streaming => status # "disconnected"

(* The record, its row, the event and the answer, by where the handler is:  *)
(* all untouched; or the record, the row and the event say the status; or   *)
(* the record does, and its row was refused.                                *)
Unsettled == run.state = "running" /\ run.row = "running" /\ placed = <<>> /\ answer = NoAnswer
Settled   == run.state = status /\ run.row = status /\ placed = <<Outcome(status)>>
Refused   == run.state = status /\ run.row = "running" /\ placed = <<>>
Recorded ==
    /\ pc \in {"created", "prefix", "next", "waiting", "yield"} => Unsettled
    /\ pc = "closing" =>
         IF ~ Streaming /\ status = "failed"
         THEN Settled /\ run.chunks = 0 /\ answer = NoAnswer
         ELSE Unsettled
    /\ pc = "raising" => Refused /\ status = "failed" /\ answer = NoAnswer
    /\ pc \in {"fallback", "document"} =>
         /\ Settled /\ answer = NoAnswer /\ run.chunks = Len(sent)
         /\ run.marker = (Surface = "generate" /\ Truncated)
    /\ pc = "over" =>
         IF pump = "unstarted" THEN Unsettled
         ELSE \/ answer.code = 500 /\ Terminal /\ placed = <<>>
              \/ answer = NoAnswer /\ Refused
              \/ answer.code # 500 /\ Settled /\ AnswerMatchesRecord

IInv == TypeOK /\ StreamInv /\ Phased /\ Concluded /\ Recorded

(* The invariant holds when a run is created. *)
LEMMA InitIInv == Init => IInv
<1> SUFFICES ASSUME Init PROVE IInv
  OBVIOUS
<1>1. UTypeOK
  BY SizesAssumption DEF Init, UInit, UTypeOK, Sinks, Nothing, Items, Done
<1>2. TypeOK
  <2>1. run \in [surface : Surfaces, state : {"running"} \cup Statuses, cancel : BOOLEAN,
                 chunks : 0..MaxDeltas, marker : BOOLEAN, row : {"running"} \cup Statuses]
    <3>1. PICK s \in Surfaces : run = [surface |-> s, state |-> "running", cancel |-> FALSE,
                                       chunks |-> 0, marker |-> FALSE, row |-> "running"]
      BY DEF Init
    <3> QED BY <3>1, SizesAssumption
  <2>2. answer \in [code : {0, 200, 500, 502}, status : {"none"} \cup Statuses,
                    finish : {"none", "stop", "length", "cancelled", "error"},
                    chunks : 0..MaxDeltas, marker : BOOLEAN]
    BY SizesAssumption DEF Init, NoAnswer
  <2>3. sent \in Seq(1..MaxDeltas) /\ placed \in Seq({"succeeded", "failed", "cancelled"})
    BY DEF Init
  <2> QED BY <1>1, <2>1, <2>2, <2>3 DEF Init, TypeOK, Statuses
<1>3. Numbered /\ Handed /\ Queued /\ Pumped /\ Phased
  BY DEF Init, UInit, Numbered, SentInOrder, Handed, Queued, Pumped, Phased
<1>4. Concluded /\ Recorded
  BY <1>2 DEF Init, UInit, TypeOK, Concluded, Recorded, Unsettled
<1> QED BY <1>1, <1>2, <1>3, <1>4 DEF IInv, StreamInv

---------------------------------------------------------------------------
(* The stream's part of the invariant, one lemma per operation of the pump  *)
(* and of the handler's side of the queue.                                  *)

LEMMA FetchedNat == UTypeOK /\ sent \in Seq(1..MaxDeltas) =>
    Hand \in {0, 1} /\ Fetched \in Nat /\ Len(sent) \in Nat /\ Len(queue) \in Nat /\ made \in Nat
BY SizesAssumption DEF UTypeOK, Hand, Fetched

(* The engine yields a delta or absorbs a chunk without text. *)
LEMMA ReadChunkStreamInv ==
    ASSUME StreamInv, sent \in Seq(1..MaxDeltas),
           UNCHANGED sent, NEW chunk \in Chunks, ReadChunk(chunk)
    PROVE  StreamInv'
<1> USE DEF StreamInv
<1>a. Len(sent) \in Nat /\ Len(queue) \in Nat /\ made \in Nat /\ Fetched \in Nat
  BY FetchedNat
<1>b. UNCHANGED <<got, queue, source, sent>> /\ Fetched' = Fetched /\ pump = "reading"
  BY DEF ReadChunk, Fetched, Hand
<1>1. CASE chunk.content
  <2>1. UTypeOK'
    BY <1>1, ChunksAssumption, SizesAssumption DEF ReadChunk, UTypeOK, Items, Delta
  <2>2. Numbered'
    BY <1>1, <1>a DEF ReadChunk, Numbered, SentInOrder
  <2>3. Handed'
    BY <1>1, <1>a, <1>b DEF ReadChunk, Handed
  <2>4. Queued'
    BY <1>1, <1>a, <1>b DEF ReadChunk, Queued
  <2>5. Pumped'
    BY <1>1, <1>a, <1>b DEF ReadChunk, Pumped
  <2> QED BY <2>1, <2>2, <2>3, <2>4, <2>5
<1>2. CASE ~ chunk.content
  <2>1. UTypeOK'
    BY <1>2, ChunksAssumption, SizesAssumption DEF ReadChunk, UTypeOK, Absorb, Sinks
  <2>2. Numbered' /\ Handed'
    BY <1>2, <1>b DEF ReadChunk, Numbered, SentInOrder, Handed, EndsAs
  <2>3. Queued'
    BY <1>2, <1>b DEF ReadChunk, Queued, EndsAs
  <2>4. Pumped'
    BY <1>2, <1>b DEF ReadChunk, Pumped, EndsAs
  <2> QED BY <2>1, <2>2, <2>3, <2>4
<1> QED BY <1>1, <1>2

(* The pump appends its item: the next number, or the end. *)
LEMMA PumpPutStreamInv ==
    ASSUME StreamInv, sent \in Seq(1..MaxDeltas),
           UNCHANGED sent, PumpPut
    PROVE  StreamInv'
<1> USE DEF StreamInv
<1>a. Len(sent) \in Nat /\ Len(queue) \in Nat /\ made \in Nat /\ Fetched \in Nat
  BY FetchedNat
<1>b. /\ queue' \in Seq(Items) /\ Len(queue') = Len(queue) + 1
      /\ \A k \in 1..Len(queue) : queue'[k] = queue[k]
      /\ queue'[Len(queue) + 1] = item
  BY DEF PumpPut, UTypeOK
<1>c. \A k \in 1..Len(queue) : queue[k] = Delta(Fetched + k) /\ Fetched + k <= made
  BY DEF PumpPut, Queued
<1>d. UNCHANGED <<got, made, source, sent>> /\ Fetched' = Fetched /\ pump = "putting"
  BY DEF PumpPut, Fetched, Hand
<1>1. UTypeOK'
  BY <1>a, <1>b, SizesAssumption DEF PumpPut, UTypeOK, Sinks, Nothing, Absorb
<1>2. Numbered' /\ Handed'
  BY <1>d DEF Numbered, SentInOrder, Handed
<1>3. CASE source = "open"
  <2>1. item = Delta(made) /\ made = Fetched + Len(queue) + 1
    BY <1>3, <1>d DEF Pumped, EndsAs
  <2>2. Queued'
    <3> SUFFICES ASSUME NEW k \in 1..Len(queue) + 1
                 PROVE  queue'[k] = Delta(Fetched + k) /\ Fetched + k <= made
      BY <1>b, <1>d DEF Queued
    <3>1. CASE k = Len(queue) + 1
      BY <3>1, <2>1, <1>a, <1>b
    <3>2. CASE k # Len(queue) + 1
      <4>1. k \in 1..Len(queue)
        BY <3>2, <1>a
      <4> QED BY <4>1, <1>b, <1>c
    <3> QED BY <3>1, <3>2
  <2>3. Pumped'
    BY <2>1, <1>a, <1>b, <1>d, <1>3 DEF PumpPut, Pumped, Delta
  <2> QED BY <1>1, <1>2, <2>2, <2>3
<1>4. CASE source # "open"
  <2>1. EndsAs(item) /\ made = Fetched + Len(queue)
    BY <1>4, <1>d DEF Pumped
  <2>2. Queued'
    BY <2>1, <1>a, <1>b, <1>c, <1>d DEF PumpPut, Queued, EndsAs, Done, Error
  <2>3. Pumped'
    BY <2>1, <1>a, <1>b, <1>d, <1>4 DEF PumpPut, Pumped, EndsAs, Done, Error
  <2> QED BY <1>1, <1>2, <2>2, <2>3
<1> QED BY <1>3, <1>4

(* The engine ends: everything it made is sent, taken or queued. *)
LEMMA EngineEndStreamInv ==
    ASSUME StreamInv, sent \in Seq(1..MaxDeltas),
           UNCHANGED sent, NEW how \in {"complete", "broken"}, EngineEnd(how)
    PROVE  StreamInv'
<1> USE DEF StreamInv
<1>0. UNCHANGED <<got, made, queue, sent>> /\ Fetched' = Fetched /\ pump = "reading"
  BY DEF EngineEnd, Fetched, Hand
<1>1. UTypeOK'
  BY SizesAssumption DEF EngineEnd, UTypeOK, Items, Done, Error
<1>2. (Numbered /\ Handed)'
  BY <1>0 DEF Numbered, SentInOrder, Handed
<1>3. (Queued /\ Pumped)'
  BY <1>0 DEF EngineEnd, Queued, Pumped, EndsAs, Done, Error
<1> QED BY <1>1, <1>2, <1>3

(* The cancelled pump ends; what it held is dropped. *)
LEMMA PumpStopStreamInv ==
    ASSUME StreamInv, sent \in Seq(1..MaxDeltas),
           UNCHANGED sent, PumpStop
    PROVE  StreamInv'
<1> USE DEF StreamInv
<1>0. UNCHANGED <<got, made, queue, sent>> /\ Fetched' = Fetched /\ pump = "cancelling"
  BY DEF PumpStop, Fetched, Hand
<1>1. UTypeOK'
  BY DEF PumpStop, UTypeOK
<1>2. (Numbered /\ Handed /\ Pumped)'
  BY <1>0 DEF PumpStop, Numbered, SentInOrder, Handed, Pumped
<1>3. Queued'
  BY <1>0 DEF PumpStop, Queued
<1> QED BY <1>1, <1>2, <1>3

(* get_task takes the oldest item: what is fetched grows by it, and what is *)
(* fetched and queued together stays the same.                              *)
LEMMA PopStreamInv ==
    ASSUME StreamInv, sent \in Seq(1..MaxDeltas),
           UNCHANGED sent, Pop
    PROVE  StreamInv'
<1> USE DEF StreamInv
<1>0. UNCHANGED <<made, source, sink, rest, pump, item, sent>> /\ got = NoItem
  BY DEF Pop
<1>a. Len(sent) \in Nat /\ Len(queue) \in Nat /\ made \in Nat /\ Len(queue) >= 1
      /\ Fetched = Len(sent)
  BY <1>0, FetchedNat DEF UTypeOK, Pop, Fetched, Hand
<1>b. /\ queue' \in Seq(Items) /\ Len(queue') = Len(queue) - 1
      /\ \A k \in 1..Len(queue') : queue'[k] = queue[k + 1]
  BY HeadTailProperties DEF Pop, UTypeOK
<1>c. got' = queue[1] /\ queue[1] \in Items
  BY <1>a DEF Pop, UTypeOK
<1>d. got' # NoItem
  BY <1>c DEF Items, NoItem
<1>e. Fetched' = Len(sent) + 1
  BY <1>0, <1>d DEF Fetched, Hand
<1>f. 1 \in 1..Len(queue)
  BY <1>a
<1>g. \/ queue[1] = Delta(Len(sent) + 1) /\ Len(sent) + 1 <= made
      \/ /\ 1 = Len(queue) /\ pump = "ended"
         /\ EndsAs(queue[1]) /\ made + 1 = Len(sent) + 1
  BY <1>a, <1>f DEF Queued
<1>1. UTypeOK'
  BY <1>0, <1>a, <1>b, <1>c, SizesAssumption DEF UTypeOK
<1>2. Numbered'
  BY <1>0 DEF Numbered, SentInOrder
<1>3. Handed'
  <2>1. 1 = Len(queue) => queue' = <<>>
    <3>1. Len(queue') = Len(queue) - 1 /\ queue' \in Seq(Items) /\ Len(queue) \in Nat
      BY <1>a, <1>b
    <3>2. ASSUME NEW l \in Nat, l = 1 PROVE l - 1 = 0
      BY <3>2
    <3>3. 1 = Len(queue) => Len(queue') = 0
      BY <3>1, <3>2
    <3> QED BY <3>1, <3>3, EmptySeq
  <2> QED BY <1>0, <1>a, <1>c, <1>g, <2>1 DEF Handed, EndsAs
<1>4. Queued'
  <2>1. ASSUME NEW k \in 1..Len(queue')
        PROVE  \/ queue[k + 1] = Delta(Len(sent) + (k + 1)) /\ Len(sent) + (k + 1) <= made
               \/ /\ k + 1 = Len(queue) /\ pump = "ended"
                  /\ EndsAs(queue[k + 1]) /\ made + 1 = Len(sent) + (k + 1)
    <3>1. k + 1 \in 1..Len(queue)
      BY <1>a, <1>b
    <3> QED BY <1>a, <3>1 DEF Queued
  <2>2. \A k \in 1..Len(queue') :
          /\ queue'[k] = queue[k + 1] /\ (Len(sent) + 1) + k = Len(sent) + (k + 1)
          /\ (k + 1 = Len(queue) <=> k = Len(queue'))
    BY <1>a, <1>b
  <2>3. ASSUME NEW k \in 1..Len(queue')
        PROVE  \/ queue'[k] = Delta(Fetched' + k) /\ Fetched' + k <= made
               \/ /\ k = Len(queue') /\ pump = "ended"
                  /\ EndsAs(queue'[k]) /\ made + 1 = Fetched' + k
    <3>1. /\ queue'[k] = queue[k + 1] /\ Fetched' + k = Len(sent) + (k + 1)
          /\ (k + 1 = Len(queue) <=> k = Len(queue'))
      BY <1>e, <2>2
    <3>2. CASE queue[k + 1] = Delta(Len(sent) + (k + 1)) /\ Len(sent) + (k + 1) <= made
      BY <3>1, <3>2
    <3>3. CASE /\ k + 1 = Len(queue) /\ pump = "ended"
               /\ EndsAs(queue[k + 1]) /\ made + 1 = Len(sent) + (k + 1)
      <4>1. k = Len(queue') /\ EndsAs(queue'[k])
        BY ONLY <3>1, <3>3
      <4>2. made + 1 = Fetched' + k
        BY <3>1, <3>3
      <4> QED BY <3>3, <4>1, <4>2
    <3> QED BY <2>1, <3>2, <3>3
  <2> QED BY <1>0, <2>3 DEF Queued, EndsAs
<1>5. Pumped'
  <2>1. Fetched' + Len(queue') = Fetched + Len(queue) /\ Fetched' \in Nat
    BY <1>a, <1>b, <1>e
  <2>2. pump # "unstarted"
    BY <1>a DEF Pumped
  <2> QED BY <1>0, <2>1, <2>2 DEF Pumped, EndsAs
<1> QED BY <1>1, <1>2, <1>3, <1>4, <1>5

(* A delta that was taken is the one after the last one sent. *)
LEMMA ReturnDeltaStreamInv ==
    ASSUME StreamInv, sent \in Seq(1..MaxDeltas),
           Returns("delta"), sent' = Append(sent, got.n),
           UNCHANGED <<made, source, sink, rest, pump, item>>
    PROVE  /\ StreamInv'
           /\ sent' \in Seq(1..MaxDeltas) /\ Len(sent') = Len(sent) + 1
           /\ Len(sent) < made
<1> USE DEF StreamInv
<1>a. Len(sent) \in Nat /\ Len(queue) \in Nat /\ made \in Nat
  BY FetchedNat
<1>b. got.kind = "delta" /\ got # NoItem /\ got' = NoItem /\ UNCHANGED queue
  BY DEF Returns, NoItem
<1>c. got = Delta(Len(sent) + 1) /\ Len(sent) + 1 <= made
  BY <1>b DEF Handed, EndsAs, Done, Error
<1>d. got.n = Len(sent) + 1
  BY <1>c DEF Delta
<1>e. Fetched = Len(sent) + 1
  BY <1>b DEF Fetched, Hand
<1>f. /\ sent' \in Seq(1..MaxDeltas) /\ Len(sent') = Len(sent) + 1
      /\ sent'[Len(sent) + 1] = Len(sent) + 1
      /\ \A k \in 1..Len(sent) : sent'[k] = sent[k]
  <2>1. Len(sent) + 1 \in 1..MaxDeltas
    BY <1>a, <1>c, SizesAssumption DEF UTypeOK
  <2>2. sent' = Append(sent, Len(sent) + 1)
    BY <1>d
  <2> QED BY <2>1, <2>2, <1>a
<1>g. Fetched' = Fetched
  BY <1>a, <1>b, <1>e, <1>f DEF Fetched, Hand
<1>1. UTypeOK'
  BY <1>b DEF UTypeOK
<1>2. Numbered' /\ Handed'
  BY <1>a, <1>b, <1>c, <1>f DEF Numbered, SentInOrder, Handed
<1>3. Queued'
  BY <1>b, <1>g DEF Queued, EndsAs
<1>4. Pumped'
  <2>1. pump # "unstarted"
    BY <1>b DEF Pumped
  <2> QED BY <1>b, <1>g, <2>1 DEF Pumped, EndsAs
<1> QED BY <1>1, <1>2, <1>3, <1>4, <1>a, <1>c, <1>f

(* An end that was taken comes after everything that was made: the pump has *)
(* ended, and the end is the engine's own.                                  *)
LEMMA ReturnEndStreamInv ==
    ASSUME StreamInv, sent \in Seq(1..MaxDeltas),
           NEW kind \in {"done", "error"}, Returns(kind), CancelPump,
           UNCHANGED <<made, source, sink, rest, item, sent>>
    PROVE  /\ StreamInv'
           /\ pump = "ended" /\ pump' = "ended" /\ made = Len(sent)
           /\ kind = "done"  => source = "complete"
           /\ kind = "error" => source = "broken"
<1> USE DEF StreamInv
<1>a. Len(sent) \in Nat /\ Len(queue) \in Nat /\ made \in Nat
  BY FetchedNat
<1>b. got.kind = kind /\ got # NoItem /\ got' = NoItem /\ UNCHANGED queue
  BY DEF Returns, NoItem
<1>c. \A j : got # Delta(j)
  BY <1>b DEF Delta
<1>d. queue = <<>> /\ pump = "ended" /\ EndsAs(got) /\ made = Len(sent)
  BY <1>b, <1>c DEF Handed
<1>e. pump' = "ended"
  BY <1>d DEF CancelPump
<1>1. UTypeOK'
  BY <1>b, <1>e DEF UTypeOK
<1>2. (Numbered /\ Handed)'
  BY <1>a, <1>b DEF Numbered, SentInOrder, Handed
<1>3. (Queued /\ Pumped)'
  BY <1>b, <1>d, <1>e DEF Queued, Pumped
<1> QED BY <1>1, <1>2, <1>3, <1>b, <1>d, <1>e DEF EndsAs, Done, Error

(* aclose marks the pump. *)
LEMMA CancelPumpStreamInv ==
    ASSUME StreamInv, sent \in Seq(1..MaxDeltas),
           CancelPump, UNCHANGED <<made, source, sink, rest, item, queue, got, sent>>
    PROVE  StreamInv'
<1> USE DEF StreamInv
<1>0. Fetched' = Fetched /\ (pump = "ended" => pump' = "ended")
  BY DEF CancelPump, Fetched, Hand
<1>1. UTypeOK'
  BY DEF CancelPump, UTypeOK
<1>2. (Numbered /\ Handed)'
  BY <1>0 DEF Numbered, SentInOrder, Handed, EndsAs
<1>3. Pumped'
  BY <1>0 DEF CancelPump, Pumped
<1>4. Queued'
  BY <1>0 DEF Queued, EndsAs
<1> QED BY <1>1, <1>2, <1>3, <1>4

(* start creates it. *)
LEMMA StartStreamInv ==
    ASSUME StreamInv, sent \in Seq(1..MaxDeltas),
           Start, UNCHANGED sent
    PROVE  StreamInv'
<1> USE DEF StreamInv
<1>1. UTypeOK'
  BY DEF Start, UTypeOK
<1>2. (Numbered /\ Handed /\ Pumped /\ Queued)'
  BY DEF Start, Numbered, SentInOrder, Handed, Pumped, Queued, Fetched, Hand
<1> QED BY <1>1, <1>2

(* Nothing else touches the stream. *)
LEMMA StutterStreamInv ==
    ASSUME StreamInv, UNCHANGED <<uvars, sent>>
    PROVE  StreamInv'
BY DEF StreamInv, uvars, UTypeOK, Handed, Queued, Pumped, Numbered, SentInOrder, EndsAs,
       Fetched, Hand
---------------------------------------------------------------------------
RunRecords == [surface : Surfaces, state : {"running"} \cup Statuses, cancel : BOOLEAN,
               chunks : 0..MaxDeltas, marker : BOOLEAN, row : {"running"} \cup Statuses]

(* What finish makes of a run, with its row written and with it refused. *)
EndedRun(r, s, c, m)   == [r EXCEPT !.state = s, !.chunks = c, !.marker = m, !.row = s]
RefusedRun(r, s, c, m) == [r EXCEPT !.state = s, !.chunks = c, !.marker = m]

LEMMA FinishedRun ==
    \A r \in RunRecords, s \in Statuses, c \in 0..MaxDeltas, m \in BOOLEAN :
      /\ EndedRun(r, s, c, m) \in RunRecords
      /\ EndedRun(r, s, c, m).surface = r.surface
      /\ EndedRun(r, s, c, m).state = s /\ EndedRun(r, s, c, m).row = s
      /\ EndedRun(r, s, c, m).chunks = c
      /\ EndedRun(r, s, c, m).marker = m
<1> TAKE r \in RunRecords, s \in Statuses, c \in 0..MaxDeltas, m \in BOOLEAN
<1>1. EndedRun(r, s, c, m) \in RunRecords
  BY DEF EndedRun, RunRecords
<1>2. EndedRun(r, s, c, m).surface = r.surface
  BY DEF EndedRun, RunRecords
<1>3. EndedRun(r, s, c, m).state = s /\ EndedRun(r, s, c, m).row = s
  BY DEF EndedRun, RunRecords
<1>4. EndedRun(r, s, c, m).chunks = c
  BY DEF EndedRun, RunRecords
<1>5. EndedRun(r, s, c, m).marker = m
  BY DEF EndedRun, RunRecords
<1> QED BY <1>1, <1>2, <1>3, <1>4, <1>5

LEMMA RunWithoutRow ==
    \A r \in RunRecords, s \in Statuses, c \in 0..MaxDeltas, m \in BOOLEAN :
      /\ RefusedRun(r, s, c, m) \in RunRecords
      /\ RefusedRun(r, s, c, m).surface = r.surface
      /\ RefusedRun(r, s, c, m).state = s
      /\ RefusedRun(r, s, c, m).row = r.row
<1> TAKE r \in RunRecords, s \in Statuses, c \in 0..MaxDeltas, m \in BOOLEAN
<1>1. RefusedRun(r, s, c, m) \in RunRecords
  BY DEF RefusedRun, RunRecords
<1>2. RefusedRun(r, s, c, m).surface = r.surface
  BY DEF RefusedRun, RunRecords
<1>3. RefusedRun(r, s, c, m).state = s
  BY DEF RefusedRun, RunRecords
<1>4. RefusedRun(r, s, c, m).row = r.row
  BY DEF RefusedRun, RunRecords
<1> QED BY <1>1, <1>2, <1>3, <1>4

(* The pump's own steps keep the handler's phase possible. *)
LEMMA UpstreamMoves ==
    ASSUME UNext
    PROVE  /\ pump \in {"reading", "putting", "cancelling"}
           /\ pump' \in {"reading", "putting", "ended"}
           /\ pump = "cancelling" => pump' = "ended"
BY DEF UNext, Engine, ReadChunk, EngineEnd, PumpPut, PumpStop

---------------------------------------------------------------------------
(* The invariant is inductive: one lemma per action, or per group of actions *)
(* that change the same variables.                                          *)

(* The engine and the pump. *)
LEMMA UpstreamStep == IInv /\ UNext /\ UNCHANGED hvars => IInv'
<1> SUFFICES ASSUME IInv, UNext, UNCHANGED hvars PROVE IInv'
  OBVIOUS
<1> USE DEF IInv, StreamInv
<1>0. UNCHANGED <<pc, status, sent, run, placed, client, answer>>
  BY DEF hvars
<1>1. StreamInv'
  <2>1. UNCHANGED sent /\ sent \in Seq(1..MaxDeltas) /\ UTypeOK
    BY <1>0 DEF TypeOK
  <2>2. ASSUME NEW chunk \in Chunks, ReadChunk(chunk)
        PROVE  StreamInv'
    BY <2>1, <2>2, ReadChunkStreamInv
  <2>3. ASSUME NEW how \in {"complete", "broken"}, EngineEnd(how)
        PROVE  StreamInv'
    BY <2>1, <2>3, EngineEndStreamInv
  <2>4. CASE PumpPut
    BY <2>1, <2>4, PumpPutStreamInv
  <2>5. CASE PumpStop
    BY <2>1, <2>5, PumpStopStreamInv
  <2> QED BY <2>2, <2>3, <2>4, <2>5 DEF UNext, Engine
<1>2. TypeOK'
  BY <1>0, <1>1 DEF TypeOK
<1>3. Phased'
  BY <1>0, UpstreamMoves DEF Phased, Streaming, Surface
<1>4. Concluded'
  BY <1>0, UpstreamMoves DEF Concluded, EngineSaid, Streaming, Surface, Phased
<1>5. Recorded'
  <2>1. pc \in {"created", "prefix", "next", "waiting", "yield", "closing", "raising"}
    BY UpstreamMoves DEF Phased, TypeOK
  <2> QED BY <1>0, <2>1 DEF Recorded, Unsettled, Settled, Refused, Outcome, Streaming, Surface
<1> QED BY <1>1, <1>2, <1>3, <1>4, <1>5

(* The steps of the handler that leave the record and the answer as they    *)
(* are, and those of its get_task.                                          *)
LEMMA QuietStep ==
    IInv /\ (Begin \/ Ask \/ Fetch \/ Resume \/ Disconnect \/ Over \/ StartUpstream) => IInv'
<1> SUFFICES ASSUME IInv, Begin \/ Ask \/ Fetch \/ Resume \/ Disconnect \/ Over \/ StartUpstream
             PROVE  IInv'
  OBVIOUS
<1> USE DEF IInv, StreamInv
<1>0. UNCHANGED <<status, sent, run, placed, answer>>
  BY DEF Begin, Ask, Fetch, Resume, Disconnect, Over, StartUpstream, vars, hvars
<1>1. StreamInv'
  <2>1. CASE StartUpstream
    BY <2>1, <1>0, StartStreamInv DEF TypeOK, StartUpstream
  <2>2. CASE Pop
    BY <2>2, <1>0, PopStreamInv DEF TypeOK
  <2>3. CASE UNCHANGED uvars
    BY <2>3, <1>0, StutterStreamInv DEF TypeOK
  <2> QED BY <2>1, <2>2, <2>3 DEF Begin, Ask, Fetch, Resume, Disconnect, Over, vars, uvars
<1>a. /\ UNCHANGED <<made, source, sink>>
      /\ pump' = pump \/ (pump = "unstarted" /\ pump' = "reading" /\ pc' = "next")
  BY DEF Begin, Ask, Fetch, Pop, Resume, Disconnect, Over, StartUpstream, Start, vars, uvars
<1>b. \/ pc' = pc
      \/ pc = "created" /\ pc' = "prefix" /\ Streaming
      \/ pc \in {"created", "prefix"} /\ pc' = "next" /\ pump' = "reading"
      \/ pc = "next" /\ pc' = "waiting"
      \/ pc = "yield" /\ pc' = "next"
  BY DEF Begin, Ask, Fetch, Resume, Disconnect, Over, StartUpstream, Start, vars, hvars
<1>2. TypeOK'
  <2>1. client' \in {"here", "gone"}
    BY DEF TypeOK, Begin, Ask, Fetch, Resume, Disconnect, Over, StartUpstream, vars, hvars
  <2> QED BY <1>0, <1>1, <1>b, <2>1 DEF TypeOK
<1>3. Phased'
  BY <1>0, <1>a, <1>b DEF Phased, Streaming, Surface
<1>4. Concluded'
  BY <1>0, <1>a, <1>b DEF Concluded, EngineSaid, Streaming, Surface
<1>5. Recorded'
  <2>1. CASE pc' = pc
    <3>1. pc = "over" => (pump' = "unstarted" <=> pump = "unstarted")
      BY <1>a, <2>1
    <3>2. /\ Unsettled' = Unsettled /\ Settled' = Settled /\ Refused' = Refused
          /\ Terminal' = Terminal /\ Streaming' = Streaming
          /\ AnswerMatchesRecord' = AnswerMatchesRecord
          /\ (Surface = "generate" /\ Truncated)' = (Surface = "generate" /\ Truncated)
      BY <1>0, <1>a DEF Unsettled, Settled, Refused, Outcome, Streaming, Surface, Terminal,
             AnswerMatchesRecord, Truncated, OnlyReasoning
    <3> QED BY <2>1, <1>0, <3>1, <3>2 DEF Recorded
  <2>2. CASE /\ pc \in {"created", "prefix", "next", "waiting", "yield"}
             /\ pc' \in {"created", "prefix", "next", "waiting", "yield"}
    BY <2>2, <1>0 DEF Recorded, Unsettled
  <2> QED BY <1>b, <2>1, <2>2
<1> QED BY <1>1, <1>2, <1>3, <1>4, <1>5

(* A delta is taken and yielded. *)
LEMMA GetDeltaStep == IInv /\ GetDelta => IInv'
<1> SUFFICES ASSUME IInv, GetDelta PROVE IInv'
  OBVIOUS
<1> USE DEF IInv, StreamInv
<1>1. StreamInv' /\ sent' \in Seq(1..MaxDeltas)
  BY ReturnDeltaStreamInv DEF TypeOK, GetDelta
<1>2. TypeOK'
  BY <1>1 DEF TypeOK, GetDelta
<1>3. Phased' /\ Concluded' /\ Recorded'
  BY DEF GetDelta, Phased, Concluded, Recorded, Unsettled, Streaming, Surface
<1> QED BY <1>1, <1>2, <1>3

(* The end is taken: the run has succeeded. *)
LEMMA GetDoneStep == IInv /\ GetDone => IInv'
<1> SUFFICES ASSUME IInv, GetDone PROVE IInv'
  OBVIOUS
<1> USE DEF IInv, StreamInv
<1>1. /\ StreamInv'
      /\ pump' = "ended" /\ made = Len(sent) /\ source = "complete"
  BY ReturnEndStreamInv DEF TypeOK, GetDone
<1>2. TypeOK'
  BY <1>1 DEF TypeOK, GetDone
<1>3. Phased' /\ Concluded'
  BY <1>1 DEF GetDone, Phased, Concluded, EngineSaid, Streaming, Surface
<1>4. Recorded'
  BY DEF GetDone, Recorded, Concluded, Unsettled, Streaming, Surface
<1> QED BY <1>1, <1>2, <1>3, <1>4

(* What the end of a json run on an error leaves is typed. *)
LEMMA FailedTypes ==
    ASSUME TypeOK, UTypeOK', run' \in RunRecords,
           placed' \in Seq({"succeeded", "failed", "cancelled"}),
           pc' \in {"closing", "raising"}, status' = "failed",
           UNCHANGED <<sent, client, answer>>
    PROVE  TypeOK'
BY DEF TypeOK, Statuses, RunRecords

(* The error is taken: the run has failed; json settles it at once. *)
LEMMA GetErrorStep == IInv /\ GetError => IInv'
<1> SUFFICES ASSUME IInv, GetError PROVE IInv'
  OBVIOUS
<1> USE DEF IInv, StreamInv
<1>1. /\ StreamInv'
      /\ pump' = "ended" /\ made = Len(sent) /\ source = "broken"
  BY ReturnEndStreamInv DEF TypeOK, GetError
<1>2. CASE Streaming
  <2>1. TypeOK'
    BY <1>1, <1>2 DEF TypeOK, GetError, Statuses
  <2>2. Phased' /\ Concluded' /\ Recorded'
    BY <1>1, <1>2 DEF GetError, Phased, Concluded, Recorded, EngineSaid, Unsettled,
                    Streaming, Surface
  <2> QED BY <1>1, <2>1, <2>2
<1>3. CASE ~ Streaming /\ pc' = "closing"
  <2>1. /\ run' = EndedRun(run, "failed", 0, FALSE)
        /\ placed' = <<"failed">>
    BY <1>3 DEF EndedRun, GetError, Recorded, Unsettled, Terminal, Finish, NoMetrics, Outcome
  <2>2. /\ run'.state = "failed" /\ run'.row = "failed" /\ run'.chunks = 0
        /\ run'.surface = run.surface /\ run' \in RunRecords
    <3>1. run \in RunRecords /\ "failed" \in Statuses /\ 0 \in 0..MaxDeltas
      BY SizesAssumption DEF TypeOK, RunRecords, Statuses
    <3>2. PICK zero \in 0..MaxDeltas, st \in Statuses, no \in BOOLEAN :
            zero = 0 /\ st = "failed" /\ no = FALSE
      BY <3>1
    <3>3. run' = EndedRun(run, st, zero, no)
      BY <2>1, <3>2
    <3>4. /\ run' \in RunRecords /\ run'.surface = run.surface
          /\ run'.state = st /\ run'.row = st /\ run'.chunks = zero
      BY <3>1, <3>3, FinishedRun
    <3> QED BY <3>2, <3>4
  <2>3. TypeOK'
    <3>1. <<"failed">> \in Seq({"succeeded", "failed", "cancelled"})
      OBVIOUS
    <3>2. status' = "failed" /\ UNCHANGED <<sent, client, answer>>
      BY DEF GetError
    <3> QED BY <1>1, <1>3, <2>1, <2>2, <3>1, <3>2, FailedTypes
  <2>4. Phased' /\ Concluded'
    BY <1>1, <1>3, <2>2 DEF GetError, Phased, Concluded, EngineSaid, Streaming, Surface
  <2>5. Recorded'
    BY <1>3, <2>1, <2>2 DEF GetError, Recorded, Unsettled, Settled, Outcome, Streaming, Surface
  <2> QED BY <1>1, <2>3, <2>4, <2>5
<1>4. CASE ~ Streaming /\ pc' = "raising"
  <2>1. run' = RefusedRun(run, "failed", 0, FALSE) /\ UNCHANGED placed
    BY <1>4 DEF RefusedRun, GetError, FinishRefused, NoMetrics
  <2>2. /\ run'.state = "failed" /\ run'.row = run.row
        /\ run'.surface = run.surface /\ run' \in RunRecords
    <3>1. run \in RunRecords /\ "failed" \in Statuses /\ 0 \in 0..MaxDeltas
      BY SizesAssumption DEF TypeOK, RunRecords, Statuses
    <3>2. PICK zero \in 0..MaxDeltas, st \in Statuses, no \in BOOLEAN :
            zero = 0 /\ st = "failed" /\ no = FALSE
      BY <3>1
    <3>3. run' = RefusedRun(run, st, zero, no)
      BY <2>1, <3>2
    <3>4. /\ run' \in RunRecords /\ run'.surface = run.surface
          /\ run'.state = st /\ run'.row = run.row
      BY <3>1, <3>3, RunWithoutRow
    <3> QED BY <3>2, <3>4
  <2>3. TypeOK'
    <3>1. status' = "failed" /\ UNCHANGED <<sent, client, answer>>
      BY DEF GetError
    <3>2. placed' \in Seq({"succeeded", "failed", "cancelled"})
      BY <2>1 DEF TypeOK
    <3> QED BY <1>1, <1>4, <2>2, <3>1, <3>2, FailedTypes
  <2>4. Phased' /\ Concluded'
    BY <1>1, <1>4, <2>2 DEF GetError, Phased, Concluded, EngineSaid, Streaming, Surface
  <2>5. Recorded'
    BY <1>4, <2>1, <2>2 DEF GetError, Recorded, Unsettled, Refused
  <2> QED BY <1>1, <2>3, <2>4, <2>5
<1> QED BY <1>2, <1>3, <1>4 DEF GetError

(* The handler gives up: cancelled, or its client has left. *)
LEMMA GiveUpStep == IInv /\ (GetCancelled \/ Leave) => IInv'
<1> SUFFICES ASSUME IInv, GetCancelled \/ Leave PROVE IInv'
  OBVIOUS
<1> USE DEF IInv, StreamInv
<1>0. UNCHANGED <<made, source, sink, rest, item, queue, got, sent, run, placed, client, answer>>
  BY DEF GetCancelled, Leave
<1>a. pc' = "closing" /\ status' \in {"cancelled", "disconnected"} /\ CancelPump
      /\ pc \in {"next", "waiting", "yield"} /\ (~ Streaming => status' = "cancelled")
  BY DEF GetCancelled, Leave
<1>1. StreamInv'
  BY <1>0, <1>a, CancelPumpStreamInv DEF TypeOK
<1>2. TypeOK'
  BY <1>0, <1>1, <1>a DEF TypeOK, Statuses
<1>3. Phased' /\ Concluded'
  BY <1>0, <1>a DEF Phased, Concluded, CancelPump, Streaming, Surface
<1>4. Recorded'
  BY <1>0, <1>a DEF Recorded, Unsettled, Streaming, Surface
<1> QED BY <1>1, <1>2, <1>3, <1>4

(* The client leaves outside the try; the reasoning is yielded. *)
LEMMA LeaveStep == IInv /\ (LeaveEarly \/ LeaveLate \/ Fallback) => IInv'
<1> SUFFICES ASSUME IInv, LeaveEarly \/ LeaveLate \/ Fallback PROVE IInv'
  OBVIOUS
<1> USE DEF IInv, StreamInv
<1>0. UNCHANGED <<uvars, status, sent, run, placed, client, answer>>
  BY DEF LeaveEarly, LeaveLate, Fallback
<1>1. StreamInv'
  BY <1>0, StutterStreamInv DEF TypeOK
<1>2. TypeOK'
  BY <1>0, <1>1 DEF TypeOK, LeaveEarly, LeaveLate, Fallback
<1>3. Phased'
  BY <1>0 DEF Phased, Streaming, Surface, LeaveEarly, LeaveLate, Fallback, uvars
<1>4. Concluded'
  BY <1>0 DEF Concluded, EngineSaid, Streaming, Surface, LeaveEarly, LeaveLate, Fallback, uvars,
     Phased
<1>5. Recorded'
  <2>1. CASE LeaveEarly
    BY <1>0, <2>1 DEF LeaveEarly, Recorded, Unsettled, Phased, uvars
  <2>2. CASE LeaveLate
    BY <1>0, <2>2 DEF LeaveLate, Recorded, Settled, Phased, NoAnswer, AnswerMatchesRecord, uvars, Outcome
  <2>3. CASE Fallback
    BY <1>0, <2>3 DEF Fallback, Recorded, Settled, Surface, Truncated, OnlyReasoning, uvars, Outcome
  <2> QED BY <2>1, <2>2, <2>3
<1> QED BY <1>1, <1>2, <1>3, <1>4, <1>5
AnswerRecords == [code : {0, 200, 500, 502}, status : {"none"} \cup Statuses,
                  finish : {"none", "stop", "length", "cancelled", "error"},
                  chunks : 0..MaxDeltas, marker : BOOLEAN]

(* No more deltas are sent than the engine may make. *)
LEMMA SentIsShort == IInv => Len(sent) \in 0..MaxDeltas
BY SizesAssumption DEF IInv, StreamInv, TypeOK, UTypeOK, Numbered

(* The finally settles the run, once. *)
LEMMA SettleStreamStep == IInv /\ SettleStream => IInv'
<1> SUFFICES ASSUME IInv, SettleStream PROVE IInv'
  OBVIOUS
<1> DEFINE m == Surface = "generate" /\ Truncated
<1>0. UNCHANGED <<uvars, status, sent, client, answer>> /\ m \in BOOLEAN
      /\ pc = "closing" /\ pump = "ended" /\ Streaming
  BY DEF SettleStream
<1>1. StreamInv'
  BY <1>0, StutterStreamInv DEF IInv, TypeOK
<1>2. Unsettled
  BY <1>0 DEF IInv, Recorded
<1>3. /\ run' = EndedRun(run, status, Len(sent), m)
      /\ placed' = <<Outcome(status)>>
  BY <1>2 DEF EndedRun, Unsettled, Terminal, SettleStream, Finish
<1>4. /\ run' \in RunRecords /\ run'.surface = run.surface
      /\ run'.state = status /\ run'.row = status
      /\ run'.chunks = Len(sent) /\ run'.marker = m
  <2>1. run \in RunRecords /\ status \in Statuses
    BY DEF IInv, TypeOK, RunRecords
  <2>2. PICK b \in BOOLEAN : b = m
    BY <1>0
  <2>3. run' = EndedRun(run, status, Len(sent), b)
    BY <1>3, <2>2
  <2>4. /\ run' \in RunRecords /\ run'.surface = run.surface
        /\ run'.state = status /\ run'.row = status
        /\ run'.chunks = Len(sent) /\ run'.marker = b
    BY <2>1, <2>3, FinishedRun, SentIsShort
  <2> QED BY <2>2, <2>4
<1>5. pc' = IF status = "disconnected" THEN "over" ELSE IF m THEN "fallback" ELSE "document"
  <2>1. CASE status = "disconnected"
    BY <2>1 DEF SettleStream, Truncated
  <2>2. CASE status # "disconnected" /\ m
    BY <2>2 DEF SettleStream
  <2>3. CASE status # "disconnected" /\ ~ m
    BY <2>3 DEF SettleStream
  <2> QED BY <2>1, <2>2, <2>3
<1>6. TypeOK'
  <2>1. Outcome(status) \in {"succeeded", "failed", "cancelled"}
    BY DEF IInv, TypeOK, Statuses, Outcome
  <2>2. placed' \in Seq({"succeeded", "failed", "cancelled"})
    BY <2>1, <1>3
  <2> QED BY <1>0, <1>1, <1>4, <1>5, <2>2 DEF IInv, StreamInv, TypeOK, RunRecords
<1>7. Phased' /\ Concluded'
  BY <1>0, <1>4, <1>5 DEF IInv, Phased, Concluded, EngineSaid, Streaming, Surface, uvars
<1>8. Recorded'
  <2>1. Settled'
    BY <1>0, <1>3, <1>4 DEF Settled, Outcome
  <2>2. Truncated' = Truncated /\ Surface' = Surface
    BY <1>0, <1>4 DEF Truncated, OnlyReasoning, Surface, uvars
  <2>3. answer' = NoAnswer
    BY <1>0, <1>2 DEF Unsettled
  <2> QED BY <1>0, <1>4, <1>5, <2>1, <2>2, <2>3
        DEF Recorded, AnswerMatchesRecord, NoAnswer, uvars
<1> QED BY <1>1, <1>6, <1>7, <1>8 DEF IInv

(* The same with the row refused: no event, no closing document. *)
LEMMA SettleRefusedStep == IInv /\ SettleRefused => IInv'
<1> SUFFICES ASSUME IInv, SettleRefused PROVE IInv'
  OBVIOUS
<1> DEFINE m == Surface = "generate" /\ Truncated
<1>0. UNCHANGED <<uvars, status, sent, placed, client, answer>> /\ m \in BOOLEAN
      /\ pc = "closing" /\ pump = "ended" /\ Streaming /\ pc' = "over"
  BY DEF SettleRefused, FinishRefused
<1>1. StreamInv'
  BY <1>0, StutterStreamInv DEF IInv, TypeOK
<1>2. Unsettled
  BY <1>0 DEF IInv, Recorded
<1>3. run' = RefusedRun(run, status, Len(sent), m)
  BY DEF RefusedRun, SettleRefused, FinishRefused
<1>4. /\ run' \in RunRecords /\ run'.surface = run.surface
      /\ run'.state = status /\ run'.row = run.row
  <2>1. run \in RunRecords /\ status \in Statuses
    BY DEF IInv, TypeOK, RunRecords
  <2>2. PICK b \in BOOLEAN : b = m
    BY <1>0
  <2>3. run' = RefusedRun(run, status, Len(sent), b)
    BY <1>3, <2>2
  <2> QED BY <2>1, <2>3, RunWithoutRow, SentIsShort
<1>5. TypeOK'
  BY <1>0, <1>1, <1>4 DEF IInv, StreamInv, TypeOK, RunRecords
<1>6. Phased' /\ Concluded'
  BY <1>0, <1>4 DEF IInv, Phased, Concluded, EngineSaid, Streaming, Surface, uvars
<1>7. Recorded'
  BY <1>0, <1>2, <1>4 DEF Recorded, Unsettled, Refused, uvars
<1> QED BY <1>1, <1>5, <1>6, <1>7 DEF IInv

(* A handler that is over with the document's answer. *)
LEMMA DocumentEnds ==
    ASSUME IInv, UNCHANGED <<uvars, status, sent, run, placed, client>>,
           pc = "document", pc' = "over", pump = "ended", Settled,
           StreamInv', answer' \in AnswerRecords, answer'.code = 200, AnswerMatchesRecord'
    PROVE  IInv'
<1>1. TypeOK'
  BY DEF IInv, StreamInv, TypeOK, AnswerRecords
<1>2. Phased' /\ Concluded'
  BY DEF IInv, Phased, Concluded, EngineSaid, Streaming, Surface, uvars
<1>3. Settled'
  BY DEF Settled, Outcome
<1>4. Recorded'
  BY <1>3 DEF Recorded, uvars
<1> QED BY <1>1, <1>2, <1>4 DEF IInv

(* The closing document repeats what the finally has stored. *)
LEMMA DocumentStep == IInv /\ Document => IInv'
<1> SUFFICES ASSUME IInv, Document PROVE IInv'
  OBVIOUS
<1>0. UNCHANGED <<uvars, status, sent, run, placed, client>>
      /\ pc = "document" /\ pc' = "over"
  BY DEF Document
<1>1. StreamInv'
  BY <1>0, StutterStreamInv DEF IInv, TypeOK
<1>2. /\ Settled /\ run.chunks = Len(sent) /\ pump = "ended" /\ Streaming
      /\ run.marker = (Surface = "generate" /\ Truncated)
  BY <1>0 DEF IInv, Recorded, Phased
<1>3. /\ status \in {"succeeded", "cancelled", "failed"} /\ status \in Statuses
      /\ status \in DOMAIN FinishReason
      /\ FinishReason[status] \in {"stop", "cancelled", "error"}
  BY <1>0 DEF IInv, TypeOK, Statuses, Concluded, FinishReason
<1>4. CASE Surface = "generate"
  <2>1. answer' = [code |-> 200, status |-> status, finish |-> "none", chunks |-> Len(sent),
                   marker |-> Truncated]
    BY <1>4 DEF Document, NoAnswer
  <2>2. Truncated \in BOOLEAN
    BY DEF Truncated
  <2>3. answer' \in AnswerRecords
    BY <1>3, <2>1, <2>2, SentIsShort DEF AnswerRecords
  <2>4. /\ answer'.code = 200 /\ answer'.status = status /\ answer'.chunks = Len(sent)
        /\ answer'.marker = Truncated
    BY <2>1
  <2>5. AnswerMatchesRecord'
    <3>1. run.marker = Truncated
      <4>1. (Surface = "generate" /\ Truncated) = Truncated
        BY <1>4, <2>2
      <4> QED BY <1>2, <4>1
    <3>2. run.state = status
      BY <1>2 DEF Settled
    <3> QED BY <1>0, <1>2, <1>3, <1>4, <2>4, <3>1, <3>2 DEF AnswerMatchesRecord, Surface
  <2> QED BY <1>0, <1>1, <1>2, <2>3, <2>4, <2>5, DocumentEnds
<1>5. CASE Surface # "generate"
  <2>1. answer' = [code |-> 200, status |-> "none", finish |-> FinishReason[status],
                   chunks |-> 0, marker |-> FALSE]
    BY <1>5 DEF Document, NoAnswer
  <2>2. answer' \in AnswerRecords
    BY <1>3, <2>1, SizesAssumption DEF AnswerRecords
  <2>3. answer'.code = 200 /\ answer'.finish = FinishReason[status]
    BY <2>1
  <2>4. AnswerMatchesRecord'
    BY <1>0, <1>2, <1>3, <1>5, <2>3 DEF AnswerMatchesRecord, Settled, Surface, Streaming
  <2> QED BY <1>0, <1>1, <1>2, <2>2, <2>3, <2>4, DocumentEnds
<1> QED BY <1>4, <1>5

(* json's 502, after the run was settled, or its 500 when the row was not   *)
(* written.                                                                 *)
LEMMA AnswerErrorStep == IInv /\ AnswerError => IInv'
<1> SUFFICES ASSUME IInv, AnswerError PROVE IInv'
  OBVIOUS
<1>0. UNCHANGED <<uvars, status, sent, run, placed, client>>
      /\ pc \in {"closing", "raising"} /\ pump = "ended" /\ ~ Streaming
      /\ status = "failed" /\ pc' = "over"
  BY DEF AnswerError
<1>1. StreamInv'
  BY <1>0, StutterStreamInv DEF IInv, TypeOK
<1> DEFINE c == IF pc = "closing" THEN 502 ELSE 500
<1>2. answer' = [code |-> c, status |-> "none", finish |-> "none", chunks |-> 0,
                 marker |-> FALSE]
  BY DEF AnswerError, NoAnswer
<1>c. c \in {500, 502} /\ (pc = "closing" => c = 502) /\ (pc = "raising" => c = 500)
  OBVIOUS
<1> HIDE DEF c
<1>3. TypeOK'
  <2>1. answer' \in AnswerRecords
    BY <1>2, <1>c, SizesAssumption DEF AnswerRecords
  <2> QED BY <1>0, <1>1, <2>1 DEF IInv, StreamInv, TypeOK, AnswerRecords
<1>4. Phased' /\ Concluded'
  BY <1>0 DEF IInv, Phased, Concluded, EngineSaid, Streaming, Surface, uvars
<1>5. Recorded'
  <2>1. answer'.code = c
    BY <1>2
  <2>2. CASE pc = "closing"
    <3>1. Settled
      BY <1>0, <2>2 DEF IInv, Recorded
    <3>2. Settled' /\ AnswerMatchesRecord' /\ answer'.code = 502
      BY <1>0, <1>c, <2>1, <2>2, <3>1 DEF Settled, AnswerMatchesRecord, Outcome, Surface
    <3> QED BY <1>0, <3>2 DEF Recorded, uvars
  <2>3. CASE pc = "raising"
    <3>1. Refused /\ c = 500
      BY <1>0, <1>c, <2>3 DEF IInv, Recorded
    <3> QED BY <1>0, <2>1, <3>1 DEF Recorded, Refused, Terminal, uvars
  <2> QED BY <1>0, <2>2, <2>3
<1> QED BY <1>1, <1>3, <1>4, <1>5 DEF IInv

(* json's answer. *)
LEMMA AnswerJsonStep == IInv /\ AnswerJson => IInv'
<1> SUFFICES ASSUME IInv, AnswerJson PROVE IInv'
  OBVIOUS
<1>0. UNCHANGED <<uvars, status, sent, client>>
      /\ pc = "closing" /\ pump = "ended" /\ ~ Streaming /\ status # "failed" /\ pc' = "over"
  BY DEF AnswerJson
<1>1. StreamInv'
  BY <1>0, StutterStreamInv DEF IInv, TypeOK
<1>2. Unsettled /\ run \in RunRecords /\ status \in {"succeeded", "cancelled"}
  BY <1>0 DEF IInv, Recorded, TypeOK, RunRecords, Concluded, Statuses
<1> DEFINE fin == IF OnlyReasoning THEN "length"
                  ELSE IF status = "succeeded" THEN "stop" ELSE "cancelled"
           m == OnlyReasoning
<1>3. /\ run' = EndedRun(run, status, Len(sent), FALSE)
      /\ placed' = <<Outcome(status)>>
      /\ answer' = [code |-> 200, status |-> "none", finish |-> fin, chunks |-> 0, marker |-> m]
  <2>1. Finish(status, [chunks |-> Len(sent), marker |-> FALSE])
    BY DEF AnswerJson
  <2>2. run' = EndedRun(run, status, Len(sent), FALSE) /\ placed' = <<Outcome(status)>>
    BY <1>2, <2>1 DEF EndedRun, Finish, Unsettled, Terminal
  <2>3. answer' = [NoAnswer EXCEPT !.code = 200, !.marker = m, !.finish = fin]
    BY DEF AnswerJson
  <2> HIDE DEF fin, m
  <2>4. answer' = [code |-> 200, status |-> "none", finish |-> fin, chunks |-> 0, marker |-> m]
    BY <2>3 DEF NoAnswer
  <2> QED BY <2>2, <2>4
<1>4. /\ fin \in {"stop", "length", "cancelled"} /\ m \in BOOLEAN
      /\ fin = IF m THEN "length" ELSE FinishReason[status]
      /\ status \in DOMAIN FinishReason
  BY <1>2 DEF OnlyReasoning, IInv, TypeOK, UTypeOK, Sinks, FinishReason
<1> HIDE DEF fin, m
<1>5. /\ run' \in RunRecords /\ run'.surface = run.surface /\ run'.state = status
      /\ run'.row = status /\ run'.chunks = Len(sent)
  <2>1. PICK no \in BOOLEAN : no = FALSE
    OBVIOUS
  <2>2. run' = EndedRun(run, status, Len(sent), no) /\ status \in Statuses
    BY <1>3, <1>2, <2>1 DEF Statuses
  <2> QED BY <2>2, <1>2, FinishedRun, SentIsShort
<1>6. TypeOK'
  <2>1. answer' \in AnswerRecords
    BY <1>3, <1>4, SizesAssumption DEF AnswerRecords
  <2>2. placed' \in Seq({"succeeded", "failed", "cancelled"})
    BY <1>3, <1>2 DEF Outcome
  <2> QED BY <1>0, <1>1, <1>5, <2>1, <2>2 DEF IInv, StreamInv, TypeOK, AnswerRecords, RunRecords
<1>7. Phased' /\ Concluded'
  BY <1>0, <1>5 DEF IInv, Phased, Concluded, EngineSaid, Streaming, Surface, uvars
<1>8. Recorded'
  <2>1. Settled' /\ answer'.code = 200 /\ answer'.finish = fin /\ answer'.marker = m
    BY <1>0, <1>3, <1>5 DEF Settled, Outcome
  <2>2. AnswerMatchesRecord'
    BY <1>0, <1>4, <1>5, <2>1 DEF AnswerMatchesRecord, Surface, Streaming
  <2> QED BY <1>0, <2>1, <2>2 DEF Recorded, uvars
<1> QED BY <1>1, <1>6, <1>7, <1>8 DEF IInv

(* json's 500: the run is finished, with or without its row, and there is   *)
(* no event.                                                                *)
LEMMA AnswerRaisesStep == IInv /\ AnswerRaises => IInv'
<1> SUFFICES ASSUME IInv, AnswerRaises PROVE IInv'
  OBVIOUS
<1>0. UNCHANGED <<uvars, status, sent, placed, client>>
      /\ pc = "closing" /\ pump = "ended" /\ ~ Streaming /\ status # "failed" /\ pc' = "over"
  BY DEF AnswerRaises, FinishRefused
<1>1. StreamInv'
  BY <1>0, StutterStreamInv DEF IInv, TypeOK
<1>2. Unsettled /\ run \in RunRecords /\ status \in Statuses /\ Len(sent) \in 0..MaxDeltas
  BY <1>0, SentIsShort DEF IInv, Recorded, TypeOK, RunRecords
<1>3. run' \in RunRecords /\ run'.surface = run.surface /\ run'.state = status
  <2>1. CASE FinishRefused(status, [chunks |-> Len(sent), marker |-> FALSE])
    <3>1. PICK no \in BOOLEAN : no = FALSE
      OBVIOUS
    <3>2. run' = RefusedRun(run, status, Len(sent), no)
      BY <2>1, <3>1 DEF FinishRefused, RefusedRun
    <3> QED BY <1>2, <3>2, RunWithoutRow
  <2>2. CASE run' = [run EXCEPT !.state = status, !.chunks = Len(sent), !.row = status]
    BY <1>2, <2>2 DEF RunRecords
  <2> QED BY <2>1, <2>2 DEF AnswerRaises
<1>4. answer' = [code |-> 500, status |-> "none", finish |-> "none", chunks |-> 0,
                 marker |-> FALSE]
  BY DEF AnswerRaises, NoAnswer
<1>5. TypeOK'
  <2>1. answer' \in AnswerRecords
    BY <1>4, SizesAssumption DEF AnswerRecords
  <2> QED BY <1>0, <1>1, <1>3, <2>1 DEF IInv, StreamInv, TypeOK, AnswerRecords, RunRecords
<1>6. Phased' /\ Concluded'
  BY <1>0, <1>3 DEF IInv, Phased, Concluded, EngineSaid, Streaming, Surface, uvars
<1>7. Recorded'
  <2>1. answer'.code = 500 /\ Terminal' /\ placed' = <<>>
    BY <1>0, <1>2, <1>3, <1>4 DEF Unsettled, Terminal, Statuses
  <2> QED BY <1>0, <2>1 DEF Recorded, uvars
<1> QED BY <1>1, <1>5, <1>6, <1>7 DEF IInv

(* A cancellation request changes nothing of the record but its flag. *)
LEMMA RequestCancelStep == IInv /\ RequestCancel => IInv'
<1> SUFFICES ASSUME IInv, RequestCancel PROVE IInv'
  OBVIOUS
<1>0. UNCHANGED <<uvars, pc, status, sent, placed, client, answer>>
      /\ run' = [run EXCEPT !.cancel = TRUE]
  BY DEF RequestCancel
<1>1. StreamInv'
  BY <1>0, StutterStreamInv DEF IInv, TypeOK
<1>2. /\ run' \in RunRecords /\ run'.surface = run.surface /\ run'.state = run.state
      /\ run'.chunks = run.chunks /\ run'.marker = run.marker /\ run'.row = run.row
  BY <1>0 DEF IInv, TypeOK, RunRecords
<1>3. TypeOK'
  BY <1>0, <1>1, <1>2 DEF IInv, StreamInv, TypeOK, RunRecords
<1>4. Phased' /\ Concluded'
  BY <1>0, <1>2 DEF IInv, Phased, Concluded, EngineSaid, Streaming, Surface, uvars
<1>5. Recorded'
  <2>1. /\ Unsettled' = Unsettled /\ Settled' = Settled /\ Streaming' = Streaming
        /\ Refused' = Refused
        /\ Terminal' = Terminal /\ AnswerMatchesRecord' = AnswerMatchesRecord
        /\ (Surface = "generate" /\ Truncated)' = (Surface = "generate" /\ Truncated)
    BY <1>0, <1>2 DEF Unsettled, Settled, Refused, Streaming, Surface, Terminal, AnswerMatchesRecord,
         Truncated, OnlyReasoning, Outcome, uvars
  <2> QED BY <1>0, <1>2, <2>1 DEF IInv, Recorded, uvars
<1> QED BY <1>1, <1>3, <1>4, <1>5 DEF IInv

(* Every step of the specification keeps the invariant. *)
LEMMA NextIInv == IInv /\ [Next]_vars => IInv'
<1> SUFFICES ASSUME IInv, [Next]_vars PROVE IInv'
  OBVIOUS
<1>1. CASE UNCHANGED vars
  <2>1. UNCHANGED <<uvars, sent>>
    BY <1>1 DEF vars, uvars
  <2>2. StreamInv'
    BY <2>1, StutterStreamInv DEF IInv, TypeOK
  <2>3. TypeOK' /\ Phased' /\ Concluded'
    BY <1>1, <2>2 DEF vars, IInv, StreamInv, TypeOK, Phased, Concluded, EngineSaid, Streaming, Surface
  <2>4. Recorded'
    BY <1>1 DEF vars, IInv, Recorded, Unsettled, Settled, Refused, Outcome, Streaming, Surface,
         Terminal, AnswerMatchesRecord, Truncated, OnlyReasoning
  <2> QED BY <2>2, <2>3, <2>4 DEF IInv
<1> QED
  BY <1>1, UpstreamStep, QuietStep, GetDeltaStep, GetDoneStep, GetErrorStep, GiveUpStep,
     LeaveStep, SettleStreamStep, SettleRefusedStep, DocumentStep, AnswerErrorStep,
     AnswerJsonStep, AnswerRaisesStep, RequestCancelStep
  DEF Next, Handler, Leaving, Env

---------------------------------------------------------------------------
(* The inductive invariant holds of every run on every surface, whatever   *)
(* the engine sends and whenever the client cancels or leaves.              *)
THEOREM Invariant == Spec => []IInv
BY InitIInv, NextIInv, PTL DEF Spec

(* Every variable of a run that is being served has its type: in particular *)
(* the stored chunk count never exceeds what the engine made.               *)
THEOREM TypeCorrect == Spec => []TypeOK
<1>1. IInv => TypeOK
  BY DEF IInv
<1> QED BY <1>1, Invariant, PTL

(* The client is handed a prefix of the engine's deltas, in order and       *)
(* without a gap, through the pump, a queue of any size and a cancellation. *)
THEOREM RelaysInOrder == Spec => []SentInOrder
<1>1. IInv => SentInOrder
  BY DEF IInv, StreamInv, Numbered
<1> QED BY <1>1, Invariant, PTL

(* The event log never has two placed events for a run, none before the run *)
(* is terminal and journaled, and the one it has agrees with the registry;  *)
(* a response that ends without one said 500, or was cut short by a refused *)
(* row (finish and emit_placed in the three handlers of app.py).            *)
THEOREM PlacedOnce == Spec => []OnePlacedEvent
<1>1. ASSUME IInv PROVE OnePlacedEvent
  <2>1. placed = <<>> \/ Settled
    BY <1>1 DEF IInv, TypeOK, Recorded, Unsettled, Refused
  <2>2. Settled => Terminal /\ run.row = run.state /\ placed = <<Outcome(run.state)>>
    BY <1>1 DEF IInv, TypeOK, Settled, Terminal, Statuses
  <2>3. Len(placed) <= 1
    <3>1. CASE placed = <<>>
      BY <3>1
    <3>2. CASE Settled
      BY <3>2 DEF Settled
    <3> QED BY <2>1, <3>1, <3>2
  <2>4. ASSUME pc = "over", pump # "unstarted", placed = <<>>
        PROVE  answer.code = 500 \/ (answer = NoAnswer /\ run.row # run.state)
    <3>1. ~ Settled
      BY <2>4 DEF Settled
    <3>2. Refused => run.row # run.state
      BY <1>1 DEF Refused, IInv, TypeOK, Statuses
    <3> QED BY <1>1, <2>4, <3>1, <3>2 DEF IInv, Recorded
  <2> QED BY <2>1, <2>2, <2>3, <2>4 DEF OnePlacedEvent
<1> QED BY <1>1, Invariant, PTL

(* What the client is told at the end, in the terms of its surface, is what *)
(* GET /runs/{id} says: for /generate the state, the chunks and the marker, *)
(* for the others the finish reason, with the json answer's exception.      *)
THEOREM AnswersMatch == Spec => []AnswerMatchesRecord
<1>1. ASSUME IInv PROVE AnswerMatchesRecord
  <2>1. CASE answer.code \in {200, 502}
    <3>1. pc = "over" /\ pump # "unstarted"
      BY <1>1, <2>1 DEF IInv, TypeOK, Recorded, Unsettled, NoAnswer
    <3> QED BY <1>1, <2>1, <3>1 DEF IInv, Recorded, NoAnswer
  <2>2. CASE answer.code \notin {200, 502}
    BY <2>2 DEF AnswerMatchesRecord
  <2> QED BY <2>1, <2>2
<1> QED BY <1>1, Invariant, PTL
---------------------------------------------------------------------------
(* The refinement of Relay.tla. *)

(* A step that leaves these alone is a stutter of the relay. *)
LEMMA RelayStutter ==
    UNCHANGED <<made, source>> /\ Len(sent') = Len(sent) /\ run'.state = run.state
      => UNCHANGED R!rvars
BY DEF R!rvars

(* The engine is at most QueueSize + 2 deltas ahead once it has made one, and  *)
(* the connection ends once.                                                *)
LEMMA RelayUpstream ==
    ASSUME IInv, UNext, UNCHANGED hvars
    PROVE  [R!Next]_R!rvars
<1>0. UNCHANGED <<sent, run>>
  BY DEF hvars
<1>1. ASSUME NEW chunk \in Chunks, ReadChunk(chunk) PROVE [R!Next]_R!rvars
  <2>1. CASE chunk.content
    <3>1. /\ source = "open" /\ made < MaxDeltas /\ made' = made + 1
          /\ made = Fetched + Len(queue) /\ Len(queue) <= QueueSize
      BY <1>1, <2>1 DEF ReadChunk, IInv, StreamInv, Pumped, TypeOK, UTypeOK
    <3>2. made < Len(sent) + (QueueSize + 2)
      <4>1. /\ Hand \in {0, 1} /\ Len(sent) \in Nat /\ Len(queue) \in Nat
            /\ QueueSize \in Nat /\ made = Len(sent) + Hand + Len(queue)
        BY <3>1, FetchedNat, SizesAssumption DEF IInv, TypeOK, Fetched
      <4> QED BY <3>1, <4>1
    <3>3. R!Make
      BY <1>0, <1>1, <2>1, <3>1, <3>2 DEF ReadChunk, R!Make
    <3> QED BY <3>3 DEF R!Next
  <2>2. CASE ~ chunk.content
    BY <1>0, <1>1, <2>2, RelayStutter DEF ReadChunk
  <2> QED BY <2>1, <2>2
<1>2. ASSUME NEW how \in {"complete", "broken"}, EngineEnd(how) PROVE [R!Next]_R!rvars
  <2>1. R!EndOfSource(how)
    BY <1>0, <1>2 DEF EngineEnd, IInv, StreamInv, Pumped, R!EndOfSource
  <2> QED BY <2>1 DEF R!Next
<1>3. CASE PumpPut
  BY <1>0, <1>3, RelayStutter DEF PumpPut
<1>4. CASE PumpStop
  <2>1. CASE source = "open"
    <3>1. R!EndOfSource("dropped")
      BY <1>0, <1>4, <2>1 DEF PumpStop, R!EndOfSource
    <3> QED BY <3>1 DEF R!Next
  <2>2. CASE source # "open"
    BY <1>0, <1>4, <2>2, RelayStutter DEF PumpStop
  <2> QED BY <2>1, <2>2
<1> QED BY <1>1, <1>2, <1>3, <1>4 DEF UNext, Engine

(* Returning a delta relays one that was made and not yet relayed. *)
LEMMA RelayGetDelta ==
    ASSUME IInv, GetDelta
    PROVE  R!Next
<1>1. Len(sent') = Len(sent) + 1 /\ Len(sent) < made
  BY ReturnDeltaStreamInv DEF IInv, TypeOK, GetDelta
<1>2. run.state = "running" /\ UNCHANGED <<made, source, run>>
  BY DEF IInv, Recorded, Unsettled, GetDelta
<1>3. R!Pass
  BY <1>1, <1>2 DEF R!Pass
<1> QED BY <1>3 DEF R!Next

(* A run that is settled after aclose is settled truthfully. *)
LEMMA RelaySettle ==
    ASSUME IInv, pc = "closing", pump = "ended", Unsettled,
           run'.state = status, UNCHANGED <<uvars, sent>>
    PROVE  R!Next
<1>1. R!Truthful(status)
  BY DEF IInv, StreamInv, Concluded, EngineSaid, Pumped, R!Truthful
<1>2. R!Settle(status)
  BY <1>1 DEF Unsettled, R!Settle, uvars
<1>3. status \in {"succeeded", "failed", "cancelled", "disconnected"}
  BY DEF IInv, TypeOK, Statuses
<1> QED BY <1>2, <1>3 DEF R!Next

(* The one run that is settled before aclose: json, on the engine's error. *)
LEMMA RelayGetError ==
    ASSUME IInv, GetError
    PROVE  [R!Next]_R!rvars
<1>1. made = Len(sent) /\ source = "broken" /\ UNCHANGED <<made, source, sent>>
  BY ReturnEndStreamInv DEF IInv, TypeOK, GetError
<1>2. CASE Streaming
  BY <1>1, <1>2, RelayStutter DEF GetError
<1>3. CASE ~ Streaming
  <2>1. run.state = "running" /\ run'.state = "failed"
    <3>1. run \in RunRecords /\ run.state = "running"
      BY DEF GetError, IInv, TypeOK, RunRecords, Recorded, Unsettled
    <3>2. \/ run' = EndedRun(run, "failed", 0, FALSE)
          \/ run' = RefusedRun(run, "failed", 0, FALSE)
      BY <1>3, <3>1 DEF GetError, Finish, FinishRefused, Terminal, NoMetrics, EndedRun, RefusedRun
    <3> QED BY <3>1, <3>2 DEF RunRecords, EndedRun, RefusedRun
  <2>2. R!Settle("failed")
    BY <1>1, <2>1 DEF R!Settle, R!Truthful
  <2> QED BY <2>2 DEF R!Next
<1> QED BY <1>2, <1>3

(* Every step of Serving is a step of Relay or a stutter. *)
LEMMA RelayStep == IInv /\ [Next]_vars => [R!Next]_R!rvars
<1> SUFFICES ASSUME IInv, [Next]_vars PROVE [R!Next]_R!rvars
  OBVIOUS
<1>1. CASE \/ Begin \/ StartUpstream \/ Ask \/ Fetch \/ GetDone \/ GetCancelled \/ Fallback
           \/ Document \/ AnswerError \/ Resume \/ Leaving \/ Disconnect \/ Over \/ UNCHANGED vars
  <2>1. UNCHANGED <<made, source, sent, run>>
    BY <1>1 DEF Begin, StartUpstream, Start, Ask, Fetch, Pop, GetDone, GetCancelled, Fallback,
         Document, AnswerError, Resume, Leaving, Leave, LeaveEarly, LeaveLate, Disconnect, Over,
         vars, uvars, hvars
  <2> QED BY <2>1, RelayStutter
<1>2. CASE RequestCancel
  BY <1>2, RelayStutter DEF RequestCancel, uvars, IInv, TypeOK
<1>3. CASE SettleStream \/ SettleRefused
  <2>1. Unsettled
    BY <1>3 DEF SettleStream, SettleRefused, IInv, Recorded
  <2>2. run'.state = status
    <3>1. run \in RunRecords
      BY DEF IInv, TypeOK, RunRecords
    <3>2. PICK m : \/ run' = EndedRun(run, status, Len(sent), m)
                   \/ run' = RefusedRun(run, status, Len(sent), m)
      BY <1>3, <2>1 DEF SettleStream, SettleRefused, Finish, FinishRefused, Unsettled, Terminal,
           EndedRun, RefusedRun
    <3> QED BY <3>1, <3>2 DEF RunRecords, EndedRun, RefusedRun
  <2>3. pc = "closing" /\ pump = "ended" /\ UNCHANGED <<uvars, sent>>
    BY <1>3 DEF SettleStream, SettleRefused
  <2> QED BY <2>1, <2>2, <2>3, RelaySettle
<1>4. CASE AnswerJson \/ AnswerRaises
  <2>1. Unsettled
    BY <1>4 DEF AnswerJson, AnswerRaises, IInv, Recorded
  <2>2. run'.state = status
    <3>1. run \in RunRecords /\ run.state = "running"
      BY <2>1 DEF IInv, TypeOK, RunRecords, Unsettled
    <3>2. \/ run' = EndedRun(run, status, Len(sent), FALSE)
          \/ run' = RefusedRun(run, status, Len(sent), FALSE)
          \/ run' = [run EXCEPT !.state = status, !.chunks = Len(sent), !.row = status]
      BY <1>4, <3>1 DEF AnswerJson, AnswerRaises, Finish, FinishRefused, Terminal, EndedRun,
           RefusedRun
    <3> QED BY <3>1, <3>2 DEF RunRecords, EndedRun, RefusedRun
  <2>3. pc = "closing" /\ pump = "ended" /\ UNCHANGED <<uvars, sent>>
    BY <1>4 DEF AnswerJson, AnswerRaises
  <2> QED BY <2>1, <2>2, <2>3, RelaySettle
<1> QED
  BY <1>1, <1>2, <1>3, <1>4, RelayUpstream, RelayGetDelta, RelayGetError
  DEF Next, Handler, Env

(* Each surface implements the relay: in order, nothing lost or repeated,   *)
(* the engine at most QueueSize + 2 deltas ahead, the run settled once, with *)
(* a true status, after its upstream connection is gone.                    *)
THEOREM ServingImplementsRelay == Spec => ImplementsRelay
<1>1. Init => R!Init
  BY DEF Init, UInit, R!Init
<1> QED BY <1>1, Invariant, RelayStep, PTL DEF Spec, ImplementsRelay, R!Spec
=============================================================================
