------------------------------ MODULE Gateway -------------------------------
(***************************************************************************)
(* Two calls at once on one server: each is a Routing call, over the one   *)
(* provider cache; the runs of the calls that are placed are the load the  *)
(* snapshots show; and both tell the event bus how they ended.             *)
(*                                                                         *)
(* How a run is served is Serving's subject: here it ends, or its client   *)
(* leaves before the answer begins, and then it is never finished.         *)
(***************************************************************************)
EXTENDS EventBus, FiniteSets, Integers, Sequences

CONSTANTS
    AnyModel, NoPlacement, Fleet, Inventories, Loads, Ages, Headers, Bodies, Wishes,
    MaxCalls,    \* bound: calls in all
    MaxLeaks     \* bound: runs of one provider that are never finished

VARIABLES
    cache, one, two,  \* the cache, and the call of each of the two clients
    leaked,           \* provider |-> its runs that nobody will finish
    number,           \* client |-> the number of its call
    made,             \* calls so far
    raced,            \* history: clients whose snapshot the load moved under
    ran, ended        \* history: the calls that had a run, and whose run ended

One == INSTANCE Routing WITH call <- one
Two == INSTANCE Routing WITH call <- two

(* Every load there can be is one of Loads: the runs that nobody will       *)
(* finish, and one of the other client.                                     *)
ASSUME LoadsCover == MaxLeaks \in Nat /\ 0..(MaxLeaks + 1) \subseteq Loads

(* The rest of the constants are Routing's, and so is what holds of them. *)
ASSUME CallsAssumption ==
    /\ One!ModelsAssumption /\ One!PlacementAssumption
    /\ One!FleetAssumption /\ One!InventoriesAssumption /\ One!LoadsAssumption
    /\ One!RawsAssumption /\ One!AgesAssumption /\ One!WishesAssumption

Clients == {1, 2}
Of(c) == IF c = 1 THEN one ELSE two
history == <<raced, ran, ended>>
all == <<cache, one, two, leaked, number, made, history, bus>>

Init ==
    /\ One!Init /\ Two!Init /\ BusInit
    /\ leaked = [p \in One!Ids |-> 0]
    /\ number = [c \in Clients |-> 0]
    /\ made = 0
    /\ raced = {} /\ ran = {} /\ ended = {}

(* A call that has a run: RunRegistry.create follows placement at once. *)
Running(call) == call.pc = "answered" /\ call.answer = "placed"

(* RunRegistry.active_count: pending runs count, and so do those nobody will *)
(* finish.                                                                   *)
Active(p) ==
    leaked[p] + Cardinality({c \in Clients : Running(Of(c)) /\ Of(c).placed.provider = p})

(* Mutant: the load is read once for a snapshot, not for every provider. *)
NextLoadOnce(call) == IF call.view = <<>> THEN Active(1) ELSE call.view[1].active_runs

(* The load that goes into the entry of a snapshot copied next. *)
NextLoad(call) == Active(Len(call.view) + 1)

(* A change of the load: the snapshots being taken may have missed it. *)
Moved(c) == raced' = raced \cup {d \in Clients \ {c} : Of(d).pc = "looking"}

Event(type, n) == [type |-> type, of |-> n]

(* Mutant: only Layer 1 tells of a refusal. *)
RefusedByLayer1(call) == call.answer = "refused"

(* Both surfaces tell of a refusal, /v1 before it looks for the reason. *)
Refused(call) == call.answer = "refused" \/ call.pc = "explaining"

---------------------------------------------------------------------------
(* The cache moves under both calls. *)
Probes ==
    /\ \E p \in One!Ids : \/ One!ProbeDown(p) /\ UNCHANGED two
                          \/ \E models \in Inventories : One!ProbeUp(p, models) /\ UNCHANGED two
    /\ UNCHANGED <<leaked, number, made, history, bus>>

Asks(c) ==
    /\ made < MaxCalls
    /\ \E wish \in Wishes, header \in Headers, body \in Bodies :
         IF c = 1 THEN One!Ask(wish, header, body) /\ UNCHANGED two
                  ELSE Two!Ask(wish, header, body) /\ UNCHANGED one
    /\ made' = made + 1
    /\ number' = [number EXCEPT ![c] = made + 1]
    /\ raced' = raced \ {c}
    /\ UNCHANGED <<leaked, ran, ended, bus>>

Looks(c) ==
    /\ Of(c).pc = "looking"
    /\ LET load == NextLoad(Of(c))
       IN \E taken \in Ages : IF c = 1 THEN One!Look(load, taken) /\ UNCHANGED two
                                       ELSE Two!Look(load, taken) /\ UNCHANGED one
    /\ UNCHANGED <<leaked, number, made, history, bus>>

(* Placement, and with it the run of a call that is placed, or the event of *)
(* one that is refused.                                                     *)
Decides(c) ==
    /\ Of(c).pc = "looking"
    /\ LET load == NextLoad(Of(c))
       IN \E taken \in Ages : IF c = 1 THEN One!Decide(load, taken) /\ UNCHANGED two
                                       ELSE Two!Decide(load, taken) /\ UNCHANGED one
    /\ IF Running(Of(c)') THEN ran' = ran \cup {number[c]} /\ Moved(c)
                          ELSE UNCHANGED <<ran, raced>>
    /\ IF Refused(Of(c)') THEN Publish(Event("refused", number[c])) ELSE UNCHANGED bus
    /\ UNCHANGED <<leaked, number, made, ended>>

Explains(c) ==
    /\ IF c = 1 THEN (One!LookAgain \/ One!Explain) /\ UNCHANGED two
                ELSE (Two!LookAgain \/ Two!Explain) /\ UNCHANGED one
    /\ UNCHANGED <<leaked, number, made, history, bus>>

Answers(c) == IF c = 1 THEN One!Answered /\ UNCHANGED two ELSE Two!Answered /\ UNCHANGED one

(* A call without a run is answered. *)
Replies(c) ==
    /\ ~ Running(Of(c))
    /\ Answers(c)
    /\ UNCHANGED <<leaked, number, made, history, bus>>

(* A run ends, in any of its states, and its event is published; or the     *)
(* journal refuses its last row, or /v1 cannot read the usage it was sent,  *)
(* and the handler raises between the two.                                  *)
Ends(c) ==
    /\ Running(Of(c))
    /\ Answers(c)
    /\ ended' = ended \cup {number[c]}
    /\ Moved(c)
    /\ Publish(Event("placed", number[c])) \/ UNCHANGED bus
    /\ UNCHANGED <<leaked, number, made, ran>>

(* The client of a stream leaves before its body begins, and the generator  *)
(* that would finish the run never starts; or the journal refuses the first *)
(* row of the run, and the handler raises.                                  *)
Leaves(c) ==
    /\ Running(Of(c))
    /\ leaked[Of(c).placed.provider] < MaxLeaks
    /\ leaked' = [leaked EXCEPT ![Of(c).placed.provider] = @ + 1]
    /\ Answers(c)
    /\ UNCHANGED <<number, made, history, bus>>

Next ==
    \/ Probes
    \/ \E c \in Clients : Asks(c) \/ Looks(c) \/ Decides(c) \/ Explains(c)
                            \/ Replies(c) \/ Ends(c) \/ Leaves(c)
    \/ BusNext /\ UNCHANGED <<cache, one, two, leaked, number, made, history>>

Spec == Init /\ [][Next]_all

---------------------------------------------------------------------------
(* PROPERTIES *)

(* A call without a preference that is placed while no other is placed or   *)
(* ends gets the shortest queue there is, by the runs there are and not     *)
(* just those it saw: among the providers of the class it is placed in that *)
(* have its model in the same state (providers.py:177 reads the load of     *)
(* each entry as it copies it; placement.py ranks what was copied).         *)
Places(c) == ~ Running(Of(c)) /\ Running(Of(c)')
Queue(snap) == One!QueueSeconds([snap EXCEPT !.active_runs = Active(snap.id)])
ShortestQueueUnlessRaced ==
    [][\A c \in Clients : Places(c) /\ c \notin raced =>
          LET call   == Of(c)'
              work   == One!Workload(call.wish, call.privacy)
              taker  == call.view[call.placed.provider]
              warm(s) == \E m \in One!Fitting(s, work) : m.loaded
          IN \A p \in One!Ids :
               LET s == call.view[p]
               IN work.prefers \notin {"quality", "latency"}
                  /\ s \in One!Eligible({s}, work, 1, {0})
                  /\ s.placement_class = taker.placement_class
                  /\ warm(s) = warm(taker) => Queue(taker) <= Queue(s)]_all

(* What the bus is told agrees with the runs, in whatever order it comes:   *)
(* nothing of a run that has not ended; of every refusal, and of no call    *)
(* that ever had a run, that it was refused; nothing if disabled.  No event *)
(* is told again, and none that was lost is still under way.  That the end  *)
(* of a run is told is Serving's subject.                                   *)
Told(type) == {e.of : e \in {f \in Published : f.type = type}}
EventsTellTheTruth ==
    /\ flight \cap (log \cup lost) = {} /\ log \cap lost = {}
    /\ Told("placed") \subseteq ended /\ Told("refused") \cap ran = {}
    /\ ~ enabled => Published = {}
    /\ \A c \in Clients :
         enabled /\ Of(c).pc \in {"explaining", "answered"}
           => (number[c] \in Told("refused")
                 <=> Of(c).pc = "explaining"
                     \/ Of(c).answer \in {"refused", "privacy_refusal",
                                          "temporarily_unavailable", "model_not_found"})
=============================================================================
