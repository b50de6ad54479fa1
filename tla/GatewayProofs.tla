--------------------------- MODULE GatewayProofs ---------------------------
(***************************************************************************)
(* Theorems about Gateway.tla, for any fleet, calls and bounds: each of    *)
(* two calls at once is a call of Routing, so that what RoutingProofs      *)
(* proves of one holds of both; the bus is told the truth, in whatever     *)
(* order its events come; and a call that nothing moved under takes the    *)
(* shortest queue.                                                         *)
(*                                                                         *)
(* A step of a client is first reduced to what it does to its call (the    *)
(* lemmas that end in "Facts"), once for both of the clients; the          *)
(* invariants then hold whatever placement decides.                        *)
(***************************************************************************)
EXTENDS Gateway, FiniteSetTheorems, SequenceTheorems, TLAPS

(* A call is idle, or it has copied a sequence of entries for a wish it may *)
(* have.                                                                    *)
IsSeq(v) == v \in Seq({v[i] : i \in DOMAIN v})

Shaped(call) ==
    \/ call = One!Idle
    \/ /\ call.pc \in {"looking", "explaining", "answered"}
       /\ DOMAIN call = One!CallFields
       /\ IsSeq(call.view)
       /\ call.wish \in Wishes

Shapes == \A c \in Clients : Shaped(Of(c))

Loading == leaked \in [One!Ids -> 0..MaxLeaks]

(* Calls are numbered as they come, and runs and events with them. *)
Numbering ==
    /\ made \in Nat
    /\ number \in [Clients -> 0..made]
    /\ \A c \in Clients : Of(c).pc # "idle" => number[c] # 0
    /\ number[1] = number[2] => number[1] = 0
    /\ ended \subseteq ran /\ ran \subseteq 1..made
    /\ Published \subseteq [type : {"placed", "refused"}, of : 1..made]
    /\ enabled \in BOOLEAN
    /\ ~ enabled => Published = {}

(* What the bus is told of runs. *)
Telling ==
    /\ flight \cap (log \cup lost) = {} /\ log \cap lost = {}
    /\ \A n \in 1..made : Event("placed", n) \in Published => enabled /\ n \in ended
    /\ \A n \in ran : Event("refused", n) \notin Published

(* How far a call has come, and what has been told of it so far: a call that *)
(* looks is unknown to the bus, and one with a run has not ended it.         *)
Refusals == {"refused", "privacy_refusal", "temporarily_unavailable", "model_not_found"}
Standing(c) ==
    /\ Of(c).pc = "looking" => number[c] \notin ran /\ Event("refused", number[c]) \notin Published
    /\ Of(c).pc = "explaining" => number[c] \notin ran
    /\ Running(Of(c)) => number[c] \in ran \ ended
    /\ enabled /\ Of(c).pc \in {"explaining", "answered"} =>
         (Event("refused", number[c]) \in Published
            <=> Of(c).pc = "explaining" \/ Of(c).answer \in Refusals)

IInv == Shapes /\ Loading /\ Numbering /\ Telling /\ \A c \in Clients : Standing(c)

---------------------------------------------------------------------------
(* The constants of a fleet. *)
LEMMA FleetFacts ==
    /\ Len(Fleet) \in Nat \ {0} /\ One!Ids = 1..Len(Fleet) /\ One!Last = Len(Fleet)
    /\ Two!Last = Len(Fleet)
BY CallsAssumption DEF One!FleetAssumption, One!Ids, One!Last, Two!Last

LEMMA Surfaces ==
    \A w \in Wishes : w.surface \in {"estimate", "generate", "openai"}
BY CallsAssumption DEF One!WishesAssumption

(* Copying keeps a sequence a sequence. *)
LEMMA SequenceGrows ==
    ASSUME NEW v, IsSeq(v), NEW x
    PROVE  Len(v) \in Nat /\ IsSeq(Append(v, x)) /\ Len(Append(v, x)) = Len(v) + 1
<1> DEFINE S == {v[i] : i \in DOMAIN v} \cup {x}
<1>1. v \in Seq({v[i] : i \in DOMAIN v}) /\ {v[i] : i \in DOMAIN v} \subseteq S
  BY DEF IsSeq
<1>2. v \in Seq(S) /\ x \in S
  <2> HIDE DEF S
  <2>1. x \in S
    BY DEF S
  <2> QED BY <1>1, <2>1
<1> HIDE DEF S
<1> DEFINE w == Append(v, x)
<1>3. w \in Seq(S) /\ Len(w) = Len(v) + 1 /\ Len(v) \in Nat
  BY <1>2, AppendProperties, LenProperties
<1> HIDE DEF w
<1>4. w \in [1..Len(w) -> S] /\ Len(w) \in Nat /\ DOMAIN w = 1..Len(w)
  BY <1>3, LenProperties
<1>5. w \in [1..Len(w) -> {w[i] : i \in DOMAIN w}]
  BY <1>4
<1>6. IsSeq(w)
  BY <1>4, <1>5, SeqDef DEF IsSeq
<1> QED BY <1>3, <1>6 DEF w

LEMMA EmptyIsSeq == IsSeq(<<>>)
BY DEF IsSeq

(* An event is told exactly when it has been published. *)
LEMMA ToldIsPublished ==
    ASSUME Numbering, NEW type \in {"placed", "refused"}, NEW n
    PROVE  n \in Told(type) <=> Event(type, n) \in Published
<1>1. ASSUME NEW e \in Published, e.type = type, e.of = n
      PROVE  e = Event(type, n)
  BY <1>1 DEF Numbering, Event
<1>2. Event(type, n).type = type /\ Event(type, n).of = n
  BY DEF Event
<1> QED BY <1>1, <1>2 DEF Told

---------------------------------------------------------------------------
(* What each step does to the calls. *)
LEMMA OneOrTwo == \A c \in Clients : c = 1 \/ c = 2
BY DEF Clients

Others(c) == \A d \in Clients \ {c} : Of(d)' = Of(d)

LEMMA AsksFacts ==
    ASSUME NEW c \in Clients, Asks(c)
    PROVE  /\ Of(c).pc = "idle" /\ Others(c)
           /\ Shaped(Of(c)') /\ Of(c)'.pc \in {"looking", "answered"}
           /\ Of(c)'.pc = "answered" => Of(c)'.answer = "bad_request"
           /\ Of(c)'.view = <<>>
<1>1. PICK wish \in Wishes, header \in Headers, body \in Bodies :
         IF c = 1 THEN One!Ask(wish, header, body) /\ UNCHANGED two
                  ELSE Two!Ask(wish, header, body) /\ UNCHANGED one
  BY DEF Asks
<1>2. CASE c = 1
  BY <1>1, <1>2, EmptyIsSeq DEF One!Ask, Of, Others, Clients, Shaped, One!CallFields
<1>3. CASE c = 2
  BY <1>1, <1>3, EmptyIsSeq DEF Two!Ask, Of, Others, Clients, Shaped, One!CallFields
<1> QED BY <1>2, <1>3, OneOrTwo

LEMMA LooksFacts ==
    ASSUME Shapes, NEW c \in Clients, Looks(c)
    PROVE  /\ Of(c).pc = "looking" /\ Others(c)
           /\ Shaped(Of(c)') /\ Of(c)'.pc = "looking"
           /\ IsSeq(Of(c).view) /\ Len(Of(c).view) + 1 < Len(Fleet)
           /\ \E x : /\ Of(c)'.view = Append(Of(c).view, x)
                    /\ x.active_runs = NextLoad(Of(c))
<1>1. PICK x : /\ Of(c).pc = "looking" /\ Others(c)
               /\ Of(c)' = [Of(c) EXCEPT !.view = Append(@, x)]
               /\ x.active_runs = NextLoad(Of(c))
               /\ Len(Of(c).view) + 1 < Len(Fleet)
  <2>1. PICK taken \in Ages :
           IF c = 1 THEN One!Look(NextLoad(Of(c)), taken) /\ UNCHANGED two
                    ELSE Two!Look(NextLoad(Of(c)), taken) /\ UNCHANGED one
    BY DEF Looks
  <2>2. CASE c = 1
    BY <2>1, <2>2, FleetFacts DEF One!Look, One!Snapshot, Of, Others, Clients
  <2>3. CASE c = 2
    BY <2>1, <2>3, FleetFacts DEF Two!Look, Two!Snapshot, Of, Others, Clients
  <2> QED BY <2>2, <2>3, OneOrTwo
<1>2. /\ DOMAIN Of(c) = One!CallFields /\ IsSeq(Of(c).view) /\ Of(c).wish \in Wishes
  BY <1>1 DEF Shapes, Shaped, One!Idle
<1>3. IsSeq(Append(Of(c).view, x))
  BY <1>2, SequenceGrows
<1> QED BY <1>1, <1>2, <1>3 DEF Shaped, One!CallFields

LEMMA OutcomeFacts ==
    ASSUME NEW wish \in Wishes, NEW placed
    PROVE  /\ One!Outcome(wish, placed) \in {"bad_request", "eligible", "placed",
                                             "not_eligible", "refused", "none"}
           /\ Two!Outcome(wish, placed) \in {"bad_request", "eligible", "placed",
                                             "not_eligible", "refused", "none"}
BY Surfaces DEF One!Outcome, Two!Outcome

(* What a placement makes of a call that looks. *)
Decision(call, x, placed, rejected, answer) ==
    [call EXCEPT
        !.view = Append(call.view, x),
        !.placed = IF answer \in {"eligible", "placed"} THEN placed ELSE NoPlacement,
        !.rejected = rejected,
        !.answer = answer,
        !.pc = IF answer = "none" THEN "explaining" ELSE "answered"]

LEMMA OneDecides ==
    ASSUME NEW load, NEW taken, One!Decide(load, taken)
    PROVE  /\ Len(one.view) + 1 = Len(Fleet)
           /\ \E x, placed, rejected :
                 /\ one' = Decision(one, x, placed, rejected, One!Outcome(one.wish, placed))
                 /\ x.active_runs = load
<1> DEFINE x        == One!Snapshot(One!Last, load, taken)
           view     == Append(one.view, x)
           snaps    == {view[p] : p \in One!Ids}
           work     == One!Workload(one.wish, one.privacy)
           placed   == One!Select(snaps, work, 1, {0})
           rejected == One!Rejections(snaps, work, 1, {0})
<1>1. one' = Decision(one, x, placed, rejected, One!Outcome(one.wish, placed))
  BY DEF One!Decide, Decision
<1>2. x.active_runs = load
  BY DEF One!Snapshot
<1>3. Len(one.view) + 1 = Len(Fleet)
  BY FleetFacts DEF One!Decide
<1> QED BY <1>1, <1>2, <1>3

LEMMA TwoDecides ==
    ASSUME NEW load, NEW taken, Two!Decide(load, taken)
    PROVE  /\ Len(two.view) + 1 = Len(Fleet)
           /\ \E x, placed, rejected :
                 /\ two' = Decision(two, x, placed, rejected, Two!Outcome(two.wish, placed))
                 /\ x.active_runs = load
<1> DEFINE x        == Two!Snapshot(Two!Last, load, taken)
           view     == Append(two.view, x)
           snaps    == {view[p] : p \in Two!Ids}
           work     == Two!Workload(two.wish, two.privacy)
           placed   == Two!Select(snaps, work, 1, {0})
           rejected == Two!Rejections(snaps, work, 1, {0})
<1>1. two' = Decision(two, x, placed, rejected, Two!Outcome(two.wish, placed))
  BY DEF Two!Decide, Decision
<1>2. x.active_runs = load
  BY DEF Two!Snapshot
<1>3. Len(two.view) + 1 = Len(Fleet)
  BY FleetFacts DEF Two!Decide
<1> QED BY <1>1, <1>2, <1>3

LEMMA DecidesFacts ==
    ASSUME Shapes, NEW c \in Clients, Decides(c)
    PROVE  /\ Of(c).pc = "looking" /\ Others(c)
           /\ Shaped(Of(c)') /\ Of(c)'.pc \in {"explaining", "answered"}
           /\ Of(c)'.pc = "explaining" <=> Of(c)'.answer = "none"
           /\ Of(c)'.answer \in {"bad_request", "eligible", "placed",
                                 "not_eligible", "refused", "none"}
           /\ IsSeq(Of(c).view) /\ Len(Of(c).view) + 1 = Len(Fleet)
           /\ \E x : /\ Of(c)'.view = Append(Of(c).view, x)
                    /\ x.active_runs = NextLoad(Of(c))
<1>1. PICK taken \in Ages :
         IF c = 1 THEN One!Decide(NextLoad(Of(c)), taken) /\ UNCHANGED two
                  ELSE Two!Decide(NextLoad(Of(c)), taken) /\ UNCHANGED one
  BY DEF Decides
<1>2. Of(c).pc = "looking" /\ Shaped(Of(c))
  BY DEF Decides, Shapes
<1>3. /\ DOMAIN Of(c) = One!CallFields /\ IsSeq(Of(c).view) /\ Of(c).wish \in Wishes
  BY <1>2 DEF Shaped, One!Idle
<1>4. /\ Others(c) /\ Len(Of(c).view) + 1 = Len(Fleet)
      /\ \E x, placed, rejected, answer :
         /\ Of(c)' = Decision(Of(c), x, placed, rejected, answer)
         /\ x.active_runs = NextLoad(Of(c))
         /\ answer \in {"bad_request", "eligible", "placed", "not_eligible", "refused", "none"}
  <2>1. CASE c = 1
    <3>1. one.wish \in Wishes
      BY <1>3, <2>1 DEF Of
    <3>2. One!Decide(NextLoad(Of(c)), taken) /\ two' = two
      BY <1>1, <2>1
    <3>3. PICK x, placed, rejected :
             /\ one' = Decision(one, x, placed, rejected, One!Outcome(one.wish, placed))
             /\ x.active_runs = NextLoad(Of(c))
      BY <3>2, OneDecides
    <3>4. Len(one.view) + 1 = Len(Fleet)
      BY <3>2, OneDecides
    <3>5. One!Outcome(one.wish, placed)
             \in {"bad_request", "eligible", "placed", "not_eligible", "refused", "none"}
      BY <3>1, OutcomeFacts
    <3> QED BY <2>1, <3>2, <3>3, <3>4, <3>5 DEF Of, Others, Clients
  <2>2. CASE c = 2
    <3>1. two.wish \in Wishes
      BY <1>3, <2>2 DEF Of
    <3>2. Two!Decide(NextLoad(Of(c)), taken) /\ one' = one
      BY <1>1, <2>2
    <3>3. PICK x, placed, rejected :
             /\ two' = Decision(two, x, placed, rejected, Two!Outcome(two.wish, placed))
             /\ x.active_runs = NextLoad(Of(c))
      BY <3>2, TwoDecides
    <3>4. Len(two.view) + 1 = Len(Fleet)
      BY <3>2, TwoDecides
    <3>5. Two!Outcome(two.wish, placed)
             \in {"bad_request", "eligible", "placed", "not_eligible", "refused", "none"}
      BY <3>1, OutcomeFacts
    <3> QED BY <2>2, <3>2, <3>3, <3>4, <3>5 DEF Of, Others, Clients
  <2> QED BY <2>1, <2>2, OneOrTwo
<1>5. PICK x, placed, rejected, answer :
         /\ Of(c)' = Decision(Of(c), x, placed, rejected, answer)
         /\ x.active_runs = NextLoad(Of(c))
         /\ answer \in {"bad_request", "eligible", "placed", "not_eligible", "refused", "none"}
  BY <1>4
<1>6. IsSeq(Append(Of(c).view, x))
  BY <1>3, SequenceGrows
<1>7. /\ DOMAIN Of(c)' = One!CallFields /\ Of(c)'.view = Append(Of(c).view, x)
      /\ Of(c)'.wish = Of(c).wish /\ Of(c)'.answer = answer
      /\ Of(c)'.pc = IF answer = "none" THEN "explaining" ELSE "answered"
  BY <1>3, <1>5 DEF Decision, One!CallFields
<1> QED BY <1>2, <1>3, <1>4, <1>5, <1>6, <1>7 DEF Shaped

(* What the explanation of a refusal makes of a call. *)
Explained(call, next) ==
    /\ DOMAIN next = One!CallFields /\ next.view = call.view /\ next.wish = call.wish
    /\ \/ next.pc = "explaining" /\ next.answer = call.answer
       \/ /\ next.pc = "answered"
          /\ next.answer \in {"privacy_refusal", "temporarily_unavailable", "model_not_found"}

LEMMA OneExplains ==
    ASSUME one.pc = "explaining" => DOMAIN one = One!CallFields, One!LookAgain \/ One!Explain
    PROVE  one.pc = "explaining" /\ Explained(one, one')
<1>1. CASE One!LookAgain
  BY <1>1 DEF One!LookAgain, Explained, One!CallFields
<1>2. CASE One!Explain
  <2> DEFINE again  == Append(one.again, One!Names(cache[One!Last].models))
             model  == one.wish.model
             answer == CASE \E p \in One!Ids : model \in again[p] -> "privacy_refusal"
                         [] (\A p \in One!Ids : model \notin again[p])
                            /\ One!KnownButUnhealthy(model, one.privacy.cloud_permitted)
                              -> "temporarily_unavailable"
                         [] OTHER -> "model_not_found"
  <2>1. one' = [one EXCEPT !.again = again, !.pc = "answered", !.answer = answer]
        /\ one.pc = "explaining"
    BY <1>2 DEF One!Explain
  <2>2. answer \in {"privacy_refusal", "temporarily_unavailable", "model_not_found"}
    <3> HIDE DEF again, model
    <3> QED OBVIOUS
  <2> HIDE DEF again, answer
  <2> QED BY <2>1, <2>2 DEF Explained, One!CallFields
<1> QED BY <1>1, <1>2

LEMMA TwoExplains ==
    ASSUME two.pc = "explaining" => DOMAIN two = One!CallFields, Two!LookAgain \/ Two!Explain
    PROVE  two.pc = "explaining" /\ Explained(two, two')
<1>1. CASE Two!LookAgain
  BY <1>1 DEF Two!LookAgain, Explained, One!CallFields
<1>2. CASE Two!Explain
  <2> DEFINE again  == Append(two.again, Two!Names(cache[Two!Last].models))
             model  == two.wish.model
             answer == CASE \E p \in Two!Ids : model \in again[p] -> "privacy_refusal"
                         [] (\A p \in Two!Ids : model \notin again[p])
                            /\ Two!KnownButUnhealthy(model, two.privacy.cloud_permitted)
                              -> "temporarily_unavailable"
                         [] OTHER -> "model_not_found"
  <2>1. two' = [two EXCEPT !.again = again, !.pc = "answered", !.answer = answer]
        /\ two.pc = "explaining"
    BY <1>2 DEF Two!Explain
  <2>2. answer \in {"privacy_refusal", "temporarily_unavailable", "model_not_found"}
    <3> HIDE DEF again, model
    <3> QED OBVIOUS
  <2> HIDE DEF again, answer
  <2> QED BY <2>1, <2>2 DEF Explained, One!CallFields
<1> QED BY <1>1, <1>2

LEMMA ExplainsFacts ==
    ASSUME Shapes, NEW c \in Clients, Explains(c)
    PROVE  /\ Of(c).pc = "explaining" /\ Others(c) /\ Shaped(Of(c)')
           /\ Explained(Of(c), Of(c)')
<1>1. \A d \in Clients : Of(d).pc = "explaining" =>
         DOMAIN Of(d) = One!CallFields /\ IsSeq(Of(d).view) /\ Of(d).wish \in Wishes
  BY DEF Shapes, Shaped, One!Idle
<1>2. Of(c).pc = "explaining" /\ Others(c) /\ Explained(Of(c), Of(c)')
  <2>1. CASE c = 1
    <3>1. (One!LookAgain \/ One!Explain) /\ two' = two
      BY <2>1 DEF Explains
    <3>2. one.pc = "explaining" => DOMAIN one = One!CallFields
      BY <1>1, <2>1 DEF Of
    <3>3. one.pc = "explaining" /\ Explained(one, one')
      BY <3>1, <3>2, OneExplains
    <3> QED BY <2>1, <3>1, <3>3 DEF Of, Others, Clients
  <2>2. CASE c = 2
    <3>1. (Two!LookAgain \/ Two!Explain) /\ one' = one
      BY <2>2 DEF Explains
    <3>2. two.pc = "explaining" => DOMAIN two = One!CallFields
      BY <1>1, <2>2 DEF Of
    <3>3. two.pc = "explaining" /\ Explained(two, two')
      BY <3>1, <3>2, TwoExplains
    <3> QED BY <2>2, <3>1, <3>3 DEF Of, Others, Clients
  <2> QED BY <2>1, <2>2, OneOrTwo
<1> QED BY <1>1, <1>2 DEF Shaped, Explained

LEMMA AnswersFacts ==
    ASSUME NEW c \in Clients, Answers(c)
    PROVE  Of(c).pc = "answered" /\ Others(c) /\ Of(c)' = One!Idle
<1>1. CASE c = 1
  BY <1>1 DEF Answers, One!Answered, Of, Others, Clients
<1>2. CASE c = 2
  BY <1>2 DEF Answers, Two!Answered, Of, Others, Clients, One!Idle, Two!Idle
<1> QED BY <1>1, <1>2, OneOrTwo
---------------------------------------------------------------------------
(* The parts of the invariant, over a step of one client. *)
LEMMA EventsDiffer ==
    ASSUME NEW t, NEW u, NEW n, NEW m
    PROVE  Event(t, n) = Event(u, m) <=> t = u /\ n = m
<1>1. /\ Event(t, n).type = t /\ Event(t, n).of = n
      /\ Event(u, m).type = u /\ Event(u, m).of = m
  BY DEF Event
<1> QED BY <1>1

LEMMA PublishFacts ==
    ASSUME NEW e, enabled \in BOOLEAN, Publish(e)
    PROVE  /\ enabled' = enabled
           /\ Published' = IF enabled THEN Published \cup {e} ELSE Published
           /\ /\ flight \cap (log \cup lost) = {} /\ log \cap lost = {}
              /\ e \notin Published
              => flight' \cap (log' \cup lost') = {} /\ log' \cap lost' = {}
BY DEF Publish, Published

LEMMA ShapesKept ==
    ASSUME Shapes, NEW c \in Clients, Others(c), Shaped(Of(c)')
    PROVE  Shapes'
BY DEF Shapes, Shaped, Others

(* Where a client stands depends on its call, its number, and what of that  *)
(* number is in the histories.                                              *)
LEMMA StandingKept ==
    ASSUME NEW d \in Clients, Standing(d), Of(d)' = Of(d), number'[d] = number[d],
           enabled' = enabled,
           Of(d).pc # "idle" =>
               /\ number[d] \in ran' <=> number[d] \in ran
               /\ number[d] \in ended' <=> number[d] \in ended
               /\ Event("refused", number[d]) \in Published'
                    <=> Event("refused", number[d]) \in Published
    PROVE  Standing(d)'
<1>1. Running(Of(d))' = Running(Of(d)) /\ Running(Of(d)) => Of(d).pc = "answered"
  BY DEF Running
<1>2. Event("refused", number[d])' = Event("refused", number[d])
  BY DEF Event
<1> QED BY <1>1, <1>2 DEF Standing, Running, Refusals

(* A step that tells nobody, and in which no run begins or ends. *)
LEMMA QuietStep ==
    ASSUME IInv, NEW c \in Clients, Others(c), Shaped(Of(c)'), Loading', Standing(c)',
           UNCHANGED <<number, made, ran, ended, bus>>,
           Of(c)'.pc # "idle" => Of(c).pc # "idle"
    PROVE  IInv'
<1>1. Shapes'
  BY ShapesKept DEF IInv
<1>2. Published' = Published /\ enabled' = enabled /\ flight' = flight
      /\ log' = log /\ lost' = lost
  BY DEF Published, bus
<1>3. Numbering'
  <2>1. \A d \in Clients : Of(d)'.pc # "idle" => number[d] # 0
    BY DEF IInv, Numbering, Others
  <2> QED BY <1>2, <2>1 DEF IInv, Numbering
<1>4. Telling'
  BY <1>2 DEF IInv, Telling, Event
<1>5. \A d \in Clients : Standing(d)'
  BY <1>2, StandingKept DEF IInv, Others
<1> QED BY <1>1, <1>3, <1>4, <1>5 DEF IInv

LEMMA InitIInv == Init => IInv
<1> SUFFICES ASSUME Init PROVE IInv
  OBVIOUS
<1>1. one = One!Idle /\ two = Two!Idle
  BY DEF Init, One!Init, Two!Init
<1>2. \A c \in Clients : Of(c) = One!Idle /\ Of(c).pc = "idle"
  BY <1>1 DEF Of, One!Idle, Two!Idle
<1>3. Shapes
  BY <1>2 DEF Shapes, Shaped
<1>4. Loading
  BY LoadsCover DEF Init, Loading
<1>5. Published = {} /\ enabled \in BOOLEAN
  BY DEF Init, BusInit, Published
<1>6. Numbering
  BY <1>2, <1>5 DEF Init, Numbering, Clients
<1>7. Telling
  BY <1>5 DEF Init, BusInit, Telling
<1>8. \A c \in Clients : Standing(c)
  BY <1>2 DEF Standing, Running
<1> QED BY <1>3, <1>4, <1>6, <1>7, <1>8 DEF IInv

LEMMA ProbesStep == ASSUME IInv, Probes PROVE IInv'
<1>1. one' = one /\ two' = two /\ UNCHANGED <<leaked, number, made, history, bus>>
  BY DEF Probes, One!ProbeDown, One!ProbeUp
<1>2. \A c \in Clients : Of(c)' = Of(c)
  BY <1>1 DEF Of
<1>3. PICK c \in Clients : c = 1
  BY DEF Clients
<1>4. Others(c) /\ Shaped(Of(c)')
  BY <1>2 DEF Others, IInv, Shapes
<1>5. Loading'
  BY <1>1 DEF IInv, Loading
<1>6. Standing(c)'
  <2>1. Published' = Published /\ enabled' = enabled /\ ran' = ran /\ ended' = ended
        /\ number' = number
    BY <1>1 DEF Published, bus, history
  <2> QED BY <1>2, <2>1, StandingKept DEF IInv
<1>7. UNCHANGED <<number, made, ran, ended, bus>>
  BY <1>1 DEF history
<1> QED BY <1>2, <1>4, <1>5, <1>6, <1>7, QuietStep

LEMMA LooksStep == ASSUME IInv, NEW c \in Clients, Looks(c) PROVE IInv'
<1>1. /\ Of(c).pc = "looking" /\ Others(c)
      /\ Shaped(Of(c)') /\ Of(c)'.pc = "looking"
  BY LooksFacts DEF IInv
<1>2. UNCHANGED <<leaked, number, made, history, bus>>
  BY DEF Looks
<1>3. Loading' /\ Published' = Published /\ UNCHANGED <<number, made, ran, ended, bus, enabled>>
  BY <1>2 DEF IInv, Loading, history, bus, Published
<1>4. Standing(c)'
  BY <1>1, <1>3 DEF IInv, Standing, Running, Event
<1> QED BY <1>1, <1>3, <1>4, QuietStep

LEMMA ExplainsStep == ASSUME IInv, NEW c \in Clients, Explains(c) PROVE IInv'
<1>1. /\ Of(c).pc = "explaining" /\ Others(c) /\ Shaped(Of(c)')
      /\ Explained(Of(c), Of(c)')
  BY ExplainsFacts DEF IInv
<1>2. UNCHANGED <<leaked, number, made, history, bus>>
  BY DEF Explains
<1>3. Loading' /\ Published' = Published /\ UNCHANGED <<number, made, ran, ended, bus, enabled>>
  BY <1>2 DEF IInv, Loading, history, bus, Published
<1>4. Standing(c)'
  BY <1>1, <1>3 DEF IInv, Standing, Running, Event, Explained, Refusals
<1> QED BY <1>1, <1>3, <1>4, QuietStep

LEMMA RepliesStep == ASSUME IInv, NEW c \in Clients, Replies(c) PROVE IInv'
<1>1. Of(c).pc = "answered" /\ Others(c) /\ Of(c)' = One!Idle
  BY AnswersFacts DEF Replies
<1>2. Of(c)'.pc = "idle" /\ Shaped(Of(c)')
  BY <1>1 DEF One!Idle, Shaped
<1>3. Loading' /\ UNCHANGED <<number, made, ran, ended, bus>>
  BY DEF Replies, IInv, Loading, history
<1>4. Standing(c)'
  BY <1>2 DEF Standing, Running
<1> QED BY <1>1, <1>2, <1>3, <1>4, QuietStep

LEMMA LeavesStep == ASSUME IInv, NEW c \in Clients, Leaves(c) PROVE IInv'
<1>1. Of(c).pc = "answered" /\ Others(c) /\ Of(c)' = One!Idle
  BY AnswersFacts DEF Leaves
<1>2. Of(c)'.pc = "idle" /\ Shaped(Of(c)')
  BY <1>1 DEF One!Idle, Shaped
<1>3. Loading'
  <2> DEFINE q == Of(c).placed.provider
  <2>1. leaked' = [leaked EXCEPT ![q] = @ + 1] /\ leaked[q] < MaxLeaks
    BY DEF Leaves
  <2>2. leaked \in [One!Ids -> 0..MaxLeaks]
    BY DEF IInv, Loading
  <2> HIDE DEF q
  <2>3. \A p \in One!Ids : leaked'[p] = IF p = q THEN leaked[p] + 1 ELSE leaked[p]
    BY <2>1, <2>2
  <2>4. \A p \in One!Ids : leaked'[p] \in 0..MaxLeaks
    BY <2>1, <2>2, <2>3, LoadsCover
  <2>5. leaked' \in [One!Ids -> 0..MaxLeaks]
    BY <2>1, <2>2, <2>4
  <2> QED BY <2>5 DEF Loading
<1>4. UNCHANGED <<number, made, ran, ended, bus>>
  BY DEF Leaves, history
<1>5. Standing(c)'
  BY <1>2 DEF Standing, Running
<1> QED BY <1>1, <1>2, <1>3, <1>4, <1>5, QuietStep

LEMMA AsksStep == ASSUME IInv, NEW c \in Clients, Asks(c) PROVE IInv'
<1>1. /\ Of(c).pc = "idle" /\ Others(c)
      /\ Shaped(Of(c)') /\ Of(c)'.pc \in {"looking", "answered"}
      /\ Of(c)'.pc = "answered" => Of(c)'.answer = "bad_request"
  BY AsksFacts
<1>2. /\ made' = made + 1 /\ number' = [number EXCEPT ![c] = made + 1]
      /\ UNCHANGED <<leaked, ran, ended, bus, enabled, flight, log, lost>>
  BY DEF Asks, bus
<1>3. made \in Nat /\ number \in [Clients -> 0..made] /\ ended \subseteq ran /\ ran \subseteq 1..made
      /\ Published \subseteq [type : {"placed", "refused"}, of : 1..made]
  BY DEF IInv, Numbering
<1>4. Published' = Published
  BY <1>2 DEF Published
<1>5. made + 1 \notin ran /\ \A t : Event(t, made + 1) \notin Published
  <2>1. made + 1 \notin 1..made
    BY <1>3
  <2>2. \A t : Event(t, made + 1).of = made + 1
    BY DEF Event
  <2> QED BY <1>3, <2>1, <2>2
<1>6. /\ number'[c] = made + 1 /\ made + 1 # 0
      /\ \A d \in Clients \ {c} : number'[d] = number[d]
      /\ number' \in [Clients -> 0..made']
  BY <1>2, <1>3
<1>7. Shapes' /\ Loading'
  BY <1>1, <1>2, ShapesKept DEF IInv, Loading
<1>8. Numbering'
  <2>1. \A d \in Clients : Of(d)'.pc # "idle" => number'[d] # 0
    <3> SUFFICES ASSUME NEW d \in Clients, Of(d)'.pc # "idle"
                 PROVE  number'[d] # 0
      OBVIOUS
    <3>1. CASE d = c
      BY <1>6, <3>1
    <3>2. CASE d # c
      BY <1>1, <1>6, <3>2 DEF Others, IInv, Numbering
    <3> QED BY <3>1, <3>2
  <2>2. number'[1] = number'[2] => number'[1] = 0
    <3>1. number[1] \in 0..made /\ number[2] \in 0..made
      BY <1>3 DEF Clients
    <3>2. CASE c = 1
      <4>1. number'[1] = made + 1 /\ number'[2] = number[2]
        BY <1>6, <3>2 DEF Clients
      <4> QED BY <1>3, <3>1, <4>1
    <3>3. CASE c = 2
      <4>1. number'[2] = made + 1 /\ number'[1] = number[1]
        BY <1>6, <3>3 DEF Clients
      <4> QED BY <1>3, <3>1, <4>1
    <3> QED BY <3>2, <3>3, OneOrTwo
  <2>3. ran' \subseteq 1..made' /\ Published' \subseteq [type : {"placed", "refused"}, of : 1..made']
    <3>1. 1..made \subseteq 1..(made + 1)
      BY <1>3
    <3> QED BY <1>2, <1>3, <1>4, <3>1
  <2> QED BY <1>2, <1>3, <1>4, <1>6, <2>1, <2>2, <2>3 DEF IInv, Numbering
<1>9. Telling'
  <2>1. \A n \in 1..(made + 1) : Event("placed", n) \in Published => enabled /\ n \in ended
    <3> SUFFICES ASSUME NEW n \in 1..(made + 1)
                 PROVE  Event("placed", n) \in Published => enabled /\ n \in ended
      OBVIOUS
    <3>1. CASE n = made + 1
      BY <1>3, <1>5, <3>1
    <3>2. CASE n # made + 1
      <4>1. n \in 1..made
        BY <1>3, <3>2
      <4> QED BY <4>1 DEF IInv, Telling
    <3> QED BY <3>1, <3>2
  <2> QED BY <1>2, <1>4, <2>1 DEF IInv, Telling, Event
<1>10. Standing(c)'
  <2>1. Event("refused", number'[c]) \notin Published' /\ number'[c] \notin ran'
    BY <1>2, <1>4, <1>5, <1>6
  <2> QED BY <1>1, <2>1 DEF Standing, Running, Event, Refusals
<1>11. \A d \in Clients \ {c} : Standing(d)'
  BY <1>1, <1>2, <1>4, <1>6, StandingKept DEF IInv, Others
<1> QED BY <1>7, <1>8, <1>9, <1>10, <1>11 DEF IInv

(* The numbers of two clients differ, if the first has a call. *)
LEMMA NumbersDiffer ==
    ASSUME Numbering, NEW c \in Clients, Of(c).pc # "idle", NEW d \in Clients \ {c}
    PROVE  number[d] # number[c] /\ number[c] \in 1..made
<1>1. number[1] \in 0..made /\ number[2] \in 0..made /\ made \in Nat
  BY DEF Numbering, Clients
<1>2. number[c] # 0 /\ (number[1] = number[2] => number[1] = 0)
  BY DEF Numbering
<1>3. CASE c = 1
  BY <1>1, <1>2, <1>3 DEF Clients
<1>4. CASE c = 2
  BY <1>1, <1>2, <1>4 DEF Clients
<1> QED BY <1>3, <1>4, OneOrTwo

LEMMA NumberIsCalls ==
    ASSUME Numbering, NEW c \in Clients, Of(c).pc # "idle"
    PROVE  number[c] \in 1..made
<1>1. number[c] \in 0..made /\ made \in Nat /\ number[c] # 0
  BY DEF Numbering
<1> QED BY <1>1

LEMMA DecidesStep == ASSUME IInv, NEW c \in Clients, Decides(c) PROVE IInv'
<1> DEFINE n == number[c]
<1>1. /\ Of(c).pc = "looking" /\ Others(c)
      /\ Shaped(Of(c)') /\ Of(c)'.pc \in {"explaining", "answered"}
      /\ Of(c)'.pc = "explaining" <=> Of(c)'.answer = "none"
      /\ Of(c)'.answer \in {"bad_request", "eligible", "placed",
                            "not_eligible", "refused", "none"}
  BY DecidesFacts DEF IInv
<1>2. /\ UNCHANGED <<leaked, number, made, ended>>
      /\ ran' = IF Running(Of(c)') THEN ran \cup {n} ELSE ran
      /\ IF Refused(Of(c)') THEN Publish(Event("refused", n)) ELSE UNCHANGED bus
  BY DEF Decides, Moved
<1>3. n \in 1..made /\ n \notin ran /\ Event("refused", n) \notin Published
      /\ enabled \in BOOLEAN /\ ended \subseteq ran /\ made \in Nat
      /\ flight \cap (log \cup lost) = {} /\ log \cap lost = {}
      /\ Numbering
  BY <1>1, NumberIsCalls DEF IInv, Numbering, Standing, Telling
<1>4. /\ enabled' = enabled
      /\ Published' = IF Refused(Of(c)') /\ enabled THEN Published \cup {Event("refused", n)}
                      ELSE Published
      /\ flight' \cap (log' \cup lost') = {} /\ log' \cap lost' = {}
  <2>1. CASE Refused(Of(c)')
    BY <1>2, <1>3, <2>1, PublishFacts
  <2>2. CASE ~ Refused(Of(c)')
    BY <1>2, <1>3, <2>2 DEF bus, Published
  <2> QED BY <2>1, <2>2
<1>5. Shapes' /\ Loading'
  BY <1>1, <1>2, ShapesKept DEF IInv, Loading
<1>6. ~ (Running(Of(c)') /\ Refused(Of(c)'))
  BY <1>1 DEF Running, Refused
<1>7. Numbering'
  <2>1. \A d \in Clients : Of(d)'.pc # "idle" => number[d] # 0
    <3>1. \A d \in Clients \ {c} : Of(d)' = Of(d)
      BY <1>1 DEF Others
    <3>2. \A d \in Clients : Of(d).pc # "idle" => number[d] # 0
      BY <1>3 DEF Numbering
    <3> QED BY <1>1, <3>1, <3>2
  <2>2. Event("refused", n) \in [type : {"placed", "refused"}, of : 1..made]
    BY <1>3 DEF Event
  <2>3. Published' \subseteq [type : {"placed", "refused"}, of : 1..made]
        /\ (~ enabled => Published' = {})
    BY <1>3, <1>4, <2>2 DEF Numbering
  <2>4. ended \subseteq ran' /\ ran' \subseteq 1..made
    BY <1>2, <1>3 DEF Numbering
  <2> QED BY <1>2, <1>3, <1>4, <2>1, <2>3, <2>4 DEF Numbering
<1>8. Telling'
  <2>1. \A m \in 1..made : Event("placed", m) \in Published' => enabled /\ m \in ended
    <3>1. \A m : Event("placed", m) # Event("refused", n)
      BY EventsDiffer
    <3> QED BY <1>4, <3>1 DEF IInv, Telling
  <2>2. \A m \in ran' : Event("refused", m) \notin Published'
    <3> SUFFICES ASSUME NEW m \in ran'
                 PROVE  Event("refused", m) \notin Published'
      OBVIOUS
    <3>1. Event("refused", m) = Event("refused", n) <=> m = n
      BY EventsDiffer
    <3>2. m \in ran => m # n /\ Event("refused", m) \notin Published
      BY <1>3 DEF IInv, Telling
    <3>3. CASE m \in ran
      BY <1>4, <3>1, <3>2, <3>3
    <3>4. CASE m \notin ran
      <4>1. m = n /\ Running(Of(c)')
        BY <1>2, <3>4
      <4> QED BY <1>3, <1>4, <1>6, <4>1
    <3> QED BY <3>3, <3>4
  <2> QED BY <1>2, <1>4, <2>1, <2>2 DEF Telling, Event
<1>9. Standing(c)'
  <2>1. n' = n /\ Event("refused", n)' = Event("refused", n)
    BY <1>2 DEF Event
  <2>2. Running(Of(c))' = Running(Of(c)')
    BY DEF Running
  <2>3. Running(Of(c)') => n \in ran' \ ended
    BY <1>2, <1>3
  <2>4. Of(c)'.pc = "explaining" => n \notin ran'
    BY <1>2, <1>3 DEF Running
  <2>5. enabled => (Event("refused", n) \in Published' <=> Refused(Of(c)'))
    BY <1>3, <1>4
  <2>6. Refused(Of(c)') <=> Of(c)'.pc = "explaining" \/ Of(c)'.answer \in Refusals
    BY <1>1 DEF Refused, Refusals
  <2> QED BY <1>1, <1>2, <1>4, <2>1, <2>2, <2>3, <2>4, <2>5, <2>6 DEF Standing, Refusals
<1>10. \A d \in Clients \ {c} : Standing(d)'
  <2> SUFFICES ASSUME NEW d \in Clients \ {c}
               PROVE  Standing(d)'
    OBVIOUS
  <2>1. number[d] # n
    BY <1>1, <1>3, NumbersDiffer
  <2>2. Event("refused", number[d]) # Event("refused", n)
    BY <2>1, EventsDiffer
  <2>3. Of(d)' = Of(d) /\ Standing(d) /\ number'[d] = number[d]
    BY <1>1, <1>2 DEF Others, IInv
  <2> QED BY <1>2, <1>4, <2>1, <2>2, <2>3, StandingKept
<1> QED BY <1>5, <1>7, <1>8, <1>9, <1>10 DEF IInv

LEMMA EndsStep == ASSUME IInv, NEW c \in Clients, Ends(c) PROVE IInv'
<1> DEFINE n == number[c]
<1>1. /\ Of(c).pc = "answered" /\ Others(c) /\ Of(c)' = One!Idle /\ Running(Of(c))
  BY AnswersFacts DEF Ends
<1>2. Of(c)'.pc = "idle" /\ Shaped(Of(c)')
  BY <1>1 DEF One!Idle, Shaped
<1>3. /\ UNCHANGED <<leaked, number, made, ran>> /\ ended' = ended \cup {n}
      /\ Publish(Event("placed", n)) \/ UNCHANGED bus
  BY DEF Ends
<1>4. n \in 1..made /\ n \in ran /\ n \notin ended
      /\ enabled \in BOOLEAN /\ made \in Nat /\ Numbering
      /\ flight \cap (log \cup lost) = {} /\ log \cap lost = {}
  BY <1>1, NumberIsCalls DEF IInv, Numbering, Standing, Telling
<1>5. Event("placed", n) \notin Published
  BY <1>4 DEF IInv, Telling
<1>6. /\ enabled' = enabled
      /\ \/ Published' = IF enabled THEN Published \cup {Event("placed", n)} ELSE Published
         \/ Published' = Published
      /\ flight' \cap (log' \cup lost') = {} /\ log' \cap lost' = {}
  <2>1. CASE Publish(Event("placed", n))
    BY <1>4, <1>5, <2>1, PublishFacts
  <2>2. CASE UNCHANGED bus
    BY <1>4, <2>2 DEF bus, Published
  <2> QED BY <1>3, <2>1, <2>2
<1>7. Shapes' /\ Loading'
  BY <1>1, <1>2, <1>3, ShapesKept DEF IInv, Loading
<1>8. Numbering'
  <2>1. \A d \in Clients : Of(d)'.pc # "idle" => number[d] # 0
    <3>1. \A d \in Clients \ {c} : Of(d)' = Of(d)
      BY <1>1 DEF Others
    <3> QED BY <1>2, <1>4, <3>1 DEF Numbering
  <2>2. Event("placed", n) \in [type : {"placed", "refused"}, of : 1..made]
    BY <1>4 DEF Event
  <2>3. Published' \subseteq [type : {"placed", "refused"}, of : 1..made]
        /\ (~ enabled => Published' = {})
    BY <1>4, <1>6, <2>2 DEF Numbering
  <2> QED BY <1>3, <1>4, <1>6, <2>1, <2>3 DEF Numbering
<1>9. Telling'
  <2>1. \A m \in 1..made : Event("placed", m) \in Published' => enabled /\ m \in ended'
    <3>1. \A m : Event("placed", m) = Event("placed", n) <=> m = n
      BY EventsDiffer
    <3> QED BY <1>3, <1>4, <1>6, <3>1 DEF IInv, Telling
  <2>2. \A m \in ran : Event("refused", m) \notin Published'
    <3>1. \A m : Event("refused", m) # Event("placed", n)
      BY EventsDiffer
    <3> QED BY <1>6, <3>1 DEF IInv, Telling
  <2> QED BY <1>3, <1>6, <2>1, <2>2 DEF Telling, Event
<1>10. Standing(c)'
  BY <1>2 DEF Standing, Running
<1>11. \A d \in Clients \ {c} : Standing(d)'
  <2> SUFFICES ASSUME NEW d \in Clients \ {c}
               PROVE  Standing(d)'
    OBVIOUS
  <2>1. Of(d).pc # "idle" => number[d] # n
    BY <1>1, <1>4, NumbersDiffer
  <2>2. Event("refused", number[d]) # Event("placed", n)
    BY EventsDiffer
  <2>3. Of(d)' = Of(d) /\ Standing(d) /\ number'[d] = number[d]
    BY <1>1, <1>3 DEF Others, IInv
  <2> QED BY <1>3, <1>6, <2>1, <2>2, <2>3, StandingKept
<1> QED BY <1>7, <1>8, <1>9, <1>10, <1>11 DEF IInv

(* The bus moves events, and neither adds nor forgets one. *)
LEMMA BusStep ==
    ASSUME IInv, BusNext, UNCHANGED <<cache, one, two, leaked, number, made, history>>
    PROVE  IInv'
<1>1. \A c \in Clients : Of(c)' = Of(c)
  BY DEF Of
<1>2. /\ Published' = Published /\ enabled' = enabled
      /\ flight' \cap (log' \cup lost') = {} /\ log' \cap lost' = {}
  <2>1. PICK e \in flight : Deliver(e) \/ Lose(e)
    BY DEF BusNext
  <2>2. flight \cap (log \cup lost) = {} /\ log \cap lost = {}
    BY DEF IInv, Telling
  <2>3. CASE Deliver(e)
    BY <2>1, <2>2, <2>3 DEF Deliver, Published
  <2>4. CASE Lose(e)
    BY <2>1, <2>2, <2>4 DEF Lose, Published
  <2> QED BY <2>1, <2>3, <2>4
<1>3. UNCHANGED <<leaked, number, made, ran, ended>>
  BY DEF history
<1>4. Shapes' /\ Loading'
  BY <1>1, <1>3 DEF IInv, Shapes, Shaped, Loading
<1>5. Numbering'
  BY <1>1, <1>2, <1>3 DEF IInv, Numbering
<1>6. Telling'
  BY <1>2, <1>3 DEF IInv, Telling, Event
<1>7. \A c \in Clients : Standing(c)'
  BY <1>1, <1>2, <1>3, StandingKept DEF IInv
<1> QED BY <1>4, <1>5, <1>6, <1>7 DEF IInv

LEMMA NextIInv == IInv /\ [Next]_all => IInv'
<1> SUFFICES ASSUME IInv, [Next]_all PROVE IInv'
  OBVIOUS
<1>1. CASE UNCHANGED all
  <2>1. \A c \in Clients : Of(c)' = Of(c)
    BY <1>1 DEF Of, all
  <2>2. Published' = Published /\ enabled' = enabled /\ flight' = flight /\ log' = log
        /\ lost' = lost /\ UNCHANGED <<leaked, number, made, ran, ended>>
    BY <1>1 DEF all, bus, history, Published
  <2>3. Shapes' /\ Loading'
    BY <2>1, <2>2 DEF IInv, Shapes, Shaped, Loading
  <2>4. Numbering'
    BY <2>1, <2>2 DEF IInv, Numbering
  <2>5. Telling'
    BY <2>2 DEF IInv, Telling, Event
  <2>6. \A c \in Clients : Standing(c)'
    BY <2>1, <2>2, StandingKept DEF IInv
  <2> QED BY <2>3, <2>4, <2>5, <2>6 DEF IInv
<1>2. CASE Probes
  BY <1>2, ProbesStep
<1>3. ASSUME NEW c \in Clients,
             Asks(c) \/ Looks(c) \/ Decides(c) \/ Explains(c) \/ Replies(c) \/ Ends(c) \/ Leaves(c)
      PROVE  IInv'
  BY <1>3, AsksStep, LooksStep, DecidesStep, ExplainsStep, RepliesStep, EndsStep, LeavesStep
<1>4. CASE BusNext /\ UNCHANGED <<cache, one, two, leaked, number, made, history>>
  BY <1>4, BusStep
<1> QED BY <1>1, <1>2, <1>3, <1>4 DEF Next

LEMMA Invariance == Spec => []IInv
BY InitIInv, NextIInv, PTL DEF Spec

---------------------------------------------------------------------------
(* The bus is told of no run before its end, of every refusal and of none   *)
(* of a call that ever had a run, and nothing when it is disabled, whatever *)
(* order the events are delivered in, and whichever are lost.               *)
THEOREM BusHearsTheTruth == Spec => []EventsTellTheTruth
<1>1. IInv => EventsTellTheTruth
  <2> SUFFICES ASSUME IInv PROVE EventsTellTheTruth
    OBVIOUS
  <2>1. Numbering /\ Telling
    BY DEF IInv
  <2>2. \A n : n \in Told("placed") <=> Event("placed", n) \in Published
    BY <2>1, ToldIsPublished
  <2>3. \A n : n \in Told("refused") <=> Event("refused", n) \in Published
    BY <2>1, ToldIsPublished
  <2>4. \A n : Event("placed", n) \in Published => n \in 1..made
    BY <2>1 DEF Numbering, Event
  <2>5. Told("placed") \subseteq ended /\ (~ enabled => Published = {})
    BY <2>1, <2>2, <2>4 DEF Numbering, Telling
  <2>6. Told("refused") \cap ran = {}
    BY <2>1, <2>3 DEF Telling
  <2>7. ASSUME NEW c \in Clients, enabled, Of(c).pc \in {"explaining", "answered"}
        PROVE  number[c] \in Told("refused")
                 <=> Of(c).pc = "explaining"
                     \/ Of(c).answer \in {"refused", "privacy_refusal",
                                          "temporarily_unavailable", "model_not_found"}
    BY <2>3, <2>7 DEF IInv, Standing, Refusals
  <2> QED BY <2>1, <2>5, <2>6, <2>7 DEF EventsTellTheTruth, Telling
<1> QED BY <1>1, Invariance, PTL

---------------------------------------------------------------------------
(* The load that a snapshot shows is among those a call is checked with: of *)
(* the two clients only the other can have a run.                           *)
LEMMA LoadIsCovered ==
    ASSUME IInv, NEW c \in Clients, Of(c).pc = "looking", Len(Of(c).view) + 1 <= Len(Fleet)
    PROVE  NextLoad(Of(c)) \in Loads
<1> DEFINE p     == Len(Of(c).view) + 1
           busy  == {d \in Clients : Running(Of(d)) /\ Of(d).placed.provider = p}
           other == 3 - c
<1>1. IsSeq(Of(c).view)
  BY DEF IInv, Shapes, Shaped, One!Idle
<1>2. Len(Of(c).view) \in Nat
  BY <1>1, SequenceGrows
<1>3. p \in One!Ids
  BY <1>2, FleetFacts
<1>4. leaked[p] \in 0..MaxLeaks /\ MaxLeaks \in Nat
  BY <1>3, LoadsCover DEF IInv, Loading
<1>5. busy \subseteq {other}
  BY OneOrTwo DEF Running
<1>6. IsFiniteSet({other}) /\ Cardinality({other}) = 1
  BY FS_Singleton
<1>7. Cardinality(busy) \in Nat /\ Cardinality(busy) <= 1
  BY <1>5, <1>6, FS_Subset, FS_CardinalityType
<1>8. NextLoad(Of(c)) = leaked[p] + Cardinality(busy)
  BY DEF NextLoad, Active
<1> HIDE DEF busy, p
<1>9. leaked[p] + Cardinality(busy) \in 0..(MaxLeaks + 1)
  BY <1>4, <1>7
<1> QED BY <1>8, <1>9, LoadsCover

(* A step of the server is, for each of the calls, a step of Routing or     *)
(* none of its business.                                                    *)
LEMMA OneSteps == IInv /\ [Next]_all => [One!Next]_One!vars
<1> SUFFICES ASSUME IInv, [Next]_all
             PROVE  One!Next \/ (cache' = cache /\ one' = one)
  BY DEF One!vars
<1>1. CASE UNCHANGED all
  BY <1>1 DEF all
<1>2. CASE Probes
  <2>1. PICK p \in One!Ids :
           \/ One!ProbeDown(p) /\ UNCHANGED two
           \/ \E models \in Inventories : One!ProbeUp(p, models) /\ UNCHANGED two
    BY <1>2 DEF Probes
  <2>2. p \in One!Ids /\ (One!ProbeDown(p) \/ \E models \in Inventories : One!ProbeUp(p, models))
    BY <2>1 DEF One!ProbeDown, One!ProbeUp, One!ProbeDown, One!ProbeUp, One!Ids, One!Ids,
                One!Names, One!Names
  <2> QED BY <2>2 DEF One!Next
<1>3. ASSUME Asks(2) \/ Looks(2) \/ Decides(2) \/ Explains(2) \/ Replies(2)
             \/ Ends(2) \/ Leaves(2)
      PROVE  cache' = cache /\ one' = one
  <2>1. CASE Asks(2)
    BY <2>1 DEF Asks, Two!Ask
  <2>2. CASE Looks(2)
    BY <2>2 DEF Looks, Two!Look
  <2>3. CASE Decides(2)
    BY <2>3 DEF Decides, Two!Decide
  <2>4. CASE Explains(2)
    BY <2>4 DEF Explains, Two!LookAgain, Two!Explain
  <2>5. CASE Replies(2) \/ Ends(2) \/ Leaves(2)
    BY <2>5 DEF Replies, Ends, Leaves, Answers, Two!Answered
  <2> QED BY <1>3, <2>1, <2>2, <2>3, <2>4, <2>5
<1>4. ASSUME Asks(1) \/ Looks(1) \/ Decides(1) \/ Explains(1) \/ Replies(1)
             \/ Ends(1) \/ Leaves(1)
      PROVE  One!Next
  <2> USE DEF One!Next
  <2>1. CASE Asks(1)
    BY <2>1 DEF Asks
  <2>2. CASE Looks(1)
    <3>1. PICK taken \in Ages : One!Look(NextLoad(Of(1)), taken)
      BY <2>2 DEF Looks
    <3>2. Of(1).pc = "looking" /\ Of(1) = one /\ Len(one.view) + 1 < Len(Fleet)
      BY <3>1, FleetFacts DEF One!Look, Of
    <3>3. NextLoad(Of(1)) \in Loads
      BY <3>2, FleetFacts, LoadIsCovered DEF Clients
    <3> QED BY <3>1, <3>3
  <2>3. CASE Decides(1)
    <3>1. PICK taken \in Ages : One!Decide(NextLoad(Of(1)), taken)
      BY <2>3 DEF Decides
    <3>2. Of(1).pc = "looking" /\ Of(1) = one /\ Len(one.view) + 1 = Len(Fleet)
      BY <3>1, FleetFacts DEF One!Decide, Of
    <3>3. NextLoad(Of(1)) \in Loads
      BY <3>2, FleetFacts, LoadIsCovered DEF Clients
    <3> QED BY <3>1, <3>3
  <2>4. CASE Explains(1)
    BY <2>4 DEF Explains
  <2>5. CASE Replies(1) \/ Ends(1) \/ Leaves(1)
    BY <2>5 DEF Replies, Ends, Leaves, Answers
  <2> QED BY <1>4, <2>1, <2>2, <2>3, <2>4, <2>5
<1>5. CASE BusNext /\ UNCHANGED <<cache, one, two, leaked, number, made, history>>
  BY <1>5
<1>6. Next \/ UNCHANGED all
  OBVIOUS
<1> QED BY <1>1, <1>2, <1>3, <1>4, <1>5, <1>6 DEF Next, Clients

LEMMA TwoSteps == IInv /\ [Next]_all => [Two!Next]_Two!vars
<1> SUFFICES ASSUME IInv, [Next]_all
             PROVE  Two!Next \/ (cache' = cache /\ two' = two)
  BY DEF Two!vars
<1>1. CASE UNCHANGED all
  BY <1>1 DEF all
<1>2. CASE Probes
  <2>1. PICK p \in One!Ids :
           \/ One!ProbeDown(p) /\ UNCHANGED two
           \/ \E models \in Inventories : One!ProbeUp(p, models) /\ UNCHANGED two
    BY <1>2 DEF Probes
  <2>2. p \in Two!Ids /\ (Two!ProbeDown(p) \/ \E models \in Inventories : Two!ProbeUp(p, models))
    BY <2>1 DEF One!ProbeDown, One!ProbeUp, Two!ProbeDown, Two!ProbeUp, One!Ids, Two!Ids,
                One!Names, Two!Names
  <2> QED BY <2>2 DEF Two!Next
<1>3. ASSUME Asks(1) \/ Looks(1) \/ Decides(1) \/ Explains(1) \/ Replies(1)
             \/ Ends(1) \/ Leaves(1)
      PROVE  cache' = cache /\ two' = two
  <2>1. CASE Asks(1)
    BY <2>1 DEF Asks, One!Ask
  <2>2. CASE Looks(1)
    BY <2>2 DEF Looks, One!Look
  <2>3. CASE Decides(1)
    BY <2>3 DEF Decides, One!Decide
  <2>4. CASE Explains(1)
    BY <2>4 DEF Explains, One!LookAgain, One!Explain
  <2>5. CASE Replies(1) \/ Ends(1) \/ Leaves(1)
    BY <2>5 DEF Replies, Ends, Leaves, Answers, One!Answered
  <2> QED BY <1>3, <2>1, <2>2, <2>3, <2>4, <2>5
<1>4. ASSUME Asks(2) \/ Looks(2) \/ Decides(2) \/ Explains(2) \/ Replies(2)
             \/ Ends(2) \/ Leaves(2)
      PROVE  Two!Next
  <2> USE DEF Two!Next
  <2>1. CASE Asks(2)
    BY <2>1 DEF Asks
  <2>2. CASE Looks(2)
    <3>1. PICK taken \in Ages : Two!Look(NextLoad(Of(2)), taken)
      BY <2>2 DEF Looks
    <3>2. Of(2).pc = "looking" /\ Of(2) = two /\ Len(two.view) + 1 < Len(Fleet)
      BY <3>1, FleetFacts DEF Two!Look, Of
    <3>3. NextLoad(Of(2)) \in Loads
      BY <3>2, FleetFacts, LoadIsCovered DEF Clients
    <3> QED BY <3>1, <3>3
  <2>3. CASE Decides(2)
    <3>1. PICK taken \in Ages : Two!Decide(NextLoad(Of(2)), taken)
      BY <2>3 DEF Decides
    <3>2. Of(2).pc = "looking" /\ Of(2) = two /\ Len(two.view) + 1 = Len(Fleet)
      BY <3>1, FleetFacts DEF Two!Decide, Of
    <3>3. NextLoad(Of(2)) \in Loads
      BY <3>2, FleetFacts, LoadIsCovered DEF Clients
    <3> QED BY <3>1, <3>3
  <2>4. CASE Explains(2)
    BY <2>4 DEF Explains
  <2>5. CASE Replies(2) \/ Ends(2) \/ Leaves(2)
    BY <2>5 DEF Replies, Ends, Leaves, Answers
  <2> QED BY <1>4, <2>1, <2>2, <2>3, <2>4, <2>5
<1>5. CASE BusNext /\ UNCHANGED <<cache, one, two, leaked, number, made, history>>
  BY <1>5
<1>6. Next \/ UNCHANGED all
  OBVIOUS
<1> QED BY <1>1, <1>2, <1>3, <1>4, <1>5, <1>6 DEF Next, Clients

(* Each of two calls at once, over one cache and under the load of both, is *)
(* a call of Routing.                                                       *)
LEMMA CallsRoute == Spec => One!Spec /\ Two!Spec
<1>1. Init => One!Init /\ Two!Init
  BY DEF Init
<1> QED BY <1>1, OneSteps, TwoSteps, Invariance, PTL DEF Spec, One!Spec, Two!Spec
---------------------------------------------------------------------------
(* What a client has seen while it looks, and nothing has moved under it:   *)
(* the load there is.                                                       *)
Fresh(c) ==
    Of(c).pc = "looking" =>
        /\ Len(Of(c).view) < Len(Fleet)
        /\ c \notin raced =>
             \A p \in 1..Len(Of(c).view) : Of(c).view[p].active_runs = Active(p)
Seen == \A c \in Clients : Fresh(c)

(* The load stays where no run begins, ends or is abandoned. *)
LEMMA ActiveKept ==
    ASSUME leaked' = leaked,
           \A d \in Clients : \/ Of(d)' = Of(d)
                              \/ ~ Running(Of(d)) /\ ~ Running(Of(d)')
    PROVE  \A p : Active(p)' = Active(p)
<1> SUFFICES ASSUME NEW p PROVE Active(p)' = Active(p)
  OBVIOUS
<1>1. {d \in Clients : Running(Of(d)') /\ Of(d)'.placed.provider = p}
        = {d \in Clients : Running(Of(d)) /\ Of(d).placed.provider = p}
  BY DEF Running
<1> QED BY <1>1 DEF Active, Running

LEMMA FreshKept ==
    ASSUME NEW d \in Clients, Fresh(d), Of(d)' = Of(d),
           \/ d \in raced'
           \/ /\ d \notin raced
              /\ Of(d).pc = "looking" =>
                     \A p \in 1..Len(Of(d).view) : Active(p)' = Active(p)
    PROVE  Fresh(d)'
BY DEF Fresh

(* A step of one client in which no run begins or ends. *)
LEMMA QuietSeen ==
    ASSUME Seen, NEW c \in Clients, Others(c), Fresh(c)', leaked' = leaked,
           ~ Running(Of(c)), ~ Running(Of(c)'), raced \ {c} \subseteq raced'
    PROVE  Seen'
<1>1. \A p : Active(p)' = Active(p)
  BY ActiveKept DEF Others
<1>2. \A d \in Clients \ {c} : Fresh(d)'
  BY <1>1, FreshKept DEF Seen, Others
<1> QED BY <1>2 DEF Seen

(* A step of one client in which a run of it does. *)
LEMMA MovedSeen ==
    ASSUME Seen, NEW c \in Clients, Others(c), Fresh(c)', Moved(c)
    PROVE  Seen'
<1>1. \A d \in Clients \ {c} : Fresh(d)'
  <2> SUFFICES ASSUME NEW d \in Clients \ {c} PROVE Fresh(d)'
    OBVIOUS
  <2>1. Of(d)' = Of(d) /\ Fresh(d)
    BY DEF Others, Seen
  <2>2. CASE Of(d).pc = "looking"
    BY <2>1, <2>2, FreshKept DEF Moved
  <2>3. CASE Of(d).pc # "looking"
    BY <2>1, <2>3 DEF Fresh
  <2> QED BY <2>2, <2>3
<1> QED BY <1>1 DEF Seen

LEMMA NotLookingIsFresh ==
    ASSUME NEW c \in Clients, Of(c)'.pc # "looking"
    PROVE  Fresh(c)'
BY DEF Fresh

(* The entry copied next shows the load there is. *)
LEMMA LooksSeen == ASSUME IInv, Seen, NEW c \in Clients, Looks(c) PROVE Seen'
<1>1. /\ Of(c).pc = "looking" /\ Others(c) /\ Of(c)'.pc = "looking"
      /\ IsSeq(Of(c).view) /\ Len(Of(c).view) + 1 < Len(Fleet)
      /\ \E x : /\ Of(c)'.view = Append(Of(c).view, x)
                /\ x.active_runs = NextLoad(Of(c))
  BY LooksFacts DEF IInv
<1>2. PICK x : Of(c)'.view = Append(Of(c).view, x) /\ x.active_runs = NextLoad(Of(c))
  BY <1>1
<1>3. leaked' = leaked /\ raced' = raced
  BY DEF Looks, history
<1>4. ~ Running(Of(c)) /\ ~ Running(Of(c)')
  BY <1>1 DEF Running
<1>5. \A p : Active(p)' = Active(p)
  BY <1>1, <1>3, <1>4, ActiveKept DEF Others
<1>6. /\ Len(Of(c).view) \in Nat /\ Len(Of(c)'.view) = Len(Of(c).view) + 1
      /\ \A p \in 1..Len(Of(c).view) : Of(c)'.view[p] = Of(c).view[p]
      /\ Of(c)'.view[Len(Of(c).view) + 1] = x
  BY <1>1, <1>2, SequenceGrows
<1>7. ASSUME c \notin raced, NEW p \in 1..(Len(Of(c).view) + 1)
      PROVE  Of(c)'.view[p].active_runs = Active(p)
  <2>1. CASE p = Len(Of(c).view) + 1
    BY <1>2, <1>6, <2>1 DEF NextLoad
  <2>2. CASE p # Len(Of(c).view) + 1
    <3>1. p \in 1..Len(Of(c).view)
      BY <1>6, <2>2
    <3> QED BY <1>1, <1>6, <1>7, <3>1 DEF Seen, Fresh
  <2> QED BY <2>1, <2>2
<1>8. Fresh(c)'
  BY <1>1, <1>3, <1>5, <1>6, <1>7 DEF Fresh
<1> QED BY <1>1, <1>3, <1>4, <1>8, QuietSeen

(* A run that nobody will finish still counts. *)
LEMMA LeavesSeen == ASSUME IInv, Seen, NEW c \in Clients, Leaves(c) PROVE Seen'
<1> DEFINE q == Of(c).placed.provider
<1>1. Of(c).pc = "answered" /\ Others(c) /\ Of(c)' = One!Idle /\ Running(Of(c))
  BY AnswersFacts DEF Leaves
<1>2. Of(c)'.pc = "idle" /\ ~ Running(Of(c)')
  BY <1>1 DEF One!Idle, Running
<1>3. leaked' = [leaked EXCEPT ![q] = @ + 1] /\ leaked \in [One!Ids -> 0..MaxLeaks]
      /\ raced' = raced
  BY DEF Leaves, IInv, Loading, history
<1>4. ASSUME NEW p \in One!Ids
      PROVE  Active(p)' = Active(p)
  <2> DEFINE busy  == {d \in Clients : Running(Of(d)) /\ Of(d).placed.provider = p}
             after == {d \in Clients : Running(Of(d)') /\ Of(d)'.placed.provider = p}
  <2>1. Active(p) = leaked[p] + Cardinality(busy) /\ Active(p)' = leaked'[p] + Cardinality(after)
    BY DEF Active, Running
  <2>2. after = busy \ {c} /\ (c \in busy <=> p = q)
    BY <1>1, <1>2 DEF Others
  <2>3. IsFiniteSet(busy)
    <3>1. IsFiniteSet(Clients)
      <4>1. Clients = 1..2
        BY DEF Clients
      <4>2. 1 \in Int /\ 2 \in Int
        OBVIOUS
      <4>3. IsFiniteSet(1..2)
        BY <4>2, FS_Interval
      <4> QED BY <4>1, <4>3
    <3> QED BY <3>1, FS_Subset
  <2> HIDE DEF busy, after, q
  <2>4. CASE p = q
    <3>1. Cardinality(after) = Cardinality(busy) - 1 /\ Cardinality(busy) \in Nat
      BY <2>2, <2>3, <2>4, FS_RemoveElement, FS_CardinalityType
    <3>2. leaked'[p] = leaked[p] + 1 /\ leaked[p] \in Int
      BY <1>3, <2>4, LoadsCover
    <3> QED BY <2>1, <3>1, <3>2
  <2>5. CASE p # q
    <3>1. after = busy
      BY <2>2, <2>5
    <3>2. leaked'[p] = leaked[p]
      BY <1>3, <2>5
    <3> QED BY <2>1, <3>1, <3>2
  <2> QED BY <2>4, <2>5
<1>5. ASSUME NEW d \in Clients \ {c}
      PROVE  Fresh(d)'
  <2>1. Of(d)' = Of(d) /\ Fresh(d)
    BY <1>1 DEF Others, Seen
  <2>2. CASE Of(d).pc = "looking"
    <3>1. IsSeq(Of(d).view)
      BY <2>2 DEF IInv, Shapes, Shaped, One!Idle
    <3>2. Len(Of(d).view) \in Nat /\ Len(Of(d).view) < Len(Fleet)
      BY <2>1, <2>2, <3>1, SequenceGrows DEF Fresh
    <3>3. \A p \in 1..Len(Of(d).view) : p \in One!Ids
      BY <3>2, FleetFacts
    <3> QED BY <1>3, <1>4, <2>1, <3>3, FreshKept
  <2>3. CASE Of(d).pc # "looking"
    BY <2>1, <2>3 DEF Fresh
  <2> QED BY <2>2, <2>3
<1>6. Fresh(c)'
  BY <1>2, NotLookingIsFresh
<1> QED BY <1>5, <1>6 DEF Seen

LEMMA NextSeen == IInv /\ Seen /\ [Next]_all => Seen'
<1> SUFFICES ASSUME IInv, Seen, [Next]_all PROVE Seen'
  OBVIOUS
<1>1. ASSUME UNCHANGED <<one, two, leaked, raced>>
      PROVE  Seen'
  <2>1. \A c \in Clients : Of(c)' = Of(c)
    BY <1>1 DEF Of
  <2>2. \A p : Active(p)' = Active(p)
    BY <1>1, <2>1, ActiveKept
  <2> QED BY <1>1, <2>1, <2>2, FreshKept DEF Seen
<1>2. CASE UNCHANGED all
  BY <1>1, <1>2 DEF all, history
<1>3. CASE Probes
  BY <1>1, <1>3 DEF Probes, One!ProbeDown, One!ProbeUp, history
<1>4. CASE BusNext /\ UNCHANGED <<cache, one, two, leaked, number, made, history>>
  BY <1>1, <1>4 DEF history
<1>5. ASSUME NEW c \in Clients, Asks(c)
      PROVE  Seen'
  <2>1. /\ Of(c).pc = "idle" /\ Others(c) /\ Of(c)'.pc \in {"looking", "answered"}
        /\ Of(c)'.pc = "answered" => Of(c)'.answer = "bad_request"
        /\ Of(c)'.view = <<>>
    BY <1>5, AsksFacts
  <2>2. leaked' = leaked /\ raced' = raced \ {c}
    BY <1>5 DEF Asks
  <2>3. Fresh(c)'
    BY <2>1, FleetFacts DEF Fresh
  <2>4. ~ Running(Of(c)) /\ ~ Running(Of(c)')
    BY <2>1 DEF Running
  <2> QED BY <2>1, <2>2, <2>3, <2>4, QuietSeen
<1>6. ASSUME NEW c \in Clients, Decides(c)
      PROVE  Seen'
  <2>1. /\ Of(c).pc = "looking" /\ Others(c) /\ Of(c)'.pc \in {"explaining", "answered"}
    BY <1>6, DecidesFacts DEF IInv
  <2>2. Fresh(c)' /\ ~ Running(Of(c))
    BY <2>1, NotLookingIsFresh DEF Running
  <2>3. CASE Running(Of(c)')
    BY <1>6, <2>1, <2>2, <2>3, MovedSeen DEF Decides
  <2>4. CASE ~ Running(Of(c)')
    <3>1. leaked' = leaked /\ raced' = raced
      BY <1>6, <2>4 DEF Decides
    <3> QED BY <2>1, <2>2, <2>4, <3>1, QuietSeen
  <2> QED BY <2>3, <2>4
<1>7. ASSUME NEW c \in Clients, Explains(c)
      PROVE  Seen'
  <2>1. Of(c).pc = "explaining" /\ Others(c) /\ Explained(Of(c), Of(c)')
    BY <1>7, ExplainsFacts DEF IInv
  <2>2. ~ Running(Of(c)) /\ ~ Running(Of(c)') /\ Of(c)'.pc # "looking"
    BY <2>1 DEF Running, Explained
  <2>3. leaked' = leaked /\ raced' = raced
    BY <1>7 DEF Explains, history
  <2>4. Fresh(c)'
    BY <2>2, NotLookingIsFresh
  <2> QED BY <2>1, <2>2, <2>3, <2>4, QuietSeen
<1>8. ASSUME NEW c \in Clients, Answers(c)
      PROVE  Others(c) /\ Fresh(c)' /\ ~ Running(Of(c)')
  <2>1. Others(c) /\ Of(c)' = One!Idle
    BY <1>8, AnswersFacts
  <2>2. Of(c)'.pc # "looking" /\ ~ Running(Of(c)')
    BY <2>1 DEF One!Idle, Running
  <2> QED BY <2>1, <2>2, NotLookingIsFresh
<1>9. ASSUME NEW c \in Clients, Replies(c)
      PROVE  Seen'
  <2>1. leaked' = leaked /\ raced' = raced /\ ~ Running(Of(c)) /\ Answers(c)
    BY <1>9 DEF Replies, history
  <2> QED BY <1>8, <2>1, QuietSeen
<1>10. ASSUME NEW c \in Clients, Ends(c)
       PROVE  Seen'
  BY <1>8, <1>10, MovedSeen DEF Ends
<1>11. ASSUME NEW c \in Clients,
              Asks(c) \/ Looks(c) \/ Decides(c) \/ Explains(c) \/ Replies(c) \/ Ends(c) \/ Leaves(c)
       PROVE  Seen'
  BY <1>5, <1>6, <1>7, <1>9, <1>10, <1>11, LooksSeen, LeavesSeen
<1> QED BY <1>2, <1>3, <1>4, <1>11 DEF Next

LEMMA SeenInvariance == Spec => []Seen
<1>1. Init => Seen
  <2> SUFFICES ASSUME Init PROVE Seen
    OBVIOUS
  <2>1. \A c \in Clients : Of(c).pc = "idle"
    BY DEF Init, One!Init, Two!Init, One!Idle, Two!Idle, Of
  <2> QED BY <2>1 DEF Seen, Fresh
<1> QED BY <1>1, NextSeen, Invariance, PTL DEF Spec

---------------------------------------------------------------------------
(* Since each call is a call of Routing, what RoutingProofs proves of a     *)
(* call holds of both: the two instances of it have the operators of One    *)
(* and Two over again.                                                      *)
R1 == INSTANCE RoutingProofs WITH call <- one, page <- [kind |-> "none", view |-> <<>>]
R2 == INSTANCE RoutingProofs WITH call <- two, page <- [kind |-> "none", view |-> <<>>]

(* A call that is placed without a preference took the shortest queue, by   *)
(* the load that its snapshots show.                                        *)
Clean(s) == \A n : n = s.active_runs => s = [s EXCEPT !.active_runs = n]
Shortest(call) ==
    Running(call) =>
        LET work    == One!Workload(call.wish, call.privacy)
            taker   == call.view[call.placed.provider]
            warm(s) == \E m \in One!Fitting(s, work) : m.loaded
        IN /\ Len(call.view) = Len(Fleet) /\ call.placed.provider \in One!Ids
           /\ \A p \in One!Ids : Clean(call.view[p]) /\ call.view[p].id = p
           /\ \A p \in One!Ids :
                /\ work.prefers \notin {"quality", "latency"}
                /\ call.view[p] \in One!Eligible({call.view[p]}, work, 1, {0})
                /\ call.view[p].placement_class = taker.placement_class
                /\ warm(call.view[p]) = warm(taker)
                => One!QueueSeconds(taker) <= One!QueueSeconds(call.view[p])

(* The steps of the instance are those of the call, operator by operator.   *)
LEMMA R1Steps == One!Next => R1!Next
<1>1. One!Ids = R1!Ids
  BY DEF One!Ids, R1!Ids
<1>2. \A p, m : /\ One!ProbeDown(p) <=> R1!ProbeDown(p)
                /\ One!ProbeUp(p, m) <=> R1!ProbeUp(p, m)
  BY Zenon DEF One!ProbeDown, R1!ProbeDown, One!ProbeUp, R1!ProbeUp, 
             One!Names, R1!Names
<1>3. ASSUME NEW w, NEW h, NEW b
      PROVE  One!Ask(w, h, b) <=> R1!Ask(w, h, b)
  <2>1. One!PrivacyOf(h, b) = R1!PrivacyOf(h, b)
    BY Zenon DEF One!PrivacyOf, R1!PrivacyOf, 
             One!PRIVACY_STRICTNESS, R1!PRIVACY_STRICTNESS, 
             One!KNOWN_TIERS, R1!KNOWN_TIERS, 
             One!CLOUD_PERMITTING_TIERS, R1!CLOUD_PERMITTING_TIERS, 
             One!MOST_RESTRICTIVE_TIER, R1!MOST_RESTRICTIVE_TIER, 
             One!resolve_privacy_tier, R1!resolve_privacy_tier, 
             One!Strictness, R1!Strictness, One!Supplied, R1!Supplied, 
             One!resolve_privacy_precedence, R1!resolve_privacy_precedence
  <2> QED BY <2>1, Zenon DEF One!Ask, R1!Ask
<1>4. ASSUME NEW l, NEW t
      PROVE  One!Look(l, t) <=> R1!Look(l, t)
  BY Zenon DEF One!Look, R1!Look, One!Last, R1!Last, One!Snapshot, R1!Snapshot
<1>5. ASSUME NEW l, NEW t
      PROVE  One!Decide(l, t) <=> R1!Decide(l, t)
  <2> DEFINE view  == Append(one.view, One!Snapshot(One!Last, l, t))
             snaps == {view[p] : p \in One!Ids}
             work  == One!Workload(one.wish, one.privacy)
  <2>1. ASSUME NEW S, NEW w, NEW x
        PROVE  x = One!Select(S, w, 1, {0}) <=> x = R1!Select(S, w, 1, {0})
    BY Zenon DEF
               One!Select, R1!Select, One!Best, R1!Best, One!Eligible, R1!Eligible,
               One!Rank, R1!Rank, One!Preference, R1!Preference,
               One!QueueSeconds, R1!QueueSeconds,
               One!QUEUE_SECONDS_PER_BACKLOGGED_RUN, R1!QUEUE_SECONDS_PER_BACKLOGGED_RUN,
               One!Failures, R1!Failures, One!Stages, R1!Stages,
               One!Candidates, R1!Candidates, One!ModelOn, R1!ModelOn,
               One!ModelKey, R1!ModelKey, One!Less, R1!Less, One!Key, R1!Key,
               One!Asked, R1!Asked, One!Fitting, R1!Fitting
  <2>2. ASSUME NEW s, NEW w, NEW x
        PROVE  x = One!Failures(s, w, 1, {0}) <=> x = R1!Failures(s, w, 1, {0})
    BY Zenon DEF One!Failures, R1!Failures, One!Stages, R1!Stages, One!Candidates, R1!Candidates,
                 One!Asked, R1!Asked, One!Fitting, R1!Fitting
  <2>3. ASSUME NEW f, NEW x
        PROVE  x = One!Stage(f) <=> x = R1!Stage(f)
    BY Zenon DEF One!Stage, R1!Stage, One!Stages, R1!Stages
  <2>4. ASSUME NEW S, NEW w
        PROVE  One!Rejections(S, w, 1, {0}) = R1!Rejections(S, w, 1, {0})
    <3>1. /\ \A s : One!Failures(s, w, 1, {0}) = R1!Failures(s, w, 1, {0})
          /\ \A f : One!Stage(f) = R1!Stage(f)
      BY <2>2, <2>3
    <3>2. One!Eligible(S, w, 1, {0}) = R1!Eligible(S, w, 1, {0})
      BY <3>1 DEF One!Eligible, R1!Eligible
    <3> QED BY <3>1, <3>2, SMT DEF One!Rejections, R1!Rejections
  <2>5. /\ One!Select(snaps, work, 1, {0}) = R1!Select(snaps, work, 1, {0})
        /\ One!Rejections(snaps, work, 1, {0}) = R1!Rejections(snaps, work, 1, {0})
    <3> HIDE DEF snaps, work
    <3> QED BY <2>1, <2>4
  <2>6. /\ work = R1!Workload(one.wish, one.privacy)
        /\ \A wish, placed : One!Outcome(wish, placed) = R1!Outcome(wish, placed)
        /\ One!Snapshot(One!Last, l, t) = R1!Snapshot(R1!Last, l, t)
        /\ One!Ids = R1!Ids /\ One!Last = R1!Last
    BY Zenon DEF One!Workload, R1!Workload, One!Outcome, R1!Outcome,
                 One!Snapshot, R1!Snapshot, One!Ids, R1!Ids, One!Last, R1!Last
  <2>7. snaps = {Append(one.view, R1!Snapshot(R1!Last, l, t))[p] : p \in R1!Ids}
    BY <2>6
  <2> QED
    BY <2>5, <2>6, <2>7 DEF One!Decide, R1!Decide
<1>6. One!LookAgain <=> R1!LookAgain
  BY DEF One!LookAgain, R1!LookAgain, One!Last, R1!Last, One!Names, R1!Names
<1>7. One!Explain <=> R1!Explain
  BY DEF One!Explain, R1!Explain, One!KnownButUnhealthy, R1!KnownButUnhealthy, 
             One!Ids, R1!Ids, One!Last, R1!Last, One!Names, R1!Names
<1>8. One!Answered <=> R1!Answered
  BY DEF One!Answered, R1!Answered, One!Idle, R1!Idle
<1> QED
  BY <1>1, <1>2, <1>3, <1>4, <1>5, <1>6, <1>7, <1>8 DEF One!Next, R1!Next

LEMMA R1Routes == One!Spec => R1!Spec
<1>1. One!Init => R1!Init
  BY Zenon DEF One!Init, R1!Init, One!Ids, R1!Ids, One!Idle, R1!Idle
<1>2. [One!Next]_One!vars => [R1!Next]_R1!vars
  BY R1Steps DEF One!vars, R1!vars
<1> QED BY <1>1, <1>2, PTL DEF One!Spec, R1!Spec

LEMMA R1Assumptions ==
    /\ R1!ModelsAssumption /\ R1!PlacementAssumption
    /\ R1!FleetAssumption /\ R1!InventoriesAssumption /\ R1!LoadsAssumption
    /\ R1!RawsAssumption /\ R1!AgesAssumption /\ R1!WishesAssumption
<1>1. R1!ModelsAssumption /\ R1!PlacementAssumption /\ R1!LoadsAssumption /\ R1!AgesAssumption
  BY CallsAssumption
     DEF One!ModelsAssumption, R1!ModelsAssumption, One!PlacementAssumption, R1!PlacementAssumption,
         One!LoadsAssumption, R1!LoadsAssumption, One!AgesAssumption, R1!AgesAssumption
<1>2. R1!FleetAssumption /\ R1!WishesAssumption
  BY CallsAssumption DEF One!FleetAssumption, R1!FleetAssumption, One!WishesAssumption, R1!WishesAssumption
<1>3. R1!RawsAssumption
  BY CallsAssumption
     DEF One!RawsAssumption, R1!RawsAssumption, One!Raws, R1!Raws,
         One!KNOWN_TIERS, R1!KNOWN_TIERS, One!PRIVACY_STRICTNESS, R1!PRIVACY_STRICTNESS
<1>4. R1!InventoriesAssumption
  BY CallsAssumption
     DEF One!InventoriesAssumption, R1!InventoriesAssumption, One!ModelInfo, R1!ModelInfo, One!IsFiniteSet, R1!IsFiniteSet
<1> QED BY <1>1, <1>2, <1>3, <1>4

(* What RoutingProofs proves of a call, of this one. *)
LEMMA R1Guarantees ==
    One!Spec => [](R1!IInv /\ R1!CloudNeedsConsent /\ R1!PreferenceHonoured)
<1>1. /\ R1!ModelsAssumption /\ R1!PlacementAssumption
    /\ R1!FleetAssumption /\ R1!InventoriesAssumption /\ R1!LoadsAssumption
    /\ R1!RawsAssumption /\ R1!AgesAssumption /\ R1!WishesAssumption
  BY R1Assumptions
<1> USE DEF R1!ModelsAssumption, R1!PlacementAssumption, R1!FleetAssumption, R1!InventoriesAssumption,
            R1!LoadsAssumption, R1!RawsAssumption, R1!AgesAssumption, R1!WishesAssumption
<1>2. R1!Spec => []R1!IInv
  BY <1>1, R1!Invariance, PTL
<1>3. R1!Spec => []R1!CloudNeedsConsent
  BY <1>1, R1!CloudIsDefaultDenied, PTL
<1>4. R1!Spec => []R1!PreferenceHonoured
  BY <1>1, R1!PreferenceIsHonoured, PTL
<1> QED BY <1>2, <1>3, <1>4, R1Routes, PTL

LEMMA R1Shortest == R1!IInv /\ R1!PreferenceHonoured => Shortest(one)
<1> SUFFICES ASSUME R1!IInv, R1!PreferenceHonoured, Running(one)
             PROVE  Shortest(one)
  BY DEF Shortest
<1> DEFINE work  == One!Workload(one.wish, one.privacy)
           taker == one.view[one.placed.provider]
           warm(s) == \E m \in One!Fitting(s, work) : m.loaded
<1>1. R1!Provided /\ one.pc # "idle"
  BY DEF R1!Provided, Running
<1>2. /\ one.view \in Seq(R1!Snapshots) /\ R1!Decided /\ Len(one.view) = Len(Fleet)
      /\ one.placed.provider \in R1!Ids
      /\ \A p \in 1..Len(one.view) :
            one.view[p].id = p /\ one.view[p].placement_class = Fleet[p].placement_class
  BY <1>1 DEF R1!IInv, R1!TypeOK, R1!Recorded, R1!Decided, R1!Last, R1!LawfulChoice,
              R1!FaithfulView, R1!Chosen
<1>3. One!Ids = 1..Len(Fleet) /\ R1!Ids = One!Ids
  BY FleetFacts DEF One!Ids, R1!Ids
<1>4. \A p \in One!Ids : one.view[p].id = p /\ one.view[p] \in R1!Snapshots
  BY <1>2, <1>3
<1>5. \A p \in One!Ids : one.view[p] = [one.view[p] EXCEPT !.active_runs = @]
  BY <1>4 DEF R1!Snapshots
<1>6. work = R1!Work /\ \A s : One!QueueSeconds(s) = R1!QueueSeconds(s)
  BY Zenon DEF R1!Work, One!Workload, R1!Workload, One!QueueSeconds, R1!QueueSeconds,
         One!QUEUE_SECONDS_PER_BACKLOGGED_RUN, R1!QUEUE_SECONDS_PER_BACKLOGGED_RUN
<1>7. \A s : One!Fitting(s, work) = R1!Fitting(s, R1!Work)
  BY <1>6, Zenon DEF One!Fitting, R1!Fitting, One!Asked, R1!Asked
<1>8. \A s : One!Failures(s, work, 1, {0}) = R1!Failures(s, R1!Work, 1, {0})
  <2>1. \A s, r, n, a : One!Failures(s, r, n, a) = R1!Failures(s, r, n, a)
    BY Zenon DEF One!Failures, R1!Failures, One!Stages, R1!Stages, One!Candidates,
                 R1!Candidates, One!Asked, R1!Asked, One!Fitting, R1!Fitting
  <2> QED BY <1>6, <2>1
<1>9. ASSUME NEW p \in One!Ids, work.prefers \notin {"quality", "latency"},
             one.view[p] \in One!Eligible({one.view[p]}, work, 1, {0}),
             one.view[p].placement_class = taker.placement_class,
             warm(one.view[p]) = warm(taker)
      PROVE  One!QueueSeconds(taker) <= One!QueueSeconds(one.view[p])
  <2> DEFINE s == one.view[p]
  <2>1. taker = R1!Taker /\ taker.placement_class = Fleet[R1!Chosen].placement_class
    BY <1>2, <1>3 DEF R1!Taker, R1!Chosen
  <2>2. s \in R1!Snaps
    BY <1>3 DEF R1!Snaps
  <2>3. R1!Failures(s, R1!Work, 1, {0}) = {}
    BY <1>8, <1>9 DEF One!Eligible
  <2>4. s \in R1!Rivals
    BY <1>9, <2>1, <2>2, <2>3 DEF R1!Rivals, R1!Eligible
  <2>5. (\E m \in R1!Fitting(s, R1!Work) : m.loaded)
          = (\E m \in R1!Fitting(R1!Taker, R1!Work) : m.loaded)
    BY <1>7, <1>9, <2>1
  <2>6. R1!QueueSeconds(R1!Taker) <= R1!QueueSeconds(s)
    <3> HIDE DEF s, work, taker, warm
    <3> QED BY <1>1, <1>6, <1>9, <2>4, <2>5 DEF R1!PreferenceHonoured
  <2> QED BY <1>6, <2>1, <2>6
<1> HIDE DEF work, taker, warm
<1>10. \A p \in One!Ids : Clean(one.view[p]) /\ one.view[p].id = p
  BY <1>4 DEF Clean, R1!Snapshots
<1> QED BY <1>2, <1>3, <1>9, <1>10 DEF Shortest, work, taker, warm

(* And the same of the other client. *)
LEMMA R2Steps == Two!Next => R2!Next
<1>1. Two!Ids = R2!Ids
  BY DEF Two!Ids, R2!Ids
<1>2. \A p, m : /\ Two!ProbeDown(p) <=> R2!ProbeDown(p)
                /\ Two!ProbeUp(p, m) <=> R2!ProbeUp(p, m)
  BY Zenon DEF Two!ProbeDown, R2!ProbeDown, Two!ProbeUp, R2!ProbeUp, 
             Two!Names, R2!Names
<1>3. ASSUME NEW w, NEW h, NEW b
      PROVE  Two!Ask(w, h, b) <=> R2!Ask(w, h, b)
  <2>1. Two!PrivacyOf(h, b) = R2!PrivacyOf(h, b)
    BY Zenon DEF Two!PrivacyOf, R2!PrivacyOf, 
             Two!PRIVACY_STRICTNESS, R2!PRIVACY_STRICTNESS, 
             Two!KNOWN_TIERS, R2!KNOWN_TIERS, 
             Two!CLOUD_PERMITTING_TIERS, R2!CLOUD_PERMITTING_TIERS, 
             Two!MOST_RESTRICTIVE_TIER, R2!MOST_RESTRICTIVE_TIER, 
             Two!resolve_privacy_tier, R2!resolve_privacy_tier, 
             Two!Strictness, R2!Strictness, Two!Supplied, R2!Supplied, 
             Two!resolve_privacy_precedence, R2!resolve_privacy_precedence
  <2> QED BY <2>1, Zenon DEF Two!Ask, R2!Ask
<1>4. ASSUME NEW l, NEW t
      PROVE  Two!Look(l, t) <=> R2!Look(l, t)
  BY Zenon DEF Two!Look, R2!Look, Two!Last, R2!Last, Two!Snapshot, R2!Snapshot
<1>5. ASSUME NEW l, NEW t
      PROVE  Two!Decide(l, t) <=> R2!Decide(l, t)
  <2> DEFINE view  == Append(two.view, Two!Snapshot(Two!Last, l, t))
             snaps == {view[p] : p \in Two!Ids}
             work  == Two!Workload(two.wish, two.privacy)
  <2>1. ASSUME NEW S, NEW w, NEW x
        PROVE  x = Two!Select(S, w, 1, {0}) <=> x = R2!Select(S, w, 1, {0})
    BY Zenon DEF
               Two!Select, R2!Select, Two!Best, R2!Best, Two!Eligible, R2!Eligible,
               Two!Rank, R2!Rank, Two!Preference, R2!Preference,
               Two!QueueSeconds, R2!QueueSeconds,
               Two!QUEUE_SECONDS_PER_BACKLOGGED_RUN, R2!QUEUE_SECONDS_PER_BACKLOGGED_RUN,
               Two!Failures, R2!Failures, Two!Stages, R2!Stages,
               Two!Candidates, R2!Candidates, Two!ModelOn, R2!ModelOn,
               Two!ModelKey, R2!ModelKey, Two!Less, R2!Less, Two!Key, R2!Key,
               Two!Asked, R2!Asked, Two!Fitting, R2!Fitting
  <2>2. ASSUME NEW s, NEW w, NEW x
        PROVE  x = Two!Failures(s, w, 1, {0}) <=> x = R2!Failures(s, w, 1, {0})
    BY Zenon DEF Two!Failures, R2!Failures, Two!Stages, R2!Stages, Two!Candidates, R2!Candidates,
                 Two!Asked, R2!Asked, Two!Fitting, R2!Fitting
  <2>3. ASSUME NEW f, NEW x
        PROVE  x = Two!Stage(f) <=> x = R2!Stage(f)
    BY Zenon DEF Two!Stage, R2!Stage, Two!Stages, R2!Stages
  <2>4. ASSUME NEW S, NEW w
        PROVE  Two!Rejections(S, w, 1, {0}) = R2!Rejections(S, w, 1, {0})
    <3>1. /\ \A s : Two!Failures(s, w, 1, {0}) = R2!Failures(s, w, 1, {0})
          /\ \A f : Two!Stage(f) = R2!Stage(f)
      BY <2>2, <2>3
    <3>2. Two!Eligible(S, w, 1, {0}) = R2!Eligible(S, w, 1, {0})
      BY <3>1 DEF Two!Eligible, R2!Eligible
    <3> QED BY <3>1, <3>2, SMT DEF Two!Rejections, R2!Rejections
  <2>5. /\ Two!Select(snaps, work, 1, {0}) = R2!Select(snaps, work, 1, {0})
        /\ Two!Rejections(snaps, work, 1, {0}) = R2!Rejections(snaps, work, 1, {0})
    <3> HIDE DEF snaps, work
    <3> QED BY <2>1, <2>4
  <2>6. /\ work = R2!Workload(two.wish, two.privacy)
        /\ \A wish, placed : Two!Outcome(wish, placed) = R2!Outcome(wish, placed)
        /\ Two!Snapshot(Two!Last, l, t) = R2!Snapshot(R2!Last, l, t)
        /\ Two!Ids = R2!Ids /\ Two!Last = R2!Last
    BY Zenon DEF Two!Workload, R2!Workload, Two!Outcome, R2!Outcome,
                 Two!Snapshot, R2!Snapshot, Two!Ids, R2!Ids, Two!Last, R2!Last
  <2>7. snaps = {Append(two.view, R2!Snapshot(R2!Last, l, t))[p] : p \in R2!Ids}
    BY <2>6
  <2> QED
    BY <2>5, <2>6, <2>7 DEF Two!Decide, R2!Decide
<1>6. Two!LookAgain <=> R2!LookAgain
  BY DEF Two!LookAgain, R2!LookAgain, Two!Last, R2!Last, Two!Names, R2!Names
<1>7. Two!Explain <=> R2!Explain
  BY DEF Two!Explain, R2!Explain, Two!KnownButUnhealthy, R2!KnownButUnhealthy, 
             Two!Ids, R2!Ids, Two!Last, R2!Last, Two!Names, R2!Names
<1>8. Two!Answered <=> R2!Answered
  BY DEF Two!Answered, R2!Answered, Two!Idle, R2!Idle
<1> QED
  BY <1>1, <1>2, <1>3, <1>4, <1>5, <1>6, <1>7, <1>8 DEF Two!Next, R2!Next

LEMMA R2Routes == Two!Spec => R2!Spec
<1>1. Two!Init => R2!Init
  BY Zenon DEF Two!Init, R2!Init, Two!Ids, R2!Ids, Two!Idle, R2!Idle
<1>2. [Two!Next]_Two!vars => [R2!Next]_R2!vars
  BY R2Steps DEF Two!vars, R2!vars
<1> QED BY <1>1, <1>2, PTL DEF Two!Spec, R2!Spec

LEMMA R2Assumptions ==
    /\ R2!ModelsAssumption /\ R2!PlacementAssumption
    /\ R2!FleetAssumption /\ R2!InventoriesAssumption /\ R2!LoadsAssumption
    /\ R2!RawsAssumption /\ R2!AgesAssumption /\ R2!WishesAssumption
<1>1. R2!ModelsAssumption /\ R2!PlacementAssumption /\ R2!LoadsAssumption /\ R2!AgesAssumption
  BY CallsAssumption
     DEF One!ModelsAssumption, R2!ModelsAssumption, One!PlacementAssumption, R2!PlacementAssumption,
         One!LoadsAssumption, R2!LoadsAssumption, One!AgesAssumption, R2!AgesAssumption
<1>2. R2!FleetAssumption /\ R2!WishesAssumption
  BY CallsAssumption DEF One!FleetAssumption, R2!FleetAssumption, One!WishesAssumption, R2!WishesAssumption
<1>3. R2!RawsAssumption
  BY CallsAssumption
     DEF One!RawsAssumption, R2!RawsAssumption, One!Raws, R2!Raws,
         One!KNOWN_TIERS, R2!KNOWN_TIERS, One!PRIVACY_STRICTNESS, R2!PRIVACY_STRICTNESS
<1>4. R2!InventoriesAssumption
  BY CallsAssumption
     DEF One!InventoriesAssumption, R2!InventoriesAssumption, One!ModelInfo, R2!ModelInfo, One!IsFiniteSet, R2!IsFiniteSet
<1> QED BY <1>1, <1>2, <1>3, <1>4

(* What RoutingProofs proves of a call, of this one. *)
LEMMA R2Guarantees ==
    Two!Spec => [](R2!IInv /\ R2!CloudNeedsConsent /\ R2!PreferenceHonoured)
<1>1. /\ R2!ModelsAssumption /\ R2!PlacementAssumption
    /\ R2!FleetAssumption /\ R2!InventoriesAssumption /\ R2!LoadsAssumption
    /\ R2!RawsAssumption /\ R2!AgesAssumption /\ R2!WishesAssumption
  BY R2Assumptions
<1> USE DEF R2!ModelsAssumption, R2!PlacementAssumption, R2!FleetAssumption, R2!InventoriesAssumption,
            R2!LoadsAssumption, R2!RawsAssumption, R2!AgesAssumption, R2!WishesAssumption
<1>2. R2!Spec => []R2!IInv
  BY <1>1, R2!Invariance, PTL
<1>3. R2!Spec => []R2!CloudNeedsConsent
  BY <1>1, R2!CloudIsDefaultDenied, PTL
<1>4. R2!Spec => []R2!PreferenceHonoured
  BY <1>1, R2!PreferenceIsHonoured, PTL
<1> QED BY <1>2, <1>3, <1>4, R2Routes, PTL

LEMMA R2Shortest == R2!IInv /\ R2!PreferenceHonoured => Shortest(two)
<1> SUFFICES ASSUME R2!IInv, R2!PreferenceHonoured, Running(two)
             PROVE  Shortest(two)
  BY DEF Shortest
<1> DEFINE work  == One!Workload(two.wish, two.privacy)
           taker == two.view[two.placed.provider]
           warm(s) == \E m \in One!Fitting(s, work) : m.loaded
<1>1. R2!Provided /\ two.pc # "idle"
  BY DEF R2!Provided, Running
<1>2. /\ two.view \in Seq(R2!Snapshots) /\ R2!Decided /\ Len(two.view) = Len(Fleet)
      /\ two.placed.provider \in R2!Ids
      /\ \A p \in 1..Len(two.view) :
            two.view[p].id = p /\ two.view[p].placement_class = Fleet[p].placement_class
  BY <1>1 DEF R2!IInv, R2!TypeOK, R2!Recorded, R2!Decided, R2!Last, R2!LawfulChoice,
              R2!FaithfulView, R2!Chosen
<1>3. One!Ids = 1..Len(Fleet) /\ R2!Ids = One!Ids
  BY FleetFacts DEF One!Ids, R2!Ids
<1>4. \A p \in One!Ids : two.view[p].id = p /\ two.view[p] \in R2!Snapshots
  BY <1>2, <1>3
<1>5. \A p \in One!Ids : two.view[p] = [two.view[p] EXCEPT !.active_runs = @]
  BY <1>4 DEF R2!Snapshots
<1>6. work = R2!Work /\ \A s : One!QueueSeconds(s) = R2!QueueSeconds(s)
  BY Zenon DEF R2!Work, One!Workload, R2!Workload, One!QueueSeconds, R2!QueueSeconds,
         One!QUEUE_SECONDS_PER_BACKLOGGED_RUN, R2!QUEUE_SECONDS_PER_BACKLOGGED_RUN
<1>7. \A s : One!Fitting(s, work) = R2!Fitting(s, R2!Work)
  BY <1>6, Zenon DEF One!Fitting, R2!Fitting, One!Asked, R2!Asked
<1>8. \A s : One!Failures(s, work, 1, {0}) = R2!Failures(s, R2!Work, 1, {0})
  <2>1. \A s, r, n, a : One!Failures(s, r, n, a) = R2!Failures(s, r, n, a)
    BY Zenon DEF One!Failures, R2!Failures, One!Stages, R2!Stages, One!Candidates,
                 R2!Candidates, One!Asked, R2!Asked, One!Fitting, R2!Fitting
  <2> QED BY <1>6, <2>1
<1>9. ASSUME NEW p \in One!Ids, work.prefers \notin {"quality", "latency"},
             two.view[p] \in One!Eligible({two.view[p]}, work, 1, {0}),
             two.view[p].placement_class = taker.placement_class,
             warm(two.view[p]) = warm(taker)
      PROVE  One!QueueSeconds(taker) <= One!QueueSeconds(two.view[p])
  <2> DEFINE s == two.view[p]
  <2>1. taker = R2!Taker /\ taker.placement_class = Fleet[R2!Chosen].placement_class
    BY <1>2, <1>3 DEF R2!Taker, R2!Chosen
  <2>2. s \in R2!Snaps
    BY <1>3 DEF R2!Snaps
  <2>3. R2!Failures(s, R2!Work, 1, {0}) = {}
    BY <1>8, <1>9 DEF One!Eligible
  <2>4. s \in R2!Rivals
    BY <1>9, <2>1, <2>2, <2>3 DEF R2!Rivals, R2!Eligible
  <2>5. (\E m \in R2!Fitting(s, R2!Work) : m.loaded)
          = (\E m \in R2!Fitting(R2!Taker, R2!Work) : m.loaded)
    BY <1>7, <1>9, <2>1
  <2>6. R2!QueueSeconds(R2!Taker) <= R2!QueueSeconds(s)
    <3> HIDE DEF s, work, taker, warm
    <3> QED BY <1>1, <1>6, <1>9, <2>4, <2>5 DEF R2!PreferenceHonoured
  <2> QED BY <1>6, <2>1, <2>6
<1> HIDE DEF work, taker, warm
<1>10. \A p \in One!Ids : Clean(two.view[p]) /\ two.view[p].id = p
  BY <1>4 DEF Clean, R2!Snapshots
<1> QED BY <1>2, <1>3, <1>9, <1>10 DEF Shortest, work, taker, warm

LEMMA CallsAreShortest == Spec => [](\A c \in Clients : Shortest(Of(c)))
<1>1. Shortest(one) /\ Shortest(two) => \A c \in Clients : Shortest(Of(c))
  BY DEF Of
<1> QED
  BY <1>1, CallsRoute, R1Guarantees, R2Guarantees, R1Shortest, R2Shortest, PTL

(* Cloud execution stays default-denied when two calls share a server: the  *)
(* probes and the load that one sees of the other change nothing of it.     *)
THEOREM CallsNeedConsent == Spec => [](R1!CloudNeedsConsent /\ R2!CloudNeedsConsent)
BY CallsRoute, R1Guarantees, R2Guarantees, PTL

(* Only a placement starts a run. *)
LEMMA PlacesDecides ==
    ASSUME IInv, [Next]_all, NEW c \in Clients, Places(c)
    PROVE  Decides(c)
<1>1. ~ Running(Of(c)) /\ Running(Of(c)')
  BY DEF Places
<1>2. Of(c)' # Of(c)
  BY <1>1
<1>3. CASE UNCHANGED all
  BY <1>2, <1>3 DEF all, Of
<1>4. CASE Probes
  BY <1>2, <1>4 DEF Probes, One!ProbeDown, One!ProbeUp, Of
<1>5. CASE BusNext /\ UNCHANGED <<cache, one, two, leaked, number, made, history>>
  BY <1>2, <1>5 DEF Of
<1>6. ASSUME NEW d \in Clients, ~ Decides(d),
             Asks(d) \/ Looks(d) \/ Decides(d) \/ Explains(d) \/ Replies(d) \/ Ends(d) \/ Leaves(d)
      PROVE  Others(d) /\ ~ Running(Of(d)')
  <2>1. CASE Asks(d)
    BY <2>1, AsksFacts DEF Running
  <2>2. CASE Looks(d)
    BY <2>2, LooksFacts DEF IInv, Running
  <2>3. CASE Explains(d)
    BY <2>3, ExplainsFacts DEF IInv, Running, Explained
  <2>4. CASE Replies(d) \/ Ends(d) \/ Leaves(d)
    BY <2>4, AnswersFacts DEF Replies, Ends, Leaves, Running, One!Idle
  <2> QED BY <1>6, <2>1, <2>2, <2>3, <2>4
<1>7. \A d \in Clients : Decides(d) => Others(d)
  BY DecidesFacts DEF IInv
<1> QED BY <1>1, <1>2, <1>3, <1>4, <1>5, <1>6, <1>7 DEF Next, Others

(* A call without a preference, under which no run began or ended, gets the *)
(* shortest queue there is: what it saw of the load was still so.           *)
THEOREM ShortestQueueIsTaken == Spec => ShortestQueueUnlessRaced
<1> DEFINE Taken ==
      \A c \in Clients : Places(c) /\ c \notin raced =>
          LET call   == Of(c)'
              work   == One!Workload(call.wish, call.privacy)
              taker  == call.view[call.placed.provider]
              warm(s) == \E m \in One!Fitting(s, work) : m.loaded
          IN \A p \in One!Ids :
               LET s == call.view[p]
               IN work.prefers \notin {"quality", "latency"}
                  /\ s \in One!Eligible({s}, work, 1, {0})
                  /\ s.placement_class = taker.placement_class
                  /\ warm(s) = warm(taker) => Queue(taker) <= Queue(s)
<1>1. IInv /\ Seen /\ (\A c \in Clients : Shortest(Of(c)))' /\ [Next]_all => [Taken]_all
  <2> SUFFICES ASSUME IInv, Seen, \A c \in Clients : Shortest(Of(c)'), [Next]_all,
                      NEW c \in Clients, Places(c), c \notin raced, NEW p \in One!Ids
               PROVE  LET call   == Of(c)'
                          work   == One!Workload(call.wish, call.privacy)
                          taker  == call.view[call.placed.provider]
                          warm(s) == \E m \in One!Fitting(s, work) : m.loaded
                          s      == call.view[p]
                      IN work.prefers \notin {"quality", "latency"}
                         /\ s \in One!Eligible({s}, work, 1, {0})
                         /\ s.placement_class = taker.placement_class
                         /\ warm(s) = warm(taker) => Queue(taker) <= Queue(s)
    BY DEF Shortest, Running
  <2> DEFINE call == Of(c)'
             q    == call.placed.provider
  <2>1. Decides(c) /\ Running(call)
    BY PlacesDecides DEF Places
  <2>2. /\ Of(c).pc = "looking" /\ IsSeq(Of(c).view) /\ Len(Of(c).view) + 1 = Len(Fleet)
        /\ \E x : call.view = Append(Of(c).view, x) /\ x.active_runs = NextLoad(Of(c))
    BY <2>1, DecidesFacts DEF IInv
  <2>3. \A r \in One!Ids : call.view[r].active_runs = Active(r)
    <3>1. PICK x : call.view = Append(Of(c).view, x) /\ x.active_runs = NextLoad(Of(c))
      BY <2>2
    <3> HIDE DEF call
    <3>2. /\ Len(Of(c).view) \in Nat
          /\ \A r \in 1..Len(Of(c).view) : call.view[r] = Of(c).view[r]
          /\ call.view[Len(Of(c).view) + 1] = x
      BY <2>2, <3>1, SequenceGrows
    <3>3. \A r \in 1..Len(Of(c).view) : Of(c).view[r].active_runs = Active(r)
      BY <2>2 DEF Seen, Fresh
    <3>4. x.active_runs = Active(Len(Of(c).view) + 1)
      BY <3>1 DEF NextLoad
    <3>5. \A r \in One!Ids : r \in 1..Len(Of(c).view) \/ r = Len(Of(c).view) + 1
      BY <2>2, <3>2, FleetFacts
    <3> QED BY <3>2, <3>3, <3>4, <3>5
  <2>4. /\ q \in One!Ids
        /\ \A r \in One!Ids : Clean(call.view[r]) /\ call.view[r].id = r
    BY <2>1 DEF Shortest
  <2>5. \A r \in One!Ids : Queue(call.view[r]) = One!QueueSeconds(call.view[r])
    BY <2>3, <2>4 DEF Queue, Clean
  <2> QED BY <2>1, <2>4, <2>5 DEF Shortest
<1> QED
  BY <1>1, Invariance, SeenInvariance, CallsAreShortest, PTL DEF Spec, ShortestQueueUnlessRaced
=============================================================================
