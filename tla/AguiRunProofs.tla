---- MODULE AguiRunProofs ----
(***************************************************************************)
(* Proofs about AguiRun, for every budget, batch size, limit and set of    *)
(* faults: what a connected client is told of its run is what happened, no *)
(* goroutine outlives the request, and the stream keeps to AguiProtocol.   *)
(***************************************************************************)
EXTENDS AguiRun, TLAPS

----
\* The inductive invariant.

\* The s-th event of the i-th call, or (i = 0) of a block or message, of round n.
Ev(u, n, i, s) == [unit |-> u, id |-> <<n, i>>, step |-> s]

Started == RunEvent("started")
Terminals == {RunEvent("finished"), RunEvent("interrupt"), RunEvent("error")}

Silent == {"parse", "resume", "empty", "props", "open"}
Early == Silent \cup {"emptyEnd", "chat", "ask"}

\* Where the run is says what its goroutines do ...
GoroutineInv ==
    /\ pc # "reply" => emitting[0] = <<>> /\ storing = "idle"
    /\ pc # "calls" => \A i \in Slot : callPc[i] = "idle"
    /\ pc = "calls" => \A i \in Slot : callPc[i] = "idle" <=> i \notin Batch
    /\ \A i \in Slot : callPc[i] \notin {"start", "end"} => emitting[i] = <<>>

\* ... and what its Chat has come to.
ControlInv ==
    /\ pc \in {"execute", "calls", "exhaust"} => reply.calls > 0
    /\ pc = "record" => reply.calls = 0
    /\ pc \in Early => round = 0
    /\ pc \in {"reply", "execute", "calls", "record"} => round >= 1
    /\ pc = "llm" => round < MaxToolCalls
    /\ pc = "exhaust" => round = MaxToolCalls
    /\ pc \notin {"finish", "done"} => err = "none" /\ recorded = "none"
    /\ pc = "finish" /\ err = "none" => recorded = "complete"
    /\ pc = "finish" /\ err = "max" => recorded # "complete" /\ round = MaxToolCalls
    /\ pc = "finish" /\ err = "other" => recorded # "incomplete"
    /\ round >= 1 => replies[round] = reply

\* What the emitter makes of a response: a reasoning block, and a text message
\* if nothing else is to be done.
ReasoningLength(r) == IF r.thinking THEN 5 ELSE 0
TextLength(r) == IF r.calls = 0 /\ r.text THEN 3 ELSE 0
MessageLength(r) == ReasoningLength(r) + TextLength(r)
MessageEvent(r, n, p) ==
    IF p <= ReasoningLength(r) THEN Ev("reasoning", n, 0, p)
                               ELSE Ev("text", n, 0, p - ReasoningLength(r))

\* How many events of the response, and of a call, its emitter is done with.
ToldOfReply == MessageLength(reply) - Len(emitting[0])
ToldOfCall(i) ==
    IF callPc[i] = "start" THEN 2 - Len(emitting[i])
    ELSE IF callPc[i] = "end" THEN 4 - Len(emitting[i])
    ELSE IF callPc[i] = "done" THEN 4 ELSE 0

\* What it has still to write follows.
EmitterInv ==
    /\ pc = "reply" =>
          /\ Len(emitting[0]) <= MessageLength(reply)
          /\ \A j \in 1..Len(emitting[0]) :
                emitting[0][j] = MessageEvent(reply, round, ToldOfReply + j)
    /\ \A i \in Slot : callPc[i] \in {"start", "end"} =>
          /\ Len(emitting[i]) <= 2
          /\ \A j \in 1..Len(emitting[i]) : emitting[i][j] = Ev("call", round, i, ToldOfCall(i) + j)

\* The stream has nothing but the run's opening and the events of its rounds.
WireForm ==
    \A e \in wire : e = Started \/ \E n \in 1..round :
        \/ \E s \in 1..5 : e = Ev("reasoning", n, 0, s)
        \/ \E s \in 1..3 : e = Ev("text", n, 0, s)
        \/ \E i \in Slot, s \in 1..4 : e = Ev("call", n, i, s)

\* What was begun before the present step of the loop is complete.
PastClosed ==
    /\ \A n \in 1..round : n < round \/ pc # "reply" =>
          /\ \A s \in 1..4 : Ev("reasoning", n, 0, s) \in wire => Ev("reasoning", n, 0, s + 1) \in wire
          /\ \A s \in 1..2 : Ev("text", n, 0, s) \in wire => Ev("text", n, 0, s + 1) \in wire
    /\ \A n \in 1..round : n < round \/ pc # "calls" =>
          \A i \in Slot, s \in 1..3 : Ev("call", n, i, s) \in wire => Ev("call", n, i, s + 1) \in wire

\* What the client has of the present response and its calls.
ReplyTold ==
    /\ pc = "reply" =>
          /\ \A s \in 1..5 : Ev("reasoning", round, 0, s) \in wire <=>
                s <= ReasoningLength(reply) /\ s <= ToldOfReply
          /\ \A s \in 1..3 : Ev("text", round, 0, s) \in wire <=>
                s <= TextLength(reply) /\ ReasoningLength(reply) + s <= ToldOfReply
    /\ pc \in {"execute", "calls", "record"} =>
          \A p \in 1..MessageLength(reply) : MessageEvent(reply, round, p) \in wire

CallsTold ==
    /\ pc \in {"reply", "execute", "record"} =>
          \A i \in Slot, s \in 1..4 : Ev("call", round, i, s) \notin wire
    /\ pc = "calls" =>
          \A i \in Slot, s \in 1..4 : Ev("call", round, i, s) \in wire <=> s <= ToldOfCall(i)

\* All there is to tell of round n (Delivered).
Told(n) ==
    /\ \A p \in 1..MessageLength(replies[n]) : MessageEvent(replies[n], n, p) \in wire
    /\ \A i \in 1..replies[n].calls : Ev("call", n, i, 4) \in wire

\* Every round that is over was told in full.
RoundOver == pc \in {"llm", "exhaust"} \/ (pc = "finish" /\ (err = "max" \/ recorded = "complete"))
RoundsTold == \A n \in 1..round : n < round \/ RoundOver => Told(n)

\* What a connected client has been told.
ClientTold ==
    /\ pc \in Silent => wire = {}
    /\ pc \notin Silent => Started \in wire
    /\ WireForm
    /\ PastClosed
    /\ ReplyTold
    /\ CallsTold
    /\ RoundsTold

WireInv == client = "there" /\ pc # "done" => ClientTold

\* A terminal event is the last thing the handler does.
TerminalInv == wire \cap Terminals # {} => pc = "done"

IInv ==
    /\ TypeOK
    /\ GoroutineInv
    /\ ControlInv
    /\ EmitterInv
    /\ WireInv
    /\ TerminalInv
    /\ ConnectedGetsEnd
    /\ OutcomeMatchesTurn

----
\* The constants, the events and the sequences of them.

USE DEF stream, answers, chatVars, Goto

LEMMA Constants == MaxToolCalls \in Nat \ {0} /\ MaxBatch \in Nat
  BY AguiBoundsAssumption

\* The emitters are one for the messages and one for each call.
LEMMA Emitters ==
    /\ 0 \in Emitter /\ 0 \notin Slot
    /\ \A i \in Slot : i \in Emitter /\ i # 0
    /\ \A g \in Emitter : g = 0 \/ g \in Slot
  BY Constants DEF Slot, Emitter

\* Events are told apart by their unit, round, call and step.
LEMMA EvFacts ==
    /\ \A u, v, n, m, i, j, s, t :
          Ev(u, n, i, s) = Ev(v, m, j, t) => u = v /\ n = m /\ i = j /\ s = t
    /\ \A u, n, i, s, name : u # "run" => Ev(u, n, i, s) # RunEvent(name)
    /\ \A name, other : RunEvent(name) = RunEvent(other) => name = other
  BY DEF Ev, RunEvent

LEMMA EvType ==
    ASSUME NEW n \in 0..MaxToolCalls, NEW i \in 0..MaxBatch, NEW s \in 1..5,
           NEW u \in {"reasoning", "text", "call"}
    PROVE  Ev(u, n, i, s) \in Event
  BY DEF Ev, Event, EventId

LEMMA RunEventType ==
    \A name \in {"started", "finished", "interrupt", "error"} : RunEvent(name) \in Event
  BY DEF RunEvent, Event

\* What the emitter's runs of events are.
LEMMA StepsFacts ==
    ASSUME NEW n \in 0..MaxToolCalls, NEW i \in 0..MaxBatch
    PROVE  /\ /\ Steps("reasoning", <<n, i>>, 1, 5) \in Seq(Event)
              /\ Len(Steps("reasoning", <<n, i>>, 1, 5)) = 5
              /\ \A j \in 1..5 : Steps("reasoning", <<n, i>>, 1, 5)[j] = Ev("reasoning", n, i, j)
           /\ /\ Steps("text", <<n, i>>, 1, 3) \in Seq(Event)
              /\ Len(Steps("text", <<n, i>>, 1, 3)) = 3
              /\ \A j \in 1..3 : Steps("text", <<n, i>>, 1, 3)[j] = Ev("text", n, i, j)
           /\ /\ Steps("call", <<n, i>>, 1, 2) \in Seq(Event)
              /\ Len(Steps("call", <<n, i>>, 1, 2)) = 2
              /\ \A j \in 1..2 : Steps("call", <<n, i>>, 1, 2)[j] = Ev("call", n, i, j)
           /\ /\ Steps("call", <<n, i>>, 3, 4) \in Seq(Event)
              /\ Len(Steps("call", <<n, i>>, 3, 4)) = 2
              /\ \A j \in 1..2 : Steps("call", <<n, i>>, 3, 4)[j] = Ev("call", n, i, 2 + j)
<1>1. 5 - 1 + 1 = 5 /\ 3 - 1 + 1 = 3 /\ 2 - 1 + 1 = 2 /\ 4 - 3 + 1 = 2
  OBVIOUS
<1>2. \A j \in Nat : 1 + j - 1 = j /\ 3 + j - 1 = 2 + j
  OBVIOUS
<1>3. Steps("reasoning", <<n, i>>, 1, 5) = [j \in 1..5 |-> Ev("reasoning", n, i, j)]
  BY <1>1, <1>2 DEF Steps, Ev
<1>4. Steps("text", <<n, i>>, 1, 3) = [j \in 1..3 |-> Ev("text", n, i, j)]
  BY <1>1, <1>2 DEF Steps, Ev
<1>5. Steps("call", <<n, i>>, 1, 2) = [j \in 1..2 |-> Ev("call", n, i, j)]
  BY <1>1, <1>2 DEF Steps, Ev
<1>6. Steps("call", <<n, i>>, 3, 4) = [j \in 1..2 |-> Ev("call", n, i, 2 + j)]
  BY <1>1, <1>2 DEF Steps, Ev
<1>7. \A u \in {"reasoning", "text", "call"}, s \in 1..5 : Ev(u, n, i, s) \in Event
  BY EvType
<1>8. [j \in 1..5 |-> Ev("reasoning", n, i, j)] \in Seq(Event)
  BY <1>7
<1>9. [j \in 1..3 |-> Ev("text", n, i, j)] \in Seq(Event)
  BY <1>7
<1>10. [j \in 1..2 |-> Ev("call", n, i, j)] \in Seq(Event)
  BY <1>7
<1>11. [j \in 1..2 |-> Ev("call", n, i, 2 + j)] \in Seq(Event)
  BY <1>7
<1>12. /\ Len([j \in 1..5 |-> Ev("reasoning", n, i, j)]) = 5
       /\ Len([j \in 1..3 |-> Ev("text", n, i, j)]) = 3
       /\ Len([j \in 1..2 |-> Ev("call", n, i, j)]) = 2
       /\ Len([j \in 1..2 |-> Ev("call", n, i, 2 + j)]) = 2
  OBVIOUS
<1> QED
  BY <1>3, <1>4, <1>5, <1>6, <1>8, <1>9, <1>10, <1>11, <1>12

LEMMA ConcatFacts ==
    ASSUME NEW S, NEW p \in Seq(S), NEW q \in Seq(S)
    PROVE  /\ p \o q \in Seq(S) /\ Len(p \o q) = Len(p) + Len(q)
           /\ \A j \in 1..(Len(p) + Len(q)) :
                 (p \o q)[j] = IF j <= Len(p) THEN p[j] ELSE q[j - Len(p)]
  OBVIOUS

\* The events of a response: its reasoning block, then its text.
LEMMA MessageFacts ==
    ASSUME NEW r \in Replies, NEW n \in 0..MaxToolCalls
    PROVE  /\ MessageEvents(r, n) \in Seq(Event)
           /\ Len(MessageEvents(r, n)) = MessageLength(r)
           /\ DOMAIN MessageEvents(r, n) = 1..MessageLength(r)
           /\ \A p \in 1..MessageLength(r) : MessageEvents(r, n)[p] = MessageEvent(r, n, p)
<1> DEFINE reasoning == IF r.thinking THEN Steps("reasoning", <<n, 0>>, 1, 5) ELSE <<>>
           text == IF r.calls = 0 /\ r.text THEN Steps("text", <<n, 0>>, 1, 3) ELSE <<>>
<1>0. 0 \in 0..MaxBatch
  BY Constants
<1>1. /\ reasoning \in Seq(Event) /\ Len(reasoning) = ReasoningLength(r)
      /\ \A p \in 1..ReasoningLength(r) : reasoning[p] = Ev("reasoning", n, 0, p)
  <2>1. /\ Steps("reasoning", <<n, 0>>, 1, 5) \in Seq(Event)
        /\ Len(Steps("reasoning", <<n, 0>>, 1, 5)) = 5
        /\ \A j \in 1..5 : Steps("reasoning", <<n, 0>>, 1, 5)[j] = Ev("reasoning", n, 0, j)
    BY <1>0, StepsFacts
  <2>2. <<>> \in Seq(Event) /\ Len(<<>>) = 0
    OBVIOUS
  <2>3. CASE r.thinking
    BY <2>1, <2>3 DEF ReasoningLength
  <2>4. CASE ~r.thinking
    BY <2>2, <2>4 DEF ReasoningLength
  <2> QED
    BY <2>3, <2>4
<1>2. /\ text \in Seq(Event) /\ Len(text) = TextLength(r)
      /\ \A p \in 1..TextLength(r) : text[p] = Ev("text", n, 0, p)
  <2>1. /\ Steps("text", <<n, 0>>, 1, 3) \in Seq(Event)
        /\ Len(Steps("text", <<n, 0>>, 1, 3)) = 3
        /\ \A j \in 1..3 : Steps("text", <<n, 0>>, 1, 3)[j] = Ev("text", n, 0, j)
    BY <1>0, StepsFacts
  <2>2. <<>> \in Seq(Event) /\ Len(<<>>) = 0
    OBVIOUS
  <2>3. CASE (r.calls = 0 /\ r.text)
    BY <2>1, <2>3 DEF TextLength
  <2>4. CASE ~(r.calls = 0 /\ r.text)
    BY <2>2, <2>4 DEF TextLength
  <2> QED
    BY <2>3, <2>4
<1>3. MessageEvents(r, n) = reasoning \o text
  BY DEF MessageEvents
<1> HIDE DEF reasoning, text
<1>4. ReasoningLength(r) \in Nat /\ TextLength(r) \in Nat
  BY DEF ReasoningLength, TextLength
<1>5. MessageEvents(r, n) \in Seq(Event) /\ Len(MessageEvents(r, n)) = MessageLength(r)
  BY <1>1, <1>2, <1>3, <1>4, ConcatFacts DEF MessageLength
<1>6. ASSUME NEW p \in 1..MessageLength(r)
      PROVE  MessageEvents(r, n)[p] = MessageEvent(r, n, p)
  <2>1. MessageEvents(r, n)[p] = IF p <= ReasoningLength(r) THEN reasoning[p]
                                 ELSE text[p - ReasoningLength(r)]
    BY <1>1, <1>2, <1>3, <1>4, ConcatFacts DEF MessageLength
  <2> QED
    BY <1>1, <1>2, <1>4, <2>1 DEF MessageLength, MessageEvent
<1>7. DOMAIN MessageEvents(r, n) = 1..MessageLength(r)
  BY <1>5
<1> QED
  BY <1>5, <1>6, <1>7

LEMMA HeadTail ==
    ASSUME NEW S, NEW q \in Seq(S), q # <<>>
    PROVE  /\ Head(q) = q[1] /\ Head(q) \in S
           /\ Tail(q) \in Seq(S)
           /\ Len(q) \in Nat /\ Len(q) >= 1 /\ Len(Tail(q)) = Len(q) - 1
           /\ \A j \in 1..(Len(q) - 1) : Tail(q)[j] = q[j + 1]
  OBVIOUS

\* The events of a call.
LEMMA CallEventFacts ==
    ASSUME TypeOK, NEW i \in Slot
    PROVE  /\ StartEvents(i) \in Seq(Event) /\ Len(StartEvents(i)) = 2
           /\ EndEvents(i) \in Seq(Event) /\ Len(EndEvents(i)) = 2
           /\ \A j \in 1..2 : /\ StartEvents(i)[j] = Ev("call", round, i, j)
                            /\ EndEvents(i)[j] = Ev("call", round, i, 2 + j)
<1>1. round \in 0..MaxToolCalls /\ i \in 0..MaxBatch
  BY Constants DEF TypeOK, Slot
<1> QED
  BY <1>1, StepsFacts DEF StartEvents, EndEvents

----
\* Types.

LEMMA InitInv == Init => IInv
<1> SUFFICES ASSUME Init PROVE IInv
  OBVIOUS
<1>1. TypeOK
  <2>1. Nothing \in Replies
    BY Constants, Emitters DEF Nothing, Replies
  <2>2. 0 \in 0..MaxToolCalls /\ <<>> \in Seq(Event)
    BY Constants, Emitters
  <2> QED
    BY <2>1, <2>2 DEF Init, TypeOK, Label
<1>2. GoroutineInv /\ ControlInv /\ EmitterInv
  BY Constants, Emitters DEF Init, GoroutineInv, ControlInv, EmitterInv, Early, Silent
<1>3. WireInv
  BY Constants, Emitters
     DEF Init, WireInv, ClientTold, Silent, WireForm, PastClosed, ReplyTold, CallsTold, RoundsTold
<1>4. TerminalInv /\ ConnectedGetsEnd /\ OutcomeMatchesTurn
  BY DEF Init, TerminalInv, ConnectedGetsEnd, OutcomeMatchesTurn
<1> QED
  BY <1>1, <1>2, <1>3, <1>4 DEF IInv

\* ServeHTTP before Chat has called the LLM.
Opening ==
    parseRequest \/ handleResume \/ EmptyRun \/ resolveForwardedProps \/ streamChat \/ Prepare \/ Ask

LEMMA OpeningFrame ==
    ASSUME Opening
    PROVE  /\ pc \in Early
           /\ pc' \in (Early \ {"parse"}) \cup {"llm", "finish", "done"}
           /\ UNCHANGED <<limit, client, emitting, storing, chatVars>>
           /\ status' \in {status, 400}
           /\ err' = err \/ (err' = "other" /\ pc' = "finish")
           /\ pc' = "finish" => err' = "other"
           /\ pc' = "llm" => pc = "ask"
  BY DEF Opening, Early, Silent, parseRequest, Refuse, handleResume, EmptyRun, resolveForwardedProps,
         writeSSEError, streamChat, Prepare, Ask, Fail, Leave

LEMMA WriteEventType ==
    ASSUME TypeOK, NEW e \in Event, WriteEvent(e)
    PROVE  wire' \subseteq Event /\ count' \in Nat
  BY DEF TypeOK, WriteEvent

LEMMA TypeStep ==
    ASSUME TypeOK, ControlInv, Next
    PROVE  TypeOK'
<1>1. ASSUME Opening PROVE TypeOK'
  <2>1. wire' \subseteq Event /\ count' \in Nat
    <3>1. UNCHANGED stream \/ \E name \in {"started", "finished", "error"} : WriteEvent(RunEvent(name))
      BY <1>1
         DEF Opening, parseRequest, handleResume, EmptyRun, resolveForwardedProps, writeSSEError,
             streamChat, Prepare, Ask
    <3>2. CASE UNCHANGED stream
      BY <3>2 DEF TypeOK
    <3> QED
      BY <3>1, <3>2, RunEventType, WriteEventType
  <2> QED
    BY <1>1, <2>1, OpeningFrame DEF TypeOK, Label, Early, Silent
<1>2. ASSUME Complete PROVE TypeOK'
  <2>1. round + 1 \in 0..MaxToolCalls
    BY <1>2, Constants, Emitters DEF Complete, ControlInv, TypeOK
  <2>2. PICK r \in Replies : /\ reply' = r
                            /\ replies' = [replies EXCEPT ![round + 1] = r]
                            /\ emitting' = [emitting EXCEPT ![0] = MessageEvents(r, round + 1)]
    BY <1>2 DEF Complete, Replies
  <2>3. emitting' \in [Emitter -> Seq(Event)]
    BY <2>1, <2>2, MessageFacts, Constants, Emitters DEF TypeOK
  <2>4. reply' \in Replies /\ replies' \in [1..MaxToolCalls -> Replies]
    BY <2>2 DEF TypeOK
  <2> QED
    BY <1>2, <2>1, <2>3, <2>4 DEF Complete, TypeOK, Label
<1>3. ASSUME FailComplete \/ ReplyHandled \/ Execute \/ StoreResults \/ Record \/ Exhaust
      PROVE  TypeOK'
  BY <1>3
     DEF FailComplete, ReplyHandled, Execute, StoreResults, Record, Exhaust, Fail, Leave, TypeOK, Label
<1>4. ASSUME runChat PROVE TypeOK'
  <2>1. Terminal \in Event
    BY RunEventType DEF Terminal
  <2> QED
    BY <1>4, <2>1, WriteEventType DEF runChat, TypeOK, Label
<1>5. ASSUME StoreReply \/ Disconnect \/ Returned PROVE TypeOK'
  BY <1>5 DEF StoreReply, Disconnect, Returned, vars, TypeOK
<1>6. ASSUME NEW g \in Emitter, writeEvent(g) PROVE TypeOK'
  <2>1. emitting[g] \in Seq(Event) /\ emitting[g] # <<>>
    BY <1>6 DEF writeEvent, TypeOK
  <2>2. Head(emitting[g]) \in Event /\ Tail(emitting[g]) \in Seq(Event)
    BY <2>1, HeadTail
  <2>3. wire' \subseteq Event /\ count' \in Nat
    BY <1>6, <2>2, WriteEventType DEF writeEvent
  <2> QED
    BY <1>6, <2>2, <2>3 DEF writeEvent, TypeOK
<1>7. ASSUME NEW i \in Slot, CallStep(i) PROVE TypeOK'
  <2>1. i \in Emitter
    BY Constants, Emitters
  <2> QED
    <3>1. CASE StartCall(i)
      BY <2>1, <3>1, CallEventFacts DEF StartCall, TypeOK
    <3>2. CASE RunCall(i)
      BY <2>1, <3>2, CallEventFacts DEF RunCall, TypeOK
    <3>3. CASE EndCall(i)
      BY <3>3 DEF EndCall, TypeOK
    <3> QED
      BY <1>7, <3>1, <3>2, <3>3 DEF CallStep
<1> QED
  BY <1>1, <1>2, <1>3, <1>4, <1>5, <1>6, <1>7 DEF Next, ServeHTTP, Opening

----
\* Control.

LEMMA GoroutineStep ==
    ASSUME TypeOK, GoroutineInv, ControlInv, Next
    PROVE  GoroutineInv'
<1> USE DEF TypeOK, GoroutineInv
<1>1. ASSUME Opening PROVE GoroutineInv'
  BY <1>1, OpeningFrame DEF Early, Silent
<1>2. ASSUME Complete PROVE GoroutineInv'
  BY <1>2, Emitters DEF Complete
<1>3. ASSUME FailComplete PROVE GoroutineInv'
  BY <1>3 DEF FailComplete, Fail, Leave
<1>4. ASSUME ReplyHandled PROVE GoroutineInv'
  BY <1>4 DEF ReplyHandled, Leave
<1>5. ASSUME Execute PROVE GoroutineInv'
  <2>1. /\ UNCHANGED <<emitting, storing>> /\ pc = "execute" /\ Batch' = Batch
        /\ \/ pc' = "calls" /\ callPc' = [i \in Slot |-> IF i \in Batch THEN "queued" ELSE "idle"]
           \/ pc' = "finish" /\ UNCHANGED callPc
    BY <1>5 DEF Execute, Fail, Leave, Batch
  <2>2. CASE pc' = "calls"
    <3>1. \A i \in Slot : emitting[i] = <<>>
      <4>1. \A i \in Slot : callPc[i] = "idle"
        BY <2>1
      <4> QED
        BY <4>1
    <3>2. callPc' = [i \in Slot |-> IF i \in Batch THEN "queued" ELSE "idle"]
      BY <2>1, <2>2
    <3>3. emitting'[0] = <<>> /\ storing' = "idle"
      BY <2>1
    <3> QED
      BY <2>1, <2>2, <3>1, <3>2, <3>3
  <2>3. CASE pc' = "finish"
    BY <2>1, <2>3
  <2> QED
    BY <2>1, <2>2, <2>3
<1>6. ASSUME StoreResults PROVE GoroutineInv'
  <2>1. /\ UNCHANGED <<emitting, storing>> /\ pc = "calls" /\ pc' \in {"llm", "exhaust", "finish"}
        /\ callPc' = [i \in Slot |-> "idle"]
        /\ \A i \in Batch : callPc[i] = "done"
    BY <1>6 DEF StoreResults, Fail, Leave
  <2>2. ASSUME NEW i \in Slot PROVE emitting[i] = <<>>
    <3>1. CASE i \in Batch
      BY <2>1, <3>1
    <3>2. CASE i \notin Batch
      BY <2>1, <3>2
    <3> QED
      BY <3>1, <3>2
  <2>3. \A i \in Slot : callPc'[i] = "idle"
    BY <2>1
  <2> QED
    BY <2>1, <2>2, <2>3
<1>7. ASSUME Record \/ Exhaust PROVE GoroutineInv'
  BY <1>7 DEF Record, Exhaust, Fail, Leave
<1>8. ASSUME runChat PROVE GoroutineInv'
  BY <1>8 DEF runChat
<1>9. ASSUME StoreReply \/ Disconnect \/ Returned PROVE GoroutineInv'
  <2>1. Batch' = Batch /\ UNCHANGED <<pc, emitting, callPc>>
    BY <1>9 DEF StoreReply, Disconnect, Returned, vars, Batch
  <2> QED
    BY <1>9, <2>1 DEF StoreReply, Disconnect, Returned, vars
<1>10. ASSUME NEW g \in Emitter, writeEvent(g) PROVE GoroutineInv'
  <2>1. /\ Batch' = Batch /\ UNCHANGED <<pc, storing, callPc>> /\ emitting[g] # <<>>
        /\ emitting' = [emitting EXCEPT ![g] = Tail(@)]
    BY <1>10 DEF writeEvent, Batch
  <2> QED
    BY <2>1, Emitters
<1>11. ASSUME NEW i \in Slot, CallStep(i) PROVE GoroutineInv'
  <2>1. /\ Batch' = Batch /\ UNCHANGED <<pc, storing>>
        /\ callPc[i] # "idle" /\ pc = "calls"
        /\ callPc'[i] \in {"start", "end", "done"}
        /\ callPc'[i] = "done" => emitting'[i] = <<>>
        /\ \A j \in Slot \ {i} : callPc'[j] = callPc[j]
        /\ \A g \in Emitter \ {i} : emitting'[g] = emitting[g]
    BY <1>11 DEF CallStep, StartCall, RunCall, EndCall, Batch
  <2>2. ASSUME NEW j \in Slot
        PROVE  /\ callPc'[j] = "idle" <=> j \notin Batch
               /\ callPc'[j] \notin {"start", "end"} => emitting'[j] = <<>>
    <3>1. j \in Emitter
      BY Emitters
    <3>2. CASE j = i
      BY <2>1, <3>2
    <3>3. CASE j # i
      BY <2>1, <3>1, <3>3
    <3> QED
      BY <3>2, <3>3
  <2>3. emitting'[0] = <<>> /\ storing' = "idle"
    BY <2>1, Emitters
  <2> QED
    BY <2>1, <2>2, <2>3
<1> QED
  BY <1>1, <1>2, <1>3, <1>4, <1>5, <1>6, <1>7, <1>8, <1>9, <1>10, <1>11 DEF Next, ServeHTTP, Opening

LEMMA ControlStep ==
    ASSUME TypeOK, GoroutineInv, ControlInv, Next
    PROVE  ControlInv'
<1> USE DEF TypeOK, ControlInv, Early, Silent
<1>1. ASSUME Opening PROVE ControlInv'
  BY <1>1, OpeningFrame, Constants
<1>2. ASSUME Complete PROVE ControlInv'
  <2>1. /\ pc = "llm" /\ pc' = "reply" /\ round' = round + 1
        /\ replies' = [replies EXCEPT ![round + 1] = reply']
        /\ UNCHANGED <<err, recorded>>
    BY <1>2 DEF Complete
  <2>2. round + 1 \in 1..MaxToolCalls
    BY <2>1, Constants
  <2>3. replies'[round'] = reply'
    BY <2>1, <2>2
  <2> QED
    BY <2>1, <2>2, <2>3
<1>3. ASSUME FailComplete PROVE ControlInv'
  BY <1>3 DEF FailComplete, Fail, Leave
<1>4. ASSUME ReplyHandled PROVE ControlInv'
  <2>1. /\ UNCHANGED <<answers, recorded>> /\ pc = "reply"
        /\ \/ pc' = "finish" /\ err' = "other"
           \/ /\ pc' = IF reply.calls = 0 THEN "record" ELSE "execute"
              /\ err' = err
    BY <1>4 DEF ReplyHandled, Leave
  <2>2. reply.calls \in Nat
    BY Constants DEF Replies
  <2> QED
    BY <2>1, <2>2
<1>5. ASSUME Execute PROVE ControlInv'
  BY <1>5 DEF Execute, Fail, Leave
<1>6. ASSUME StoreResults PROVE ControlInv'
  BY <1>6, Constants DEF StoreResults, Fail, Leave
<1>7. ASSUME Record \/ Exhaust PROVE ControlInv'
  <2>1. /\ UNCHANGED answers /\ pc' = "finish"
        /\ \/ pc = "record" /\ recorded' = "complete" /\ err' = "none"
           \/ pc = "record" /\ recorded' \in {"none", "complete"} /\ err' = "other"
           \/ pc = "exhaust" /\ recorded' \in {recorded, "incomplete"} /\ err' = "max"
    BY <1>7 DEF Record, Exhaust, Fail, Leave
  <2> QED
    BY <2>1
<1>8. ASSUME runChat PROVE ControlInv'
  BY <1>8 DEF runChat
<1>9. ASSUME \/ StoreReply \/ Disconnect \/ Returned
             \/ \E g \in Emitter : writeEvent(g)
             \/ \E i \in Slot : CallStep(i)
      PROVE  ControlInv'
  <2>1. UNCHANGED <<pc, answers, err, recorded>>
    BY <1>9
       DEF StoreReply, Disconnect, Returned, vars, writeEvent, CallStep, StartCall, RunCall, EndCall
  <2> QED
    BY <2>1
<1> QED
  BY <1>1, <1>2, <1>3, <1>4, <1>5, <1>6, <1>7, <1>8, <1>9 DEF Next, ServeHTTP, Opening

\* Whatever ends the request has waited for its goroutines, and starts none.
LEMMA QuietInv ==
    ASSUME GoroutineInv
    PROVE  NothingAfterReturn
<1> SUFFICES ASSUME pc = "done"
             PROVE  /\ \A g \in Emitter : emitting[g] = <<>>
                    /\ storing # "busy"
                    /\ \A i \in Slot : callPc[i] \in {"idle", "done"}
  BY DEF NothingAfterReturn
<1>1. \A i \in Slot : callPc[i] = "idle" /\ emitting[i] = <<>>
  BY DEF GoroutineInv
<1> QED
  BY <1>1, Emitters DEF GoroutineInv

----
\* The emitters.

LEMMA LengthFacts ==
    ASSUME NEW r
    PROVE  /\ ReasoningLength(r) \in {0, 5} /\ TextLength(r) \in {0, 3}
           /\ MessageLength(r) = ReasoningLength(r) + TextLength(r)
           /\ MessageLength(r) \in Nat /\ MessageLength(r) <= 8
  BY DEF ReasoningLength, TextLength, MessageLength

\* The emitter of the response writes the next of its events.
LEMMA WriteReply ==
    ASSUME TypeOK, GoroutineInv, EmitterInv, writeEvent(0)
    PROVE  /\ pc = "reply" /\ UNCHANGED <<pc, answers, callPc>>
           /\ ToldOfReply \in Nat /\ ToldOfReply < MessageLength(reply)
           /\ WriteEvent(MessageEvent(reply, round, ToldOfReply + 1))
           /\ ToldOfReply' = ToldOfReply + 1
           /\ \A i \in Slot : emitting'[i] = emitting[i]
           /\ Len(emitting'[0]) = Len(emitting[0]) - 1
           /\ \A j \in 1..Len(emitting'[0]) : emitting'[0][j] = emitting[0][j + 1]
<1> DEFINE q == emitting[0]
<1>1. /\ q # <<>> /\ WriteEvent(Head(q)) /\ emitting' = [emitting EXCEPT ![0] = Tail(q)]
      /\ UNCHANGED <<pc, answers, callPc>>
  BY DEF writeEvent
<1>2. pc = "reply" /\ q \in Seq(Event) /\ emitting'[0] = Tail(q)
  BY <1>1, Emitters DEF GoroutineInv, TypeOK
<1>3. /\ Len(q) \in Nat /\ Len(q) >= 1 /\ Len(q) <= MessageLength(reply)
      /\ Head(q) = q[1] /\ Len(Tail(q)) = Len(q) - 1
      /\ \A j \in 1..(Len(q) - 1) : Tail(q)[j] = q[j + 1]
      /\ \A j \in 1..Len(q) : q[j] = MessageEvent(reply, round, ToldOfReply + j)
  BY <1>1, <1>2, HeadTail DEF EmitterInv
<1>4. \A i \in Slot : emitting'[i] = emitting[i]
  BY <1>1, Emitters DEF TypeOK
<1>5. ToldOfReply = MessageLength(reply) - Len(q)
  BY DEF ToldOfReply
<1>6. ToldOfReply' = MessageLength(reply) - Len(Tail(q))
  <2>1. ToldOfReply' = MessageLength(reply') - Len(emitting'[0])
    BY DEF ToldOfReply, MessageLength, ReasoningLength, TextLength
  <2> QED
    BY <1>1, <1>2, <2>1
<1> HIDE DEF q
<1>7. ToldOfReply \in Nat /\ ToldOfReply < MessageLength(reply) /\ ToldOfReply' = ToldOfReply + 1
  BY <1>3, <1>5, <1>6, LengthFacts
<1>8. q[1] = MessageEvent(reply, round, ToldOfReply + 1)
  BY <1>3
<1> QED
  BY <1>1, <1>2, <1>3, <1>4, <1>7, <1>8 DEF q

\* The emitter of a call does.
LEMMA WriteCall ==
    ASSUME TypeOK, GoroutineInv, EmitterInv, NEW i \in Slot, writeEvent(i)
    PROVE  /\ callPc[i] \in {"start", "end"} /\ UNCHANGED <<pc, answers, callPc>>
           /\ pc = "calls"
           /\ ToldOfCall(i) \in IF callPc[i] = "start" THEN 0..1 ELSE 2..3
           /\ WriteEvent(Ev("call", round, i, ToldOfCall(i) + 1))
           /\ ToldOfCall(i)' = ToldOfCall(i) + 1
           /\ \A g \in Emitter \ {i} : emitting'[g] = emitting[g]
           /\ \A k \in Slot \ {i} : ToldOfCall(k)' = ToldOfCall(k)
           /\ Len(emitting'[i]) = Len(emitting[i]) - 1
           /\ \A j \in 1..Len(emitting'[i]) : emitting'[i][j] = emitting[i][j + 1]
<1> DEFINE q == emitting[i]
<1>1. /\ q # <<>> /\ WriteEvent(Head(q)) /\ emitting' = [emitting EXCEPT ![i] = Tail(q)]
      /\ UNCHANGED <<pc, answers, callPc>>
  BY DEF writeEvent
<1>2. /\ callPc[i] \in {"start", "end"} /\ pc = "calls" /\ q \in Seq(Event)
      /\ emitting'[i] = Tail(q)
  BY <1>1, Emitters DEF GoroutineInv, TypeOK
<1>3. /\ Len(q) \in Nat /\ Len(q) >= 1 /\ Len(q) <= 2
      /\ Head(q) = q[1] /\ Len(Tail(q)) = Len(q) - 1
      /\ \A j \in 1..(Len(q) - 1) : Tail(q)[j] = q[j + 1]
      /\ \A j \in 1..Len(q) : q[j] = Ev("call", round, i, ToldOfCall(i) + j)
  BY <1>1, <1>2, HeadTail DEF EmitterInv
<1>4. \A g \in Emitter \ {i} : emitting'[g] = emitting[g]
  BY <1>1, Emitters DEF TypeOK
<1>5. \A k \in Slot \ {i} : ToldOfCall(k)' = ToldOfCall(k)
  BY <1>1, <1>4, Emitters DEF ToldOfCall
<1>6. /\ ToldOfCall(i) = IF callPc[i] = "start" THEN 2 - Len(q) ELSE 4 - Len(q)
      /\ ToldOfCall(i)' = IF callPc[i] = "start" THEN 2 - Len(Tail(q)) ELSE 4 - Len(Tail(q))
  <2>1. callPc'[i] = callPc[i] /\ emitting'[i] = Tail(q) /\ callPc[i] \in {"start", "end"}
    BY <1>1, <1>2
  <2>2. ToldOfCall(i) = IF callPc[i] = "start" THEN 2 - Len(q) ELSE 4 - Len(q)
    BY <2>1 DEF ToldOfCall
  <2>3. ToldOfCall(i)' = IF callPc[i] = "start" THEN 2 - Len(Tail(q)) ELSE 4 - Len(Tail(q))
    BY <2>1 DEF ToldOfCall
  <2> QED
    BY <2>2, <2>3
<1> HIDE DEF q
<1>7. ToldOfCall(i)' = ToldOfCall(i) + 1 /\ ToldOfCall(i) \in IF callPc[i] = "start" THEN 0..1 ELSE 2..3
  BY <1>3, <1>6
<1>8. q[1] = Ev("call", round, i, ToldOfCall(i) + 1)
  BY <1>3
<1> QED
  BY <1>1, <1>2, <1>3, <1>4, <1>5, <1>7, <1>8 DEF q

\* A step of a call gives its emitter nothing to write, or two new events.
LEMMA CallEffect ==
    ASSUME TypeOK, GoroutineInv, NEW i \in Slot, CallStep(i)
    PROVE  /\ pc = "calls" /\ UNCHANGED <<pc, answers, stream, client>>
           /\ \A g \in Emitter \ {i} : emitting'[g] = emitting[g]
           /\ \A k \in Slot \ {i} : callPc'[k] = callPc[k]
           /\ \/ /\ callPc[i] = "queued" /\ callPc'[i] = "start" /\ emitting'[i] = StartEvents(i)
              \/ /\ callPc[i] = "start" /\ callPc'[i] = "end" /\ emitting'[i] = EndEvents(i)
                 /\ emitting[i] = <<>>
              \/ /\ callPc[i] = "end" /\ callPc'[i] = "done" /\ emitting'[i] = <<>>
                 /\ emitting[i] = <<>>
<1>1. i \in Emitter
  BY Emitters
<1>2. CASE StartCall(i)
  BY <1>1, <1>2 DEF StartCall, TypeOK
<1>3. CASE RunCall(i)
  BY <1>1, <1>3 DEF RunCall, TypeOK, GoroutineInv
<1>4. CASE EndCall(i)
  BY <1>1, <1>4 DEF EndCall, TypeOK, GoroutineInv
<1> QED
  BY <1>2, <1>3, <1>4 DEF CallStep

\* A step of a call tells the client nothing by itself.
LEMMA CallTold ==
    ASSUME TypeOK, GoroutineInv, NEW i \in Slot, CallStep(i)
    PROVE  \A k \in Slot : ToldOfCall(k)' = ToldOfCall(k)
<1>1. \A k \in Slot \ {i} : ToldOfCall(k)' = ToldOfCall(k)
  BY CallEffect, Emitters DEF ToldOfCall
<1>2. ToldOfCall(i)' = ToldOfCall(i)
  <2>1. Len(StartEvents(i)) = 2 /\ Len(EndEvents(i)) = 2 /\ Len(<<>>) = 0
    BY CallEventFacts
  <2>2. CASE callPc[i] = "queued" /\ callPc'[i] = "start" /\ emitting'[i] = StartEvents(i)
    BY <2>1, <2>2 DEF ToldOfCall
  <2>3. CASE callPc[i] = "start" /\ callPc'[i] = "end" /\ emitting'[i] = EndEvents(i) /\ emitting[i] = <<>>
    <3>1. ToldOfCall(i) = 2 - Len(<<>>)
      BY <2>3 DEF ToldOfCall
    <3>2. ToldOfCall(i)' = 4 - Len(EndEvents(i))
      BY <2>3 DEF ToldOfCall
    <3> QED
      BY <2>1, <3>1, <3>2
  <2>4. CASE callPc[i] = "end" /\ callPc'[i] = "done" /\ emitting'[i] = <<>> /\ emitting[i] = <<>>
    BY <2>1, <2>4 DEF ToldOfCall
  <2> QED
    BY <2>2, <2>3, <2>4, CallEffect
<1> QED
  BY <1>1, <1>2

\* Every other step leaves the emitters alone.
Aside ==
    \/ Opening \/ FailComplete \/ ReplyHandled \/ Execute \/ StoreResults \/ Record \/ Exhaust
    \/ runChat \/ StoreReply \/ Disconnect \/ Returned

LEMMA NextCases ==
    ASSUME Next
    PROVE  \/ Aside \/ Complete \/ \E g \in Emitter : writeEvent(g)
           \/ \E i \in Slot : CallStep(i)
  BY DEF Next, ServeHTTP, Aside, Opening

LEMMA AsideFrame ==
    ASSUME TypeOK, Aside
    PROVE  /\ UNCHANGED <<emitting, answers>>
           /\ pc' = "reply" => pc = "reply"
           /\ \A i \in Slot : callPc'[i] \in {"start", "end"} => callPc'[i] = callPc[i]
<1>1. CASE Opening
  BY <1>1, OpeningFrame DEF Early, Silent
<1>2. CASE FailComplete \/ ReplyHandled \/ StoreResults \/ Record \/ Exhaust
  BY <1>2 DEF FailComplete, ReplyHandled, StoreResults, Record, Exhaust, Fail, Leave
<1>3. CASE Execute
  BY <1>3 DEF Execute, Fail, Leave
<1>4. CASE runChat \/ StoreReply \/ Disconnect \/ Returned
  BY <1>4 DEF runChat, StoreReply, Disconnect, Returned, vars
<1> QED
  BY <1>1, <1>2, <1>3, <1>4 DEF Aside

\* The LLM's response is in the hands of its emitter.
LEMMA CompleteEffect ==
    ASSUME TypeOK, GoroutineInv, ControlInv, Complete
    PROVE  /\ pc = "llm" /\ pc' = "reply" /\ round' = round + 1 /\ round' \in 1..MaxToolCalls
           /\ UNCHANGED <<stream, client, callPc, err, recorded>>
           /\ reply' \in Replies
           /\ \A n \in 1..round : replies'[n] = replies[n]
           /\ emitting'[0] = MessageEvents(reply', round')
           /\ \A i \in Slot : emitting'[i] = emitting[i] /\ callPc[i] = "idle"
           /\ ToldOfReply' = 0
<1>1. /\ pc = "llm" /\ pc' = "reply" /\ round' = round + 1
      /\ UNCHANGED <<stream, client, callPc, err, recorded>>
  BY DEF Complete
<1>2. round' \in 1..MaxToolCalls
  BY <1>1, Constants DEF ControlInv, TypeOK
<1>3. reply' \in Replies /\ emitting' = [emitting EXCEPT ![0] = MessageEvents(reply', round + 1)]
  BY DEF Complete, Replies
<1>4. /\ emitting'[0] = MessageEvents(reply', round')
      /\ \A i \in Slot : emitting'[i] = emitting[i]
  BY <1>1, <1>3, Emitters DEF TypeOK
<1>5. \A i \in Slot : callPc[i] = "idle"
  BY <1>1 DEF GoroutineInv
<1>6. ToldOfReply' = 0
  <2>1. round' \in 0..MaxToolCalls
    BY <1>2, Constants
  <2>2. Len(emitting'[0]) = MessageLength(reply')
    BY <1>3, <1>4, <2>1, MessageFacts
  <2>3. ToldOfReply' = MessageLength(reply') - Len(emitting'[0])
    BY DEF ToldOfReply, MessageLength, ReasoningLength, TextLength
  <2> QED
    BY <2>2, <2>3, LengthFacts
<1>7. ASSUME NEW n \in 1..round PROVE replies'[n] = replies[n]
  <2>1. replies' = [replies EXCEPT ![round + 1] = reply'] /\ n # round + 1
    BY <1>1 DEF Complete, TypeOK
  <2> QED
    BY <1>1, <1>2, <2>1 DEF TypeOK
<1> QED
  BY <1>1, <1>2, <1>3, <1>4, <1>5, <1>6, <1>7

\* What was told is not taken back.
LEMMA ToldStays ==
    ASSUME NEW n, Told(n), replies'[n] = replies[n], wire \subseteq wire'
    PROVE  Told(n)'
<1>1. \A p : MessageEvent(replies[n], n, p)' = MessageEvent(replies[n], n, p)
  BY DEF MessageEvent, ReasoningLength
<1>2. MessageLength(replies[n])' = MessageLength(replies[n])
  BY DEF MessageLength, ReasoningLength, TextLength
<1> QED
  BY <1>1, <1>2 DEF Told

\* No round is over in the middle of a step that leaves it, and the stream, alone.
LEMMA RoundsStay ==
    ASSUME TypeOK, RoundsTold, UNCHANGED <<round, replies>>, wire \subseteq wire',
           RoundOver' => RoundOver
    PROVE  RoundsTold'
<1> SUFFICES ASSUME NEW n \in 1..round, n < round \/ RoundOver
             PROVE  Told(n)'
  BY DEF RoundsTold
<1>1. Told(n)
  BY DEF RoundsTold
<1> QED
  BY <1>1, ToldStays

LEMMA EmitterStep ==
    ASSUME TypeOK, GoroutineInv, ControlInv, EmitterInv, Next
    PROVE  EmitterInv'
<1>1. ASSUME Aside PROVE EmitterInv'
  <2>1. ToldOfReply' = ToldOfReply
    BY <1>1, AsideFrame DEF ToldOfReply
  <2>2. ASSUME NEW i \in Slot, callPc'[i] \in {"start", "end"} PROVE ToldOfCall(i)' = ToldOfCall(i)
    BY <1>1, <2>2, AsideFrame DEF ToldOfCall
  <2> QED
    BY <1>1, <2>1, <2>2, AsideFrame DEF EmitterInv
<1>2. ASSUME Complete PROVE EmitterInv'
  <2>1. round' \in 0..MaxToolCalls
    BY <1>2, CompleteEffect, Constants
  <2>2. /\ Len(emitting'[0]) = MessageLength(reply')
        /\ \A p \in 1..MessageLength(reply') : emitting'[0][p] = MessageEvent(reply', round', p)
    BY <1>2, <2>1, CompleteEffect, MessageFacts
  <2>3. \A j \in 1..Len(emitting'[0]) : emitting'[0][j] = MessageEvent(reply', round', ToldOfReply' + j)
    BY <1>2, <2>2, CompleteEffect, LengthFacts
  <2>4. MessageLength(reply') \in Nat
    BY LengthFacts
  <2> QED
    BY <1>2, <2>2, <2>3, <2>4, CompleteEffect DEF EmitterInv
<1>3. ASSUME writeEvent(0) PROVE EmitterInv'
  <2>1. /\ \A i \in Slot : emitting'[i] = emitting[i] /\ callPc'[i] = callPc[i]
        /\ UNCHANGED <<pc, answers>> /\ pc = "reply"
    BY <1>3, WriteReply
  <2>2. \A i \in Slot : ToldOfCall(i)' = ToldOfCall(i)
    BY <2>1 DEF ToldOfCall
  <2>3. Len(emitting[0]) \in Nat /\ ToldOfReply \in Nat
    BY <1>3, WriteReply, Emitters DEF TypeOK
  <2>4. /\ Len(emitting'[0]) <= MessageLength(reply)
        /\ \A j \in 1..Len(emitting'[0]) :
              emitting'[0][j] = MessageEvent(reply, round, ToldOfReply' + j)
    BY <1>3, <2>1, <2>3, WriteReply, LengthFacts DEF EmitterInv
  <2> QED
    BY <2>1, <2>2, <2>4 DEF EmitterInv
<1>4. ASSUME NEW i \in Slot, writeEvent(i) PROVE EmitterInv'
  <2>1. UNCHANGED <<pc, answers, callPc>> /\ pc = "calls"
    BY <1>4, WriteCall
  <2>2. \A k \in Slot \ {i} : emitting'[k] = emitting[k] /\ ToldOfCall(k)' = ToldOfCall(k)
    BY <1>4, WriteCall, Emitters
  <2>3. Len(emitting[i]) \in Nat /\ ToldOfCall(i) \in Nat
    <3>1. emitting[i] \in Seq(Event)
      BY Emitters DEF TypeOK
    <3>2. ToldOfCall(i) \in 0..1 \/ ToldOfCall(i) \in 2..3
      BY <1>4, WriteCall, Zenon
    <3> QED
      BY <3>1, <3>2
  <2>4. /\ Len(emitting'[i]) <= 2
        /\ \A j \in 1..Len(emitting'[i]) :
              emitting'[i][j] = Ev("call", round, i, ToldOfCall(i)' + j)
    <3>1. /\ Len(emitting[i]) <= 2
          /\ \A j \in 1..Len(emitting[i]) :
                emitting[i][j] = Ev("call", round, i, ToldOfCall(i) + j)
      BY <1>4, WriteCall DEF EmitterInv
    <3>2. Len(emitting'[i]) = Len(emitting[i]) - 1 /\ ToldOfCall(i)' = ToldOfCall(i) + 1
      BY <1>4, WriteCall
    <3>3. ASSUME NEW j \in 1..Len(emitting'[i])
          PROVE  emitting'[i][j] = Ev("call", round, i, ToldOfCall(i)' + j)
      <4>1. /\ j + 1 \in 1..Len(emitting[i])
            /\ ToldOfCall(i) + (j + 1) = ToldOfCall(i)' + j
        <5>1. j \in Nat /\ 1 <= j /\ j <= Len(emitting'[i])
          BY <2>3, <3>2
        <5> QED
          BY <2>3, <3>2, <5>1
      <4>2. emitting'[i][j] = emitting[i][j + 1]
        BY <1>4, WriteCall, Zenon
      <4>3. emitting[i][j + 1] = Ev("call", round, i, ToldOfCall(i) + (j + 1))
        BY <3>1, <4>1, Zenon
      <4> QED
        BY <4>1, <4>2, <4>3, Zenon
    <3> QED
      BY <2>3, <3>1, <3>2, <3>3
  <2> QED
    BY <2>1, <2>2, <2>4 DEF EmitterInv
<1>5. ASSUME NEW i \in Slot, CallStep(i) PROVE EmitterInv'
  <2>1. /\ UNCHANGED <<pc, answers>> /\ pc = "calls"
        /\ \A k \in Slot : ToldOfCall(k)' = ToldOfCall(k)
        /\ \A k \in Slot \ {i} : emitting'[k] = emitting[k] /\ callPc'[k] = callPc[k]
    BY <1>5, CallEffect, CallTold, Emitters
  <2>2. ASSUME callPc'[i] \in {"start", "end"}
        PROVE  /\ Len(emitting'[i]) <= 2
               /\ \A j \in 1..Len(emitting'[i]) :
                     emitting'[i][j] = Ev("call", round, i, ToldOfCall(i)' + j)
    <3>1. CASE callPc[i] = "queued" /\ callPc'[i] = "start" /\ emitting'[i] = StartEvents(i)
      <4>1. ToldOfCall(i)' = 0
        BY <2>1, <3>1 DEF ToldOfCall
      <4>2. Len(StartEvents(i)) = 2 /\ \A j \in 1..2 : StartEvents(i)[j] = Ev("call", round, i, 0 + j)
        BY CallEventFacts
      <4> QED
        BY <3>1, <4>1, <4>2
    <3>2. CASE callPc[i] = "start" /\ callPc'[i] = "end" /\ emitting'[i] = EndEvents(i) /\ emitting[i] = <<>>
      <4>1. ToldOfCall(i)' = 2
        BY <2>1, <3>2 DEF ToldOfCall
      <4>2. Len(EndEvents(i)) = 2 /\ \A j \in 1..2 : EndEvents(i)[j] = Ev("call", round, i, 2 + j)
        BY CallEventFacts
      <4> QED
        BY <3>2, <4>1, <4>2
    <3> QED
      BY <1>5, <2>2, <3>1, <3>2, CallEffect
  <2> QED
    BY <2>1, <2>2 DEF EmitterInv
<1> QED
  BY <1>1, <1>2, <1>3, <1>4, <1>5, NextCases, Emitters

----
\* The stream.

\* ServeHTTP before the LLM is called opens the stream, at most.
LEMMA OpeningTold ==
    ASSUME TypeOK, ControlInv, ClientTold, client = "there", Opening, pc' # "done"
    PROVE  ClientTold'
<1>1. /\ pc \in Early /\ pc' \in (Early \ {"parse"}) \cup {"llm", "finish"}
      /\ round = 0 /\ round' = 0
      /\ pc' = "finish" => err' = "other"
  BY OpeningFrame DEF ControlInv
<1>2. \/ wire' = wire /\ pc \in Silent /\ pc' \in Silent
      \/ wire' = wire /\ pc \notin Silent /\ pc' \notin Silent
      \/ pc \in Silent /\ wire' = wire \cup {Started} /\ pc' \notin Silent
  BY DEF Opening, parseRequest, Refuse, handleResume, EmptyRun, resolveForwardedProps, writeSSEError,
         streamChat, WriteEvent, Prepare, Ask, Fail, Leave, Silent, Started
<1>3. /\ pc' \in Silent => wire' = {}
      /\ pc' \notin Silent => Started \in wire'
      /\ WireForm'
  BY <1>1, <1>2 DEF ClientTold, WireForm, Started, RunEvent
<1>4. PastClosed' /\ RoundsTold'
  BY <1>1 DEF PastClosed, RoundsTold
<1>5. ReplyTold' /\ CallsTold'
  BY <1>1 DEF ReplyTold, CallsTold, Early, Silent
<1> QED
  BY <1>3, <1>4, <1>5 DEF ClientTold

\* A new round begins: the client knows nothing of it, and all of the last one.
LEMMA CompleteTold ==
    ASSUME TypeOK, GoroutineInv, ControlInv, ClientTold, Complete
    PROVE  ClientTold'
<1>1. /\ pc = "llm" /\ pc' = "reply" /\ round' = round + 1 /\ wire' = wire
      /\ round \in Nat /\ ToldOfReply' = 0
  BY CompleteEffect, Constants DEF TypeOK
<1>2. \A u, i, s : u # "run" => Ev(u, round', i, s) \notin wire
  <2> SUFFICES ASSUME NEW u, NEW i, NEW s, u # "run", Ev(u, round', i, s) \in wire
               PROVE  FALSE
    OBVIOUS
  <2>1. Ev(u, round', i, s) # Started
    BY EvFacts DEF Started
  <2>2. PICK n \in 1..round : \E v, j, t : Ev(u, round', i, s) = Ev(v, n, j, t)
    BY <2>1 DEF ClientTold, WireForm
  <2>3. round' = n
    BY <2>2, EvFacts
  <2> QED
    BY <1>1, <2>3
<1>3. 1..round' = 1..round \cup {round'}
  BY <1>1
<1>4. Started \in wire'
  BY <1>1 DEF ClientTold, Silent
<1>5. WireForm'
  BY <1>1, <1>3 DEF ClientTold, WireForm
<1>6. PastClosed'
  <2>1. ASSUME NEW n \in 1..round', n < round'
        PROVE  /\ \A s \in 1..4 : Ev("reasoning", n, 0, s) \in wire' => Ev("reasoning", n, 0, s + 1) \in wire'
               /\ \A s \in 1..2 : Ev("text", n, 0, s) \in wire' => Ev("text", n, 0, s + 1) \in wire'
               /\ \A i \in Slot, s \in 1..3 : Ev("call", n, i, s) \in wire' => Ev("call", n, i, s + 1) \in wire'
    BY <1>1, <2>1 DEF ClientTold, PastClosed
  <2>2. \A i, s : Ev("call", round', i, s) \notin wire'
    BY <1>1, <1>2
  <2>3. ASSUME NEW n \in 1..round' PROVE n < round' \/ n = round'
    BY <1>1
  <2> QED
    BY <1>1, <2>1, <2>2, <2>3 DEF PastClosed
<1>7. ReplyTold'
  <2>1. \A s : Ev("reasoning", round', 0, s) \notin wire' /\ Ev("text", round', 0, s) \notin wire'
    BY <1>1, <1>2
  <2>2. \A s \in 1..5 : ~(s <= ToldOfReply')
    BY <1>1
  <2>3. ReasoningLength(reply') \in {0, 5} /\ \A s \in 1..3 : ~(ReasoningLength(reply') + s <= ToldOfReply')
    BY <1>1, LengthFacts
  <2> QED
    BY <1>1, <2>1, <2>2, <2>3 DEF ReplyTold
<1>8. CallsTold'
  BY <1>1, <1>2 DEF CallsTold
<1>9. RoundsTold'
  <2> SUFFICES ASSUME NEW n \in 1..round', n < round' \/ RoundOver'
               PROVE  Told(n)'
    BY DEF RoundsTold
  <2>1. n \in 1..round
    BY <1>1 DEF RoundOver
  <2>2. Told(n)
    BY <1>1, <2>1 DEF ClientTold, RoundsTold, RoundOver
  <2>3. replies'[n] = replies[n]
    BY <2>1, CompleteEffect
  <2> QED
    BY <1>1, <2>2, <2>3, ToldStays
<1> QED
  BY <1>1, <1>4, <1>5, <1>6, <1>7, <1>8, <1>9 DEF ClientTold, Silent

\* One event more on the stream.
LEMMA OneMore ==
    ASSUME NEW e, client = "there", WriteEvent(e)
    PROVE  wire' = wire \cup {e}
  BY DEF WriteEvent

\* An event of the response is written.
LEMMA WriteReplyTold ==
    ASSUME TypeOK, GoroutineInv, ControlInv, EmitterInv, ClientTold, client = "there", writeEvent(0)
    PROVE  ClientTold'
<1> DEFINE T == ToldOfReply
           R == ReasoningLength(reply)
           L == TextLength(reply)
           e == MessageEvent(reply, round, T + 1)
<1>1. /\ pc = "reply" /\ UNCHANGED <<pc, answers, callPc>>
      /\ T \in Nat /\ T < R + L /\ ToldOfReply' = T + 1
      /\ wire' = wire \cup {e} /\ round \in Nat /\ round >= 1
      /\ R \in {0, 5} /\ L \in {0, 3}
  BY WriteReply, OneMore, LengthFacts, Constants DEF TypeOK, ControlInv
<1>2. /\ T + 1 <= R => e = Ev("reasoning", round, 0, T + 1)
      /\ ~(T + 1 <= R) => e = Ev("text", round, 0, T + 1 - R)
  BY <1>1 DEF MessageEvent, T, R, e
<1>3. /\ ReasoningLength(reply)' = R /\ TextLength(reply)' = L
      /\ MessageLength(reply)' = MessageLength(reply)
  BY <1>1 DEF ReasoningLength, TextLength, MessageLength
<1> HIDE DEF T, R, L, e
<1>4. \A u, n, i, s : Ev(u, n, i, s) \in wire' <=> Ev(u, n, i, s) \in wire \/ Ev(u, n, i, s) = e
  BY <1>1
<1>5. \A u, n, i, s : n # round \/ u = "call" => (Ev(u, n, i, s) \in wire' <=> Ev(u, n, i, s) \in wire)
  BY <1>2, <1>4, EvFacts
<1>6. \A s \in 1..5 : Ev("reasoning", round, 0, s) = e <=> T + 1 <= R /\ s = T + 1
  BY <1>2, EvFacts
<1>7. \A s \in 1..3 : Ev("text", round, 0, s) = e <=> ~(T + 1 <= R) /\ s = T + 1 - R
  BY <1>2, EvFacts
<1>8. Started \in wire'
  BY <1>1 DEF ClientTold, Silent
<1>9. WireForm'
  <2>1. \/ \E s \in 1..5 : e = Ev("reasoning", round, 0, s)
        \/ \E s \in 1..3 : e = Ev("text", round, 0, s)
    <3>1. CASE T + 1 <= R
      <4>1. T + 1 \in 1..5
        BY <1>1, <3>1
      <4> QED
        BY <1>2, <3>1, <4>1
    <3>2. CASE ~(T + 1 <= R)
      <4>1. T + 1 - R \in 1..3
        BY <1>1, <3>2
      <4> QED
        BY <1>2, <3>2, <4>1
    <3> QED
      BY <3>1, <3>2
  <2>2. round \in 1..round
    BY <1>1
  <2> QED
    BY <1>1, <2>1, <2>2 DEF ClientTold, WireForm
<1>10. PastClosed'
  BY <1>1, <1>5 DEF ClientTold, PastClosed
<1>11. ReplyTold'
  <2>1. ASSUME NEW s \in 1..5
        PROVE  Ev("reasoning", round, 0, s) \in wire' <=> s <= R /\ s <= T + 1
    <3>1. Ev("reasoning", round, 0, s) \in wire <=> s <= R /\ s <= T
      BY <1>1 DEF ClientTold, ReplyTold, T, R
    <3> QED
      BY <1>1, <1>4, <1>6, <3>1
  <2>2. ASSUME NEW s \in 1..3
        PROVE  Ev("text", round, 0, s) \in wire' <=> s <= L /\ R + s <= T + 1
    <3>1. Ev("text", round, 0, s) \in wire <=> s <= L /\ R + s <= T
      BY <1>1 DEF ClientTold, ReplyTold, T, R, L
    <3>2. Ev("text", round, 0, s) = e <=> R + s = T + 1
      BY <1>1, <1>7
    <3> QED
      BY <1>1, <1>4, <3>1, <3>2
  <2> QED
    BY <1>1, <1>3, <2>1, <2>2 DEF ReplyTold
<1>12. CallsTold'
  BY <1>1, <1>5 DEF ClientTold, CallsTold
<1>13. RoundsTold'
  BY <1>1, RoundsStay DEF ClientTold, RoundOver
<1> QED
  BY <1>1, <1>8, <1>9, <1>10, <1>11, <1>12, <1>13 DEF ClientTold, Silent

\* An event of a call is written.
LEMMA WriteCallTold ==
    ASSUME TypeOK, GoroutineInv, ControlInv, EmitterInv, ClientTold, client = "there",
           NEW i \in Slot, writeEvent(i)
    PROVE  ClientTold'
<1> DEFINE T == ToldOfCall(i)
           e == Ev("call", round, i, T + 1)
<1>1. /\ pc = "calls" /\ UNCHANGED <<pc, answers, callPc>>
      /\ T \in 0..3 /\ ToldOfCall(i)' = T + 1
      /\ \A k \in Slot \ {i} : ToldOfCall(k)' = ToldOfCall(k)
      /\ wire' = wire \cup {e} /\ round \in Nat /\ round >= 1
  BY WriteCall, OneMore, Constants DEF TypeOK, ControlInv
<1>2. \A u, n, j, s : Ev(u, n, j, s) = e <=> u = "call" /\ n = round /\ j = i /\ s = T + 1
  BY EvFacts
<1> HIDE DEF T, e
<1>3. \A u, n, j, s : Ev(u, n, j, s) \in wire' <=> Ev(u, n, j, s) \in wire \/ Ev(u, n, j, s) = e
  BY <1>1
<1>4. \A u, n, j, s : n # round \/ u # "call" => (Ev(u, n, j, s) \in wire' <=> Ev(u, n, j, s) \in wire)
  BY <1>2, <1>3
<1>5. Started \in wire'
  BY <1>1 DEF ClientTold, Silent
<1>6. WireForm'
  <2>1. round \in 1..round /\ T + 1 \in 1..4
    BY <1>1
  <2>2. e = Ev("call", round, i, T + 1)
    BY DEF e
  <2> QED
    BY <1>1, <2>1, <2>2 DEF ClientTold, WireForm
<1>7. PastClosed'
  <2>1. ASSUME NEW n \in 1..round, n < round PROVE n # round
    BY <1>1, <2>1
  <2> QED
    BY <1>1, <1>4, <2>1 DEF ClientTold, PastClosed
<1>8. ReplyTold'
  <2>1. \A p \in 1..MessageLength(reply) : MessageEvent(reply, round, p) \in wire
    BY <1>1 DEF ClientTold, ReplyTold
  <2>2. /\ MessageLength(reply)' = MessageLength(reply)
        /\ \A p : MessageEvent(reply, round, p)' = MessageEvent(reply, round, p)
    BY <1>1 DEF MessageLength, MessageEvent, ReasoningLength, TextLength
  <2> QED
    BY <1>1, <2>1, <2>2 DEF ReplyTold
<1>9. CallsTold'
  <2>1. ASSUME NEW k \in Slot, NEW s \in 1..4
        PROVE  Ev("call", round, k, s) \in wire' <=> s <= ToldOfCall(k)'
    <3>1. Ev("call", round, k, s) \in wire <=> s <= ToldOfCall(k)
      BY <1>1 DEF ClientTold, CallsTold
    <3>2. CASE k = i
      <4>1. ToldOfCall(k) = T /\ ToldOfCall(k)' = T + 1
        BY <1>1, <3>2 DEF T
      <4> QED
        BY <1>1, <1>2, <1>3, <3>1, <3>2, <4>1
    <3>3. CASE k # i
      BY <1>1, <1>2, <1>3, <3>1, <3>3
    <3> QED
      BY <3>2, <3>3
  <2> QED
    BY <1>1, <2>1 DEF CallsTold
<1>10. RoundsTold'
  BY <1>1, RoundsStay DEF ClientTold, RoundOver
<1> QED
  BY <1>1, <1>5, <1>6, <1>7, <1>8, <1>9, <1>10 DEF ClientTold, Silent

\* The whole response has been told when its emitter is done.
LEMMA ReplyComplete ==
    ASSUME TypeOK, ClientTold, pc = "reply", emitting[0] = <<>>
    PROVE  /\ \A p \in 1..MessageLength(reply) : MessageEvent(reply, round, p) \in wire
           /\ \A s \in 1..4 : Ev("reasoning", round, 0, s) \in wire => Ev("reasoning", round, 0, s + 1) \in wire
           /\ \A s \in 1..2 : Ev("text", round, 0, s) \in wire => Ev("text", round, 0, s + 1) \in wire
<1> DEFINE R == ReasoningLength(reply)
           L == TextLength(reply)
<1>1. R \in {0, 5} /\ L \in {0, 3} /\ MessageLength(reply) = R + L /\ ToldOfReply = R + L
  <2>1. Len(<<>>) = 0
    OBVIOUS
  <2>2. ToldOfReply = MessageLength(reply) - 0
    BY <2>1 DEF ToldOfReply
  <2> QED
    BY <2>2, LengthFacts
<1>2. /\ \A s \in 1..5 : Ev("reasoning", round, 0, s) \in wire <=> s <= R /\ s <= ToldOfReply
      /\ \A s \in 1..3 : Ev("text", round, 0, s) \in wire <=> s <= L /\ R + s <= ToldOfReply
  BY DEF ClientTold, ReplyTold
<1>3. \A p : MessageEvent(reply, round, p)
               = IF p <= R THEN Ev("reasoning", round, 0, p) ELSE Ev("text", round, 0, p - R)
  BY DEF MessageEvent
<1> HIDE DEF R, L
<1>4. ASSUME NEW s \in 1..5 PROVE Ev("reasoning", round, 0, s) \in wire <=> R = 5
  BY <1>1, <1>2
<1>5. ASSUME NEW s \in 1..3 PROVE Ev("text", round, 0, s) \in wire <=> L = 3
  BY <1>1, <1>2
<1>6. ASSUME NEW p \in 1..(R + L) PROVE MessageEvent(reply, round, p) \in wire
  <2>1. CASE p <= R
    <3>1. p \in 1..5 /\ R = 5
      BY <1>1, <2>1
    <3> QED
      BY <1>3, <1>4, <2>1, <3>1
  <2>2. CASE ~(p <= R)
    <3>1. p - R \in 1..3 /\ L = 3
      BY <1>1, <2>2
    <3> QED
      BY <1>3, <1>5, <2>2, <3>1
  <2> QED
    BY <2>1, <2>2
<1>7. /\ \A s \in 1..4 : s \in 1..5 /\ s + 1 \in 1..5
      /\ \A s \in 1..2 : s \in 1..3 /\ s + 1 \in 1..3
  OBVIOUS
<1> QED
  BY <1>1, <1>4, <1>5, <1>6, <1>7

\* All calls of the batch have been told of when each of them is done.
LEMMA CallsComplete ==
    ASSUME TypeOK, GoroutineInv, ControlInv, ClientTold, pc = "calls",
           \A i \in Batch : callPc[i] = "done"
    PROVE  /\ \A i \in Slot, s \in 1..3 :
                 Ev("call", round, i, s) \in wire => Ev("call", round, i, s + 1) \in wire
           /\ \A i \in Batch : Ev("call", round, i, 4) \in wire
<1>1. \A i \in Slot, s \in 1..4 : Ev("call", round, i, s) \in wire <=> s <= ToldOfCall(i)
  BY DEF ClientTold, CallsTold
<1>2. ASSUME NEW i \in Slot PROVE ToldOfCall(i) = IF i \in Batch THEN 4 ELSE 0
  BY DEF GoroutineInv, ToldOfCall
<1>3. ASSUME NEW i \in Slot, NEW s \in 1..4 PROVE Ev("call", round, i, s) \in wire <=> i \in Batch
  <2>1. ToldOfCall(i) \in {0, 4} /\ (ToldOfCall(i) = 4 <=> i \in Batch)
    BY <1>2
  <2>2. Ev("call", round, i, s) \in wire <=> s <= ToldOfCall(i)
    BY <1>1
  <2> HIDE DEF Batch
  <2> QED
    BY <2>1, <2>2
<1>4. Batch \subseteq Slot /\ 4 \in 1..4
  BY Constants DEF TypeOK, Replies, Batch, Slot
<1>5. \A s \in 1..3 : s \in 1..4 /\ s + 1 \in 1..4
  OBVIOUS
<1> QED
  BY <1>3, <1>4, <1>5

\* A step that writes nothing: what it ends has been told in full.
LEMMA AsideTold ==
    ASSUME TypeOK, GoroutineInv, ControlInv, ClientTold,
           FailComplete \/ ReplyHandled \/ Execute \/ StoreResults \/ Record \/ Exhaust
    PROVE  ClientTold'
<1>1. UNCHANGED <<wire, answers, emitting>>
  BY DEF FailComplete, ReplyHandled, Execute, StoreResults, Record, Exhaust, Fail, Leave
<1>2. /\ ToldOfReply' = ToldOfReply
      /\ ReasoningLength(reply)' = ReasoningLength(reply) /\ TextLength(reply)' = TextLength(reply)
      /\ MessageLength(reply)' = MessageLength(reply)
  BY <1>1 DEF ToldOfReply, ReasoningLength, TextLength, MessageLength
<1>3. pc \notin Silent /\ pc' \notin Silent /\ round >= 0
  BY Constants
     DEF FailComplete, ReplyHandled, Execute, StoreResults, Record, Exhaust, Fail, Leave, Silent, TypeOK
<1>4. Started \in wire' /\ WireForm'
  BY <1>1, <1>3 DEF ClientTold, WireForm
<1>5. SUFFICES PastClosed' /\ ReplyTold' /\ CallsTold' /\ RoundsTold'
  BY <1>3, <1>4 DEF ClientTold
<1>0. (RoundOver' => RoundOver) => RoundsTold'
  BY <1>1, RoundsStay DEF ClientTold
<1>6. CASE FailComplete
  <2>1. pc = "llm" /\ pc' = "finish" /\ err' = "other"
    BY <1>6 DEF FailComplete, Fail, Leave
  <2> QED
    BY <1>0, <1>1, <2>1 DEF ClientTold, PastClosed, ReplyTold, CallsTold, RoundOver
<1>7. CASE ReplyHandled
  <2>1. /\ pc = "reply" /\ emitting[0] = <<>>
        /\ \/ pc' = "finish" /\ err' = "other" /\ recorded' = "none"
           \/ pc' \in {"record", "execute"} /\ err' = err
    BY <1>7 DEF ReplyHandled, Leave, ControlInv
  <2>2. /\ \A p \in 1..MessageLength(reply) : MessageEvent(reply, round, p) \in wire
        /\ \A s \in 1..4 : Ev("reasoning", round, 0, s) \in wire => Ev("reasoning", round, 0, s + 1) \in wire
        /\ \A s \in 1..2 : Ev("text", round, 0, s) \in wire => Ev("text", round, 0, s + 1) \in wire
    BY <2>1, ReplyComplete
  <2>3. PastClosed'
    <3>1. ASSUME NEW n \in 1..round PROVE n = round \/ n < round
      BY <1>3 DEF TypeOK
    <3> QED
      BY <1>1, <2>1, <2>2, <3>1 DEF ClientTold, PastClosed
  <2>4. ReplyTold'
    <3>1. \A p \in 1..MessageLength(reply) : MessageEvent(reply, round, p)' = MessageEvent(reply, round, p)
      BY <1>1, <1>2 DEF MessageEvent
    <3> QED
      BY <1>1, <1>2, <2>1, <2>2, <3>1 DEF ReplyTold
  <2>5. CallsTold' /\ RoundsTold'
    BY <1>0, <1>1, <2>1 DEF ClientTold, CallsTold, RoundOver
  <2> QED
    BY <2>3, <2>4, <2>5
<1>8. CASE Execute
  <2>1. /\ pc = "execute"
        /\ \/ pc' = "calls" /\ callPc' = [i \in Slot |-> IF i \in Batch THEN "queued" ELSE "idle"]
           \/ pc' = "finish" /\ err' = "other" /\ recorded' = "none"
    BY <1>8 DEF Execute, Fail, Leave, ControlInv
  <2>2. PastClosed' /\ RoundsTold'
    BY <1>0, <1>1, <2>1 DEF ClientTold, PastClosed, RoundOver
  <2>4. ReplyTold'
    <3>1. \A p \in 1..MessageLength(reply) : MessageEvent(reply, round, p)' = MessageEvent(reply, round, p)
      BY <1>1, <1>2 DEF MessageEvent
    <3> QED
      BY <1>1, <1>2, <2>1, <3>1 DEF ClientTold, ReplyTold
  <2>3. CallsTold'
    <3>1. \A i \in Slot, s \in 1..4 : Ev("call", round, i, s) \notin wire
      BY <2>1 DEF ClientTold, CallsTold
    <3>2. CASE pc' = "calls"
      <4>1. \A i \in Slot : ToldOfCall(i)' = 0
        BY <2>1, <3>2 DEF ToldOfCall
      <4>2. \A s \in 1..4 : ~(s <= 0)
        OBVIOUS
      <4> QED
        BY <1>1, <3>1, <3>2, <4>1, <4>2 DEF CallsTold
    <3>3. CASE pc' = "finish"
      BY <3>3 DEF CallsTold
    <3> QED
      BY <2>1, <3>2, <3>3
  <2> QED
    BY <2>2, <2>3, <2>4
<1>9. CASE StoreResults
  <2>1. /\ pc = "calls" /\ \A i \in Batch : callPc[i] = "done"
        /\ \/ pc' \in {"llm", "exhaust"} /\ err' = err
           \/ pc' = "finish" /\ err' = "other" /\ recorded' = "none"
    BY <1>9 DEF StoreResults, Fail, Leave, ControlInv
  <2>2. /\ \A i \in Slot, s \in 1..3 :
              Ev("call", round, i, s) \in wire => Ev("call", round, i, s + 1) \in wire
        /\ \A i \in Batch : Ev("call", round, i, 4) \in wire
    BY <2>1, CallsComplete
  <2>3. ASSUME NEW n \in 1..round PROVE n = round \/ n < round
    BY <1>3 DEF TypeOK
  <2>4. PastClosed'
    BY <1>1, <2>1, <2>2, <2>3 DEF ClientTold, PastClosed
  <2>5. ReplyTold' /\ CallsTold'
    BY <2>1 DEF ReplyTold, CallsTold
  <2>6. RoundsTold'
    <3>1. Told(round)
      BY <2>1, <2>2 DEF ClientTold, ReplyTold, ControlInv, Told, Batch
    <3>2. ASSUME NEW n \in 1..round PROVE Told(n)
      BY <2>3, <3>1, <3>2 DEF ClientTold, RoundsTold
    <3> QED
      BY <1>1, <3>2, ToldStays DEF RoundsTold
  <2> QED
    BY <2>4, <2>5, <2>6
<1>10. CASE Record
  <2>1. pc = "record" /\ pc' = "finish"
    BY <1>10 DEF Record, Fail, Leave
  <2>2. RoundsTold'
    <3>1. Told(round)
      <4>1. replies[round] = reply /\ reply.calls = 0
        BY <2>1 DEF ControlInv
      <4>2. \A p \in 1..MessageLength(reply) : MessageEvent(reply, round, p) \in wire
        BY <2>1 DEF ClientTold, ReplyTold
      <4> QED
        BY <4>1, <4>2 DEF Told
    <3>2. ASSUME NEW n \in 1..round PROVE Told(n)
      <4>1. n = round \/ n < round
        BY <1>3 DEF TypeOK
      <4> QED
        BY <3>1, <4>1 DEF ClientTold, RoundsTold
    <3> QED
      BY <1>1, <3>2, ToldStays DEF RoundsTold
  <2> QED
    BY <1>1, <2>1, <2>2 DEF ClientTold, PastClosed, ReplyTold, CallsTold
<1>11. CASE Exhaust
  <2>1. pc = "exhaust" /\ pc' = "finish" /\ err' = "max"
    BY <1>11 DEF Exhaust, Leave
  <2> QED
    BY <1>0, <1>1, <2>1 DEF ClientTold, PastClosed, ReplyTold, CallsTold, RoundOver
<1> QED
  BY <1>6, <1>7, <1>8, <1>9, <1>10, <1>11

\* Steps of the store and of the calls leave stream and control alone.
LEMMA BehindTold ==
    ASSUME TypeOK, GoroutineInv, ClientTold, StoreReply \/ \E i \in Slot : CallStep(i)
    PROVE  ClientTold'
<1>1. /\ UNCHANGED <<wire, pc, answers, recorded, err>>
      /\ pc \in {"reply", "calls"}
      /\ pc = "reply" => emitting'[0] = emitting[0]
      /\ pc = "calls" => \A k \in Slot : ToldOfCall(k)' = ToldOfCall(k)
  <2>1. CASE StoreReply
    <3>1. pc = "reply" /\ UNCHANGED <<wire, pc, answers, recorded, err, emitting>>
      BY <2>1 DEF StoreReply, GoroutineInv
    <3> QED
      BY <3>1
  <2>2. ASSUME NEW i \in Slot, CallStep(i)
        PROVE  /\ UNCHANGED <<wire, pc, answers, recorded, err>> /\ pc = "calls"
               /\ \A k \in Slot : ToldOfCall(k)' = ToldOfCall(k)
    <3>1. err' = err /\ recorded' = recorded
      BY <2>2 DEF CallStep, StartCall, RunCall, EndCall
    <3> QED
      BY <2>2, <3>1, CallEffect, CallTold
  <2> QED
    BY <2>1, <2>2
<1>2. WireForm' /\ PastClosed'
  BY <1>1 DEF ClientTold, WireForm, PastClosed
<1>5. RoundsTold'
  BY <1>1, RoundsStay DEF ClientTold, RoundOver
<1>3. ReplyTold'
  <2>1. CASE pc = "reply"
    <3>1. /\ ToldOfReply' = ToldOfReply
          /\ ReasoningLength(reply)' = ReasoningLength(reply) /\ TextLength(reply)' = TextLength(reply)
      BY <1>1, <2>1 DEF ToldOfReply, ReasoningLength, TextLength, MessageLength
    <3> QED
      BY <1>1, <2>1, <3>1 DEF ClientTold, ReplyTold
  <2>2. CASE pc = "calls"
    <3>1. /\ MessageLength(reply)' = MessageLength(reply)
          /\ \A p : MessageEvent(reply, round, p)' = MessageEvent(reply, round, p)
      BY <1>1 DEF MessageLength, MessageEvent, ReasoningLength, TextLength
    <3> QED
      BY <1>1, <2>2, <3>1 DEF ClientTold, ReplyTold
  <2> QED
    BY <1>1, <2>1, <2>2
<1>4. CallsTold'
  BY <1>1 DEF ClientTold, CallsTold
<1> QED
  BY <1>1, <1>2, <1>3, <1>4, <1>5 DEF ClientTold

\* A client that has gone does not come back.
LEMMA ClientStays ==
    ASSUME TypeOK, Next, client' = "there"
    PROVE  client = "there" /\ ~Disconnect
  BY DEF TypeOK, Next, ServeHTTP, parseRequest, handleResume, EmptyRun, resolveForwardedProps,
         streamChat, Prepare, Ask, Complete, FailComplete, ReplyHandled, Execute, StoreResults, Record,
         Exhaust, runChat, StoreReply, Disconnect, writeEvent, CallStep, StartCall, RunCall, EndCall,
         Returned, vars

\* The handler that has returned does not come back either.
LEMMA DoneStays ==
    ASSUME TypeOK, GoroutineInv, Next, pc = "done"
    PROVE  UNCHANGED <<pc, status, stream, answers, recorded>>
<1>1. (\A g \in Emitter : emitting[g] = <<>>) /\ storing # "busy"
  BY QuietInv DEF NothingAfterReturn
<1>2. ~StoreReply /\ ~Complete /\ (\A g \in Emitter : ~writeEvent(g)) /\ (\A i \in Slot : ~CallStep(i))
  BY <1>1, CallEffect DEF StoreReply, Complete, writeEvent
<1>3. Disconnect \/ Returned
  BY <1>2, NextCases, OpeningFrame
     DEF Aside, Early, Silent, FailComplete, ReplyHandled, Execute, StoreResults, Record, Exhaust, runChat
<1> QED
  BY <1>3 DEF Disconnect, Returned, vars

LEMMA WireStep ==
    ASSUME TypeOK, GoroutineInv, ControlInv, EmitterInv, WireInv, Next
    PROVE  WireInv'
<1> SUFFICES ASSUME client' = "there", pc' # "done"
             PROVE  ClientTold'
  BY DEF WireInv
<1>1. client = "there" /\ pc # "done" /\ ~Disconnect
  BY ClientStays, DoneStays
<1>2. ClientTold
  BY <1>1 DEF WireInv
<1>3. ~runChat /\ ~Returned
  BY <1>1 DEF runChat, Returned
<1>4. CASE Aside
  BY <1>1, <1>2, <1>3, <1>4, OpeningTold, AsideTold, BehindTold DEF Aside
<1>5. CASE Complete
  BY <1>2, <1>5, CompleteTold
<1>6. ASSUME NEW g \in Emitter, writeEvent(g) PROVE ClientTold'
  BY <1>1, <1>2, <1>6, WriteReplyTold, WriteCallTold, Emitters
<1>7. CASE \E i \in Slot : CallStep(i)
  BY <1>2, <1>7, BehindTold
<1> QED
  BY <1>4, <1>5, <1>6, <1>7, NextCases

----
\* What the client is told at the end.

\* Nothing is taken back from the stream, and what a step adds is one event.
LEMMA StreamGrows ==
    ASSUME TypeOK, GoroutineInv, EmitterInv, Next
    PROVE  /\ wire \subseteq wire'
           /\ status' \in {status, 400}
           /\ \/ wire' \cap Terminals = wire \cap Terminals
              \/ client = "there" /\ EmptyRun /\ pc = "emptyEnd" /\ wire' = wire \cup {RunEvent("finished")}
              \/ client = "there" /\ resolveForwardedProps /\ wire' = wire \cup {RunEvent("error")}
              \/ client = "there" /\ runChat /\ wire' = wire \cup {Terminal}
<1>1. \A name : RunEvent(name) \in Terminals <=> name \in {"finished", "interrupt", "error"}
  BY EvFacts DEF Terminals
<1>2. ASSUME NEW e, WriteEvent(e), e \notin Terminals
      PROVE  wire \subseteq wire' /\ wire' \cap Terminals = wire \cap Terminals
  BY <1>2 DEF WriteEvent
<1>3. CASE Opening
  <2>1. status' \in {status, 400}
    BY <1>3, OpeningFrame
  <2>2. CASE EmptyRun
    <3>1. CASE pc = "emptyEnd"
      BY <2>1, <2>2, <3>1 DEF EmptyRun, WriteEvent
    <3>2. CASE pc # "emptyEnd"
      BY <1>1, <1>2, <2>1, <2>2, <3>2 DEF EmptyRun
    <3> QED
      BY <3>1, <3>2
  <2>3. CASE resolveForwardedProps
    BY <2>1, <2>3 DEF resolveForwardedProps, writeSSEError, WriteEvent
  <2>4. CASE streamChat
    BY <1>1, <1>2, <2>1, <2>4 DEF streamChat
  <2>5. CASE parseRequest \/ handleResume \/ Prepare \/ Ask
    BY <2>1, <2>5 DEF parseRequest, handleResume, Prepare, Ask
  <2> QED
    BY <1>3, <2>2, <2>3, <2>4, <2>5 DEF Opening
<1>4. CASE runChat
  BY <1>4 DEF runChat, WriteEvent
<1>5. CASE writeEvent(0)
  <2>1. \A r, n, p : MessageEvent(r, n, p) \notin Terminals
    BY EvFacts DEF MessageEvent, Terminals
  <2> QED
    BY <1>2, <1>5, <2>1, WriteReply DEF writeEvent
<1>6. ASSUME NEW i \in Slot, writeEvent(i)
      PROVE  wire \subseteq wire' /\ status' = status /\ wire' \cap Terminals = wire \cap Terminals
  <2>1. Ev("call", round, i, ToldOfCall(i) + 1) \notin Terminals
    BY EvFacts DEF Terminals
  <2> QED
    BY <1>2, <1>6, <2>1, WriteCall DEF writeEvent
<1>7. CASE \/ FailComplete \/ ReplyHandled \/ Execute \/ StoreResults \/ Record \/ Exhaust
           \/ StoreReply \/ Disconnect \/ Returned \/ Complete \/ \E i \in Slot : CallStep(i)
  BY <1>7
     DEF FailComplete, ReplyHandled, Execute, StoreResults, Record, Exhaust, StoreReply, Disconnect,
         Returned, vars, Complete, CallStep, StartCall, RunCall, EndCall
<1> QED
  BY <1>3, <1>4, <1>5, <1>6, <1>7, NextCases, Emitters DEF Aside

LEMMA TerminalStep ==
    ASSUME TypeOK, GoroutineInv, EmitterInv, TerminalInv, Next
    PROVE  TerminalInv'
<1>1. CASE pc = "done"
  BY <1>1, DoneStays DEF TerminalInv
<1>2. CASE pc # "done"
  <2>1. wire \cap Terminals = {}
    BY <1>2 DEF TerminalInv
  <2>2. client = "there" /\ EmptyRun /\ pc = "emptyEnd" => pc' = "done"
    BY DEF EmptyRun
  <2>3. runChat => pc' = "done"
    BY DEF runChat
  <2>4. client = "there" /\ resolveForwardedProps /\ wire' = wire \cup {RunEvent("error")} /\ pc' # "done"
           => wire' = wire
    BY DEF resolveForwardedProps, writeSSEError
  <2> QED
    BY <2>1, <2>2, <2>3, <2>4, StreamGrows DEF TerminalInv
<1> QED
  BY <1>1, <1>2

\* ServeHTTP returns after a refusal, a terminal event, or because the client has gone.
LEMMA EndStep ==
    ASSUME TypeOK, GoroutineInv, EmitterInv, ConnectedGetsEnd, Next
    PROVE  ConnectedGetsEnd'
<1> SUFFICES ASSUME pc' = "done", client' = "there"
             PROVE  \/ status' = 400
                    \/ \E name \in {"finished", "interrupt", "error"} : RunEvent(name) \in wire'
  BY DEF ConnectedGetsEnd, RunEvent
<1>1. client = "there"
  BY ClientStays
<1>2. CASE pc = "done"
  BY <1>1, <1>2, DoneStays DEF ConnectedGetsEnd
<1>3. CASE pc # "done" /\ Opening
  <2>1. CASE parseRequest \/ handleResume
    BY <1>3, <2>1 DEF parseRequest, handleResume, Refuse
  <2>2. CASE EmptyRun
    <3>1. pc = "emptyEnd" /\ WriteEvent(RunEvent("finished"))
      BY <2>2 DEF EmptyRun
    <3> QED
      BY <1>1, <3>1, OneMore
  <2>3. CASE resolveForwardedProps
    <3>1. WriteEvent(RunEvent("error"))
      BY <2>3 DEF resolveForwardedProps, writeSSEError
    <3> QED
      BY <1>1, <3>1, OneMore
  <2>4. CASE streamChat \/ Prepare \/ Ask
    BY <1>1, <2>4 DEF streamChat, Prepare, Ask, Fail, Leave
  <2> QED
    BY <1>3, <2>1, <2>2, <2>3, <2>4 DEF Opening
<1>4. CASE runChat
  <2>1. \E name \in {"finished", "interrupt", "error"} : Terminal = RunEvent(name)
    BY DEF Terminal
  <2> QED
    BY <1>1, <1>4, <2>1, OneMore DEF runChat
<1>5. CASE pc # "done" /\ (FailComplete \/ ReplyHandled \/ Execute \/ StoreResults \/ Record \/ Exhaust)
  BY <1>5 DEF FailComplete, ReplyHandled, Execute, StoreResults, Record, Exhaust, Fail, Leave
<1>6. CASE /\ pc # "done"
           /\ \/ StoreReply \/ Disconnect \/ Returned \/ Complete
              \/ (\E i \in Slot : CallStep(i)) \/ \E g \in Emitter : writeEvent(g)
  BY <1>6
     DEF StoreReply, Disconnect, Returned, vars, Complete, writeEvent, CallStep, StartCall, RunCall, EndCall
<1> QED
  BY <1>2, <1>3, <1>4, <1>5, <1>6, NextCases DEF Aside

\* What was told of a round was delivered.
LEMMA ToldDelivered ==
    ASSUME TypeOK, NEW n \in 1..round, Told(n)
    PROVE  Delivered(n)
<1>1. replies[n] \in Replies /\ n \in 0..MaxToolCalls
  BY Constants DEF TypeOK
<1>2. /\ DOMAIN MessageEvents(replies[n], n) = 1..MessageLength(replies[n])
      /\ \A p \in 1..MessageLength(replies[n]) :
            MessageEvents(replies[n], n)[p] = MessageEvent(replies[n], n, p)
  BY <1>1, MessageFacts DEF Replies
<1> QED
  BY <1>2 DEF Told, Delivered, Ev

\* Nor does it have to be delivered again.
LEMMA DeliveredStays ==
    ASSUME NEW n, Delivered(n), replies' = replies, wire \subseteq wire'
    PROVE  Delivered(n)'
<1>1. MessageEvents(replies[n], n)' = MessageEvents(replies[n], n)
  BY DEF MessageEvents, Steps
<1> QED
  BY <1>1 DEF Delivered

\* The terminal event that follows a turn is the one its client can believe.
LEMMA OutcomeStep ==
    ASSUME TypeOK, GoroutineInv, ControlInv, EmitterInv, WireInv, TerminalInv, OutcomeMatchesTurn, Next
    PROVE  OutcomeMatchesTurn'
<1>0. \A name : RunEvent(name)' = RunEvent(name)
  BY DEF RunEvent
<1>1. CASE pc = "done"
  <2>1. UNCHANGED <<wire, answers, recorded>>
    BY <1>1, DoneStays
  <2>2. \A n : Delivered(n) => Delivered(n)'
    BY <2>1, DeliveredStays
  <2> QED
    BY <1>0, <2>1, <2>2 DEF OutcomeMatchesTurn
<1>2. CASE pc # "done" /\ wire' \cap Terminals = wire \cap Terminals
  <2>1. \A name \in {"finished", "interrupt", "error"} : RunEvent(name) \notin wire'
    BY <1>2 DEF TerminalInv, Terminals
  <2> QED
    BY <1>0, <2>1 DEF OutcomeMatchesTurn
<1>3. CASE pc = "emptyEnd" /\ EmptyRun /\ wire' = wire \cup {RunEvent("finished")}
  <2>1. round' = 0
    BY <1>3, OpeningFrame DEF Opening, ControlInv, Early
  <2>2. RunEvent("interrupt") \notin wire' /\ RunEvent("error") \notin wire'
    BY <1>3, EvFacts DEF TerminalInv, Terminals
  <2>3. 1..round' = {}
    BY <2>1
  <2> QED
    BY <1>0, <2>1, <2>2, <2>3 DEF OutcomeMatchesTurn
<1>4. CASE pc # "done" /\ resolveForwardedProps /\ wire' = wire \cup {RunEvent("error")}
  <2>1. RunEvent("finished") \notin wire' /\ RunEvent("interrupt") \notin wire'
    BY <1>4, EvFacts DEF TerminalInv, Terminals
  <2>2. recorded' = "none"
    BY <1>4 DEF resolveForwardedProps, ControlInv
  <2> QED
    BY <1>0, <2>1, <2>2 DEF OutcomeMatchesTurn
<1>5. CASE client = "there" /\ runChat /\ wire' = wire \cup {Terminal}
  <2>1. pc = "finish" /\ UNCHANGED <<answers, recorded>>
    BY <1>5 DEF runChat
  <2>2. ClientTold /\ \A name \in {"finished", "interrupt", "error"} : RunEvent(name) \notin wire
    BY <1>5, <2>1 DEF WireInv, TerminalInv, Terminals
  <2>3. /\ RunEvent("finished") \in wire' => err = "none"
        /\ RunEvent("interrupt") \in wire' => err = "max"
        /\ RunEvent("error") \in wire' => err = "other"
    BY <1>5, <2>2, EvFacts DEF Terminal, TypeOK
  <2>4. /\ err = "none" => recorded = "complete"
        /\ err = "max" => recorded # "complete" /\ round = MaxToolCalls
        /\ err = "other" => recorded # "incomplete"
    BY <2>1 DEF ControlInv
  <2>5. ASSUME err = "max" \/ recorded = "complete", NEW n \in 1..round PROVE Delivered(n)'
    <3>1. Told(n)
      BY <2>1, <2>2, <2>5 DEF ClientTold, RoundsTold, RoundOver
    <3> QED
      BY <1>5, <2>1, <3>1, ToldDelivered, DeliveredStays
  <2> QED
    BY <1>0, <2>1, <2>3, <2>4, <2>5 DEF OutcomeMatchesTurn
<1> QED
  BY <1>1, <1>2, <1>3, <1>4, <1>5, StreamGrows

----
\* The theorems.

LEMMA InvStep == IInv /\ [Next]_vars => IInv'
<1> SUFFICES ASSUME IInv, [Next]_vars PROVE IInv'
  OBVIOUS
<1>1. CASE Next
  BY <1>1, TypeStep, GoroutineStep, ControlStep, EmitterStep, WireStep, TerminalStep, EndStep, OutcomeStep
     DEF IInv
<1>2. CASE UNCHANGED vars
  <2>1. UNCHANGED vars
    BY <1>2
  <2>2. /\ ToldOfReply' = ToldOfReply /\ \A i \in Slot : ToldOfCall(i)' = ToldOfCall(i)
        /\ ReasoningLength(reply)' = ReasoningLength(reply) /\ TextLength(reply)' = TextLength(reply)
        /\ MessageLength(reply)' = MessageLength(reply)
        /\ \A p : MessageEvent(reply, round, p)' = MessageEvent(reply, round, p)
        /\ Batch' = Batch
    BY <2>1
       DEF vars, ToldOfReply, ToldOfCall, ReasoningLength, TextLength, MessageLength, MessageEvent, Batch
  <2>3. TypeOK' /\ GoroutineInv' /\ ControlInv'
    BY <2>1, <2>2 DEF vars, IInv, TypeOK, GoroutineInv, ControlInv
  <2>4. EmitterInv'
    BY <2>1, <2>2 DEF vars, IInv, EmitterInv
  <2>5. WireInv'
    <3>1. UNCHANGED <<client, pc, wire, answers, recorded, err>>
      BY <2>1 DEF vars
    <3>2. ReplyTold <=> ReplyTold'
      BY <2>2, <3>1 DEF ReplyTold
    <3>3. CallsTold <=> CallsTold'
      BY <2>2, <3>1 DEF CallsTold
    <3>4. /\ WireForm <=> WireForm'
          /\ PastClosed <=> PastClosed'
      BY <3>1 DEF WireForm, PastClosed
    <3>5. RoundsTold => RoundsTold'
      BY <3>1, RoundsStay DEF IInv, RoundOver
    <3> QED
      BY <3>1, <3>2, <3>3, <3>4, <3>5 DEF IInv, WireInv, ClientTold
  <2>6. TerminalInv' /\ ConnectedGetsEnd' /\ OutcomeMatchesTurn'
    <3>1. UNCHANGED <<client, pc, status, wire, answers, recorded>>
      BY <2>1 DEF vars
    <3>2. \A n : Delivered(n) => Delivered(n)'
      BY <3>1, DeliveredStays
    <3> QED
      BY <3>1, <3>2 DEF IInv, TerminalInv, ConnectedGetsEnd, OutcomeMatchesTurn, RunEvent
  <2> QED
    BY <2>3, <2>4, <2>5, <2>6 DEF IInv
<1> QED
  BY <1>1, <1>2

\* Every reachable state of the run satisfies the inductive invariant.
THEOREM Invariant == Spec => []IInv
  BY InitInv, InvStep, PTL DEF Spec

\* No run of the handler leaves its types, or makes more LLM calls than its budget.
THEOREM TypeCorrect == Spec => []TypeOK
<1>1. IInv => TypeOK
  BY DEF IInv
<1> QED
  BY <1>1, Invariant, PTL

\* When ServeHTTP returns, a client that stayed has a refusal or a terminal event.
THEOREM EndCorrect == Spec => []ConnectedGetsEnd
<1>1. IInv => ConnectedGetsEnd
  BY DEF IInv
<1> QED
  BY <1>1, Invariant, PTL

\* RUN_FINISHED follows a turn recorded as complete, an interrupt one that spent its
\* budget and was not recorded so, each with all of its rounds delivered, every
\* message and every call; an error never follows a turn recorded as incomplete, and
\* one recorded as complete all the same had been delivered in full.
THEOREM OutcomeCorrect == Spec => []OutcomeMatchesTurn
<1>1. IInv => OutcomeMatchesTurn
  BY DEF IInv
<1> QED
  BY <1>1, Invariant, PTL

\* No goroutine of the emitter, the store or a call outlives ServeHTTP.
THEOREM QuietCorrect == Spec => []NothingAfterReturn
<1>1. IInv => NothingAfterReturn
  BY QuietInv DEF IInv
<1> QED
  BY <1>1, Invariant, PTL

----
\* The protocol.

LEMMA ProtocolFacts ==
    /\ Protocol!Length["reasoning"] = 5 /\ Protocol!Length["text"] = 3 /\ Protocol!Length["call"] = 4
    /\ DOMAIN Protocol!Length = {"reasoning", "text", "call"}
    /\ \A u, n, i, s : /\ Protocol!Following(Ev(u, n, i, s)) = Ev(u, n, i, s + 1)
                       /\ Protocol!Previous(Ev(u, n, i, s)) = Ev(u, n, i, s - 1)
                       /\ Ev(u, n, i, s).unit = u /\ Ev(u, n, i, s).step = s
<1>1. Protocol!Length["reasoning"] = 5 /\ Protocol!Length["text"] = 3 /\ Protocol!Length["call"] = 4
  BY DEF Protocol!Length
<1>2. DOMAIN Protocol!Length = {"reasoning", "text", "call"}
  BY DEF Protocol!Length
<1>3. \A u, n, i, s : /\ Protocol!Following(Ev(u, n, i, s)) = Ev(u, n, i, s + 1)
                      /\ Protocol!Previous(Ev(u, n, i, s)) = Ev(u, n, i, s - 1)
                      /\ Ev(u, n, i, s).unit = u /\ Ev(u, n, i, s).step = s
  BY DEF Protocol!Following, Protocol!Previous, Ev
<1> QED
  BY <1>1, <1>2, <1>3

LEMMA ProtocolRun ==
    /\ \A name : Protocol!RunEvent(name) = RunEvent(name)
    /\ Protocol!Terminals = Terminals
    /\ Protocol!Over = (wire \cap Terminals # {})
<1>1. \A name : Protocol!RunEvent(name) = RunEvent(name)
  BY DEF Protocol!RunEvent, RunEvent
<1>2. Protocol!Terminals = Terminals
  BY <1>1 DEF Protocol!Terminals, Terminals
<1>3. Protocol!Over = (wire \cap Terminals # {})
  BY <1>2 DEF Protocol!Over
<1> QED
  BY <1>1, <1>2, <1>3

\* Blocks and messages of which every begun one is complete are not open.
LEMMA OnlyCallsOpen ==
    ASSUME WireForm,
           \A n \in 1..round, s \in 1..4 :
              Ev("reasoning", n, 0, s) \in wire => Ev("reasoning", n, 0, s + 1) \in wire,
           \A n \in 1..round, s \in 1..2 :
              Ev("text", n, 0, s) \in wire => Ev("text", n, 0, s + 1) \in wire
    PROVE  Protocol!Open \subseteq {"call"}
<1> SUFFICES ASSUME NEW f \in wire, f.unit # "run", f.step < Protocol!Length[f.unit],
                    Protocol!Following(f) \notin wire
             PROVE  f.unit = "call"
  BY DEF Protocol!Open
<1>1. f # Started
  BY DEF Started, RunEvent
<1>2. PICK n \in 1..round : \/ \E s \in 1..5 : f = Ev("reasoning", n, 0, s)
                            \/ \E s \in 1..3 : f = Ev("text", n, 0, s)
                            \/ \E i \in Slot, s \in 1..4 : f = Ev("call", n, i, s)
  BY <1>1 DEF WireForm
<1>3. ASSUME NEW s \in 1..5, f = Ev("reasoning", n, 0, s) PROVE FALSE
  <2>1. s < 5 /\ Ev("reasoning", n, 0, s + 1) \notin wire
    BY <1>3, ProtocolFacts
  <2>2. s \in 1..4
    BY <2>1
  <2> QED
    BY <1>3, <2>1, <2>2
<1>4. ASSUME NEW s \in 1..3, f = Ev("text", n, 0, s) PROVE FALSE
  <2>1. s < 3 /\ Ev("text", n, 0, s + 1) \notin wire
    BY <1>4, ProtocolFacts
  <2>2. s \in 1..2
    BY <2>1
  <2> QED
    BY <1>4, <2>1, <2>2
<1> QED
  BY <1>2, <1>3, <1>4, ProtocolFacts

\* And nothing is, when every begun call is complete too.
LEMMA NothingOpen ==
    ASSUME WireForm, Protocol!Open \subseteq {"call"},
           \A n \in 1..round, i \in Slot, s \in 1..3 :
              Ev("call", n, i, s) \in wire => Ev("call", n, i, s + 1) \in wire
    PROVE  Protocol!Open = {}
<1> SUFFICES ASSUME NEW f \in wire, f.unit # "run", f.step < Protocol!Length[f.unit],
                    Protocol!Following(f) \notin wire
             PROVE  FALSE
  BY DEF Protocol!Open
<1>1. f # Started /\ f.unit = "call"
  BY DEF Started, RunEvent, Protocol!Open
<1>2. PICK n \in 1..round, i \in Slot, s \in 1..4 : f = Ev("call", n, i, s)
  BY <1>1, ProtocolFacts DEF WireForm
<1>3. s < 4 /\ Ev("call", n, i, s + 1) \notin wire
  BY <1>2, ProtocolFacts
<1>4. s \in 1..3
  BY <1>3
<1> QED
  BY <1>2, <1>3, <1>4

\* A new event reaches the client.
LEMMA Received ==
    ASSUME NEW e, e \notin wire, client = "there", WriteEvent(e)
    PROVE  Protocol!Receive(e)
  BY DEF WriteEvent, Protocol!Receive

\* One that the protocol allows as content.
LEMMA ContentAllowed ==
    ASSUME TypeOK, ControlInv, TerminalInv, ClientTold, pc \in {"reply", "calls"}, client = "there",
           NEW u \in {"reasoning", "text", "call"}, NEW i \in 0..MaxBatch,
           NEW s \in 1..Protocol!Length[u],
           Ev(u, round, i, s) \notin wire, WriteEvent(Ev(u, round, i, s)),
           Protocol!Block(Ev(u, round, i, s)) \/ Protocol!Call(Ev(u, round, i, s))
    PROVE  Protocol!Content
<1>1. wire # {} /\ ~Protocol!Over
  BY ProtocolRun DEF ClientTold, Silent, TerminalInv
<1>2. u \in DOMAIN Protocol!Length /\ <<round, i>> \in EventId
  BY ProtocolFacts DEF TypeOK, EventId
<1>3. Protocol!Receive(Ev(u, round, i, s))
  BY Received
<1> QED
  BY <1>1, <1>2, <1>3 DEF Protocol!Content, Ev

\* The emitter of a response keeps to the protocol ...
LEMMA WriteReplyAllowed ==
    ASSUME TypeOK, GoroutineInv, ControlInv, EmitterInv, TerminalInv, ClientTold, client = "there",
           writeEvent(0)
    PROVE  Protocol!Content
<1> DEFINE T == ToldOfReply
           R == ReasoningLength(reply)
           L == TextLength(reply)
           e == MessageEvent(reply, round, T + 1)
<1>1. /\ pc = "reply" /\ WriteEvent(e) /\ T \in Nat /\ T < R + L
      /\ R \in {0, 5} /\ L \in {0, 3} /\ round \in Nat /\ round >= 1
      /\ 0 \in 0..MaxBatch
  BY WriteReply, LengthFacts, Constants DEF TypeOK, ControlInv
<1>2. /\ T + 1 <= R => e = Ev("reasoning", round, 0, T + 1)
      /\ ~(T + 1 <= R) => e = Ev("text", round, 0, T + 1 - R)
  BY <1>1 DEF MessageEvent, T, R, e
<1>3. /\ \A s \in 1..5 : Ev("reasoning", round, 0, s) \in wire <=> s <= R /\ s <= T
      /\ \A s \in 1..3 : Ev("text", round, 0, s) \in wire <=> s <= L /\ R + s <= T
  BY <1>1 DEF ClientTold, ReplyTold
<1>4. \A n \in 1..round : n = round \/ n < round
  BY <1>1
<1> HIDE DEF T, R, L, e
<1>5. ASSUME T = 0 \/ T = R PROVE Protocol!Open = {}
  <2>1. ASSUME NEW s \in 1..4, Ev("reasoning", round, 0, s) \in wire
        PROVE  Ev("reasoning", round, 0, s + 1) \in wire
    <3>1. s \in 1..5 /\ s + 1 \in 1..5
      OBVIOUS
    <3>2. s <= R /\ s <= T
      BY <1>3, <2>1, <3>1
    <3> QED
      BY <1>1, <1>3, <1>5, <3>1, <3>2
  <2>2. ASSUME NEW s \in 1..2 PROVE Ev("text", round, 0, s) \notin wire
    <3>1. s \in 1..3 /\ ~(R + s <= T)
      BY <1>1, <1>5
    <3> QED
      BY <1>3, <3>1
  <2>3. \A i \in Slot, s \in 1..3 : Ev("call", round, i, s) \notin wire
    <3>1. \A s \in 1..3 : s \in 1..4
      OBVIOUS
    <3> QED
      BY <1>1, <3>1 DEF ClientTold, CallsTold
  <2>4. Protocol!Open \subseteq {"call"}
    BY <1>4, <2>1, <2>2, OnlyCallsOpen DEF ClientTold, PastClosed
  <2> QED
    BY <1>4, <2>3, <2>4, NothingOpen DEF ClientTold, PastClosed
<1>6. CASE T + 1 <= R
  <2>1. T + 1 \in 1..5 /\ R = 5 /\ e = Ev("reasoning", round, 0, T + 1)
    BY <1>1, <1>2, <1>6
  <2>2. e \notin wire
    BY <1>1, <1>3, <2>1
  <2>3. Protocol!Block(e)
    <3>1. CASE T = 0
      BY <1>5, <2>1, <3>1, ProtocolFacts DEF Protocol!Block
    <3>2. CASE T # 0
      <4>1. T + 1 # 1 /\ T + 1 - 1 = T /\ T \in 1..5 /\ T <= R
        BY <1>1, <2>1, <3>2
      <4>2. Ev("reasoning", round, 0, T) \in wire
        BY <1>1, <1>3, <4>1
      <4> QED
        BY <2>1, <4>1, <4>2, ProtocolFacts DEF Protocol!Block
    <3> QED
      BY <3>1, <3>2
  <2> QED
    BY <1>1, <2>1, <2>2, <2>3, ProtocolFacts, ContentAllowed
<1>7. CASE ~(T + 1 <= R)
  <2>1. T + 1 - R \in 1..3 /\ L = 3 /\ e = Ev("text", round, 0, T + 1 - R)
    BY <1>1, <1>2, <1>7
  <2>2. e \notin wire
    <3>1. ~(R + (T + 1 - R) <= T)
      BY <1>1
    <3> QED
      BY <1>3, <2>1, <3>1
  <2>3. Protocol!Block(e)
    <3>1. CASE T = R
      <4>1. T + 1 - R = 1
        BY <1>1, <3>1
      <4> QED
        BY <1>5, <2>1, <3>1, <4>1, ProtocolFacts DEF Protocol!Block
    <3>2. CASE T # R
      <4>1. /\ T + 1 - R # 1 /\ T + 1 - R - 1 = T - R /\ T - R \in 1..3
            /\ T - R <= L /\ R + (T - R) <= T
        BY <1>1, <1>7, <2>1, <3>2
      <4>2. Ev("text", round, 0, T - R) \in wire
        BY <1>3, <4>1
      <4>3. /\ e.unit = "text" /\ e.step = T + 1 - R
            /\ Protocol!Previous(e) = Ev("text", round, 0, T + 1 - R - 1)
        BY <1>1, <2>1, ProtocolFacts
      <4>4. Protocol!Previous(e) \in wire
        BY <4>1, <4>2, <4>3
      <4> QED
        BY <4>1, <4>3, <4>4 DEF Protocol!Block
    <3> QED
      BY <3>1, <3>2
  <2> QED
    BY <1>1, <2>1, <2>2, <2>3, ProtocolFacts, ContentAllowed
<1> QED
  BY <1>6, <1>7

\* ... and so does the emitter of a call.
LEMMA WriteCallAllowed ==
    ASSUME TypeOK, GoroutineInv, ControlInv, EmitterInv, TerminalInv, ClientTold, client = "there",
           NEW i \in Slot, writeEvent(i)
    PROVE  Protocol!Content
<1> DEFINE T == ToldOfCall(i)
           e == Ev("call", round, i, T + 1)
<1>1. /\ pc = "calls" /\ WriteEvent(e) /\ T \in 0..3
      /\ round \in Nat /\ round >= 1 /\ i \in 0..MaxBatch
  BY WriteCall, Constants DEF TypeOK, ControlInv, Slot
<1>2. \A s \in 1..4 : Ev("call", round, i, s) \in wire <=> s <= T
  BY <1>1 DEF ClientTold, CallsTold
<1> HIDE DEF T
<1>3. e \notin wire
  <2>1. T + 1 \in 1..4 /\ ~(T + 1 <= T)
    BY <1>1
  <2> QED
    BY <1>2, <2>1
<1>4. Protocol!Open \subseteq {"call"}
  BY <1>1, OnlyCallsOpen DEF ClientTold, PastClosed
<1>5. Protocol!Call(e)
  <2>1. e.unit = "call" /\ e.step = T + 1 /\ Protocol!Previous(e) = Ev("call", round, i, T + 1 - 1)
    BY <1>1, ProtocolFacts
  <2>2. CASE T = 0
    BY <1>4, <2>1, <2>2 DEF Protocol!Call
  <2>3. CASE T # 0
    <3>1. T \in 1..4 /\ T <= T /\ T + 1 - 1 = T
      BY <1>1, <2>3
    <3>2. Protocol!Previous(e) \in wire
      BY <1>2, <2>1, <3>1
    <3> QED
      BY <1>4, <2>1, <3>2 DEF Protocol!Call
  <2> QED
    BY <2>2, <2>3
<1>6. T + 1 \in 1..Protocol!Length["call"]
  BY <1>1, ProtocolFacts
<1> QED
  BY <1>1, <1>3, <1>5, <1>6, ContentAllowed

\* The last event comes when nothing is open.
LEMMA TerminateAllowed ==
    ASSUME TypeOK, ControlInv, TerminalInv, ClientTold, pc \in {"emptyEnd", "finish"}, client = "there",
           NEW e \in Terminals, WriteEvent(e)
    PROVE  Protocol!Terminate
<1>1. wire # {} /\ ~Protocol!Over
  BY ProtocolRun DEF ClientTold, Silent, TerminalInv
<1>2. Protocol!Open = {}
  <2>1. Protocol!Open \subseteq {"call"}
    BY OnlyCallsOpen DEF ClientTold, PastClosed
  <2> QED
    BY <2>1, NothingOpen DEF ClientTold, PastClosed
<1>3. Protocol!Receive(e)
  BY Received DEF TerminalInv
<1> QED
  BY <1>1, <1>2, <1>3, ProtocolRun DEF Protocol!Terminate

\* The stream opens, or refuses the run, before anything else was written.
LEMMA OpeningAllowed ==
    ASSUME TypeOK, ControlInv, WireInv, TerminalInv, Opening, ~UNCHANGED stream
    PROVE  Protocol!Next
<1>1. CASE streamChat \/ (EmptyRun /\ pc = "empty")
  <2>1. client = "there" /\ pc \in {"open", "empty"} /\ WriteEvent(Started)
    BY <1>1 DEF streamChat, EmptyRun, WriteEvent, Started
  <2>2. wire = {}
    BY <2>1 DEF WireInv, ClientTold, Silent
  <2>3. Protocol!Receive(Started)
    BY <2>1, <2>2, Received
  <2> QED
    BY <2>2, <2>3, ProtocolRun DEF Protocol!Next, Protocol!Start, Started
<1>2. CASE resolveForwardedProps
  <2>1. client = "there" /\ pc = "props" /\ WriteEvent(RunEvent("error"))
    BY <1>2 DEF resolveForwardedProps, writeSSEError, WriteEvent
  <2>2. wire = {}
    BY <2>1 DEF WireInv, ClientTold, Silent
  <2>3. Protocol!Receive(RunEvent("error"))
    BY <2>1, <2>2, Received
  <2> QED
    BY <2>2, <2>3, ProtocolRun DEF Protocol!Next, Protocol!Refuse
<1>3. CASE EmptyRun /\ pc # "empty"
  <2>1. client = "there" /\ pc = "emptyEnd" /\ WriteEvent(RunEvent("finished"))
    BY <1>3 DEF EmptyRun, WriteEvent
  <2>2. ClientTold /\ RunEvent("finished") \in Terminals
    BY <2>1 DEF WireInv, Terminals
  <2> QED
    BY <2>1, <2>2, TerminateAllowed DEF Protocol!Next
<1>4. CASE parseRequest \/ handleResume \/ Prepare \/ Ask
  BY <1>4 DEF parseRequest, handleResume, Prepare, Ask
<1> QED
  BY <1>1, <1>2, <1>3, <1>4 DEF Opening

\* What a client receives, at every speed of the goroutines and wherever the run
\* fails or is cut off, is a stream that AguiProtocol allows: each step of the
\* handler is a step of the protocol or leaves the stream as it is.
THEOREM ProtocolSimulated == Spec => ImplementsProtocol
<1>1. Init => Protocol!Init
  BY DEF Init, Protocol!Init
<1>2. IInv /\ [Next]_vars => [Protocol!Next]_(Protocol!vars)
  <2> SUFFICES ASSUME IInv, [Next]_vars, ~UNCHANGED stream
               PROVE  Protocol!Next
    BY DEF Protocol!vars
  <2>1. /\ TypeOK /\ GoroutineInv /\ ControlInv /\ EmitterInv /\ WireInv /\ TerminalInv
    BY DEF IInv
  <2>2. Next
    BY DEF vars
  <2>3. CASE Opening
    BY <2>1, <2>3, OpeningAllowed
  <2>4. CASE runChat
    <3>1. client = "there" /\ pc = "finish" /\ WriteEvent(Terminal)
      BY <2>4 DEF runChat, WriteEvent
    <3>2. ClientTold /\ Terminal \in Terminals
      BY <2>1, <3>1 DEF WireInv, Terminals, Terminal
    <3> QED
      BY <2>1, <3>1, <3>2, TerminateAllowed DEF Protocol!Next
  <2>5. ASSUME NEW g \in Emitter, writeEvent(g) PROVE Protocol!Next
    <3>1. client = "there" /\ emitting[g] # <<>>
      BY <2>5 DEF writeEvent, WriteEvent
    <3>2. pc # "done"
      BY <2>1, <3>1, QuietInv DEF NothingAfterReturn
    <3>3. ClientTold
      BY <2>1, <3>1, <3>2 DEF WireInv
    <3> QED
      BY <2>1, <2>5, <3>1, <3>3, WriteReplyAllowed, WriteCallAllowed, Emitters DEF Protocol!Next
  <2>6. CASE \/ FailComplete \/ ReplyHandled \/ Execute \/ StoreResults \/ Record \/ Exhaust
             \/ StoreReply \/ Disconnect \/ Returned \/ Complete \/ \E i \in Slot : CallStep(i)
    BY <2>6
       DEF FailComplete, ReplyHandled, Execute, StoreResults, Record, Exhaust, StoreReply, Disconnect,
           Returned, vars, Complete, CallStep, StartCall, RunCall, EndCall
  <2> QED
    BY <2>2, <2>3, <2>4, <2>5, <2>6, NextCases DEF Aside
<1> QED
  BY <1>1, <1>2, Invariant, PTL DEF Spec, ImplementsProtocol, Protocol!Spec
====
