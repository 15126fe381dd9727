---- MODULE UsageExportProofs ----
(***************************************************************************)
(* Proofs about UsageExport, for any number of turns, models and calls and *)
(* for every size of the queue: Langfuse has no span of an event that the  *)
(* session store does not have; the span of a turn comes behind those of   *)
(* its calls; and it adds up their tokens.                                 *)
(***************************************************************************)
EXTENDS UsageExport, FiniteSetTheorems, TLAPS

----
\* The inductive invariant: the session store had its phase before an event was
\* handed to the reporter, and whatever the reporter holds was handed to it.
HandedInv == \A t \in Turns : pc[t] = "report" => event[t] \in stored

IInv ==
    /\ pc \in [Turns -> {"idle", "llm", "store", "tools", "report", "ended"}]
    /\ DOMAIN event = Turns /\ event = [t \in Turns |-> event[t]]
    /\ queue \in Seq(stored)
    /\ inHand \in stored \cup {None}
    /\ sent \in Seq({processEvent(e) : e \in stored})
    /\ HandedInv

USE DEF processVars, chatVars, reporterVars

LEMMA InitInv == Init => IInv
  BY DEF Init, IInv, HandedInv

\* Where Chat goes after an event is never another event's report.
LEMMA AfterEventInv ==
    ASSUME IInv, NEW t \in Turns, AfterEvent(t), stored' = stored
    PROVE  /\ pc' \in [Turns -> {"idle", "llm", "store", "tools", "report", "ended"}]
           /\ DOMAIN event' = Turns /\ event' = [s \in Turns |-> event'[s]]
           /\ HandedInv'
  BY DEF IInv, HandedInv, AfterEvent

LEMMA InvStep == IInv /\ [Next]_vars => IInv'
<1> SUFFICES ASSUME IInv, [Next]_vars PROVE IInv'
  OBVIOUS
<1> USE DEF IInv, HandedInv
<1>1. ASSUME NEW m \in Models, SetClient(m) PROVE IInv'
  BY <1>1 DEF SetClient
<1>2. ASSUME Exit PROVE IInv'
  BY <1>2 DEF Exit
<1>3. ASSUME NEW t \in Turns, Start(t) \/ Fail(t) \/ Complete(t) \/ Tools(t) PROVE IInv'
  BY <1>3 DEF Start, Fail, Complete, Tools
<1>4. ASSUME NEW t \in Turns, runPhases(t) PROVE IInv'
  <2>1. stored \subseteq stored' /\ event[t] \in stored' /\ UNCHANGED <<event, queue, inHand, sent>>
        /\ pc' = [pc EXCEPT ![t] = "report"]
    BY <1>4 DEF runPhases
  <2>2. queue' \in Seq(stored') /\ inHand' \in stored' \cup {None}
    BY <2>1
  <2>3. sent' \in Seq({processEvent(e) : e \in stored'})
    <3>1. {processEvent(e) : e \in stored} \subseteq {processEvent(e) : e \in stored'}
      BY <2>1
    <3> QED
      BY <2>1, <3>1
  <2> QED
    BY <2>1, <2>2, <2>3
<1>5. ASSUME NEW t \in Turns, Enqueue(t) PROVE IInv'
  BY <1>5, AfterEventInv DEF Enqueue
<1>6. ASSUME NEW t \in Turns, Drop(t) PROVE IInv'
  BY <1>6, AfterEventInv DEF Drop
<1>7. ASSUME NEW t \in Turns, Panic(t) PROVE IInv'
  BY <1>7 DEF Panic
<1>8. ASSUME Take PROVE IInv'
  BY <1>8 DEF Take
<1>9. ASSUME SendTrace PROVE IInv'
  BY <1>9 DEF SendTrace
<1>10. ASSUME Close PROVE IInv'
  BY <1>10 DEF Close
<1>11. ASSUME UNCHANGED vars PROVE IInv'
  BY <1>11 DEF vars
<1> QED
  BY <1>1, <1>2, <1>3, <1>4, <1>5, <1>6, <1>7, <1>8, <1>9, <1>10, <1>11 DEF Next, Chat, Report

\* The inductive invariant holds throughout.
THEOREM Invariant == Spec => []IInv
  BY InitInv, InvStep, PTL DEF Spec

\* Whatever reaches Langfuse was stored first: the reporters' phase follows the
\* store's, and neither the queue nor the worker invents an event.
THEOREM ExportCorrect == Spec => []ExportedWasStored
<1>1. IInv => ExportedWasStored
  BY DEF IInv, ExportedWasStored, ToSet
<1> QED
  BY <1>1, Invariant, PTL

----
\* The order of the spans.  What an event and its span are, as far as it goes:

EventOK(e) == e.kind \in {"message", "turn"} /\ e.n \in Nat \ {0}
SpanOK(s) == s.name \in {"llm", "conversation_turn"} /\ s.start \in Nat \ {0}

\* a comes before b: of one turn, the spans of the calls are numbered in their
\* order, and the turn's own span is the last.
Before(a, b) ==
    a.trace = b.trace =>
        /\ a.name = "llm"
        /\ b.name = "llm" => a.start < b.start
        /\ b.name = "conversation_turn" => a.start <= b.start

\* The spans that are sent or may be, and those of them that belong to a turn.
Spans == ToSet(sent) \cup {processEvent(e) : e \in ToSet(queue) \cup ({inHand} \ {None})}

TypeInv ==
    /\ count \in [Turns -> Nat]
    /\ \A e \in stored : EventOK(e)
    /\ \A t \in Turns : pc[t] \in {"tools", "store", "report"} => count[t] > 0
    /\ \A t \in Turns : pc[t] \in {"store", "report"} =>
           EventOK(event[t]) /\ event[t].turn = t /\ event[t].n = count[t]

\* What the reporter has of a turn is older than what the turn gives it next.
OlderInv ==
    \A t \in Turns, s \in Spans :
        /\ pc[t] = "idle" => s.trace # t
        /\ pc[t] \in {"llm", "tools"} /\ s.trace = t => s.name = "llm" /\ s.start <= count[t]
        /\ pc[t] \in {"store", "report"} => Before(s, processEvent(event[t]))

\* Queue, worker and Langfuse hold the spans in one order.
SentInv == \A i, j \in DOMAIN sent : i < j => Before(sent[i], sent[j])
HandInv ==
    inHand # None =>
        /\ \A i \in DOMAIN sent : Before(sent[i], processEvent(inHand))
        /\ \A k \in DOMAIN queue : Before(processEvent(inHand), processEvent(queue[k]))
QueueInv ==
    /\ \A i \in DOMAIN sent, k \in DOMAIN queue : Before(sent[i], processEvent(queue[k]))
    /\ \A k, l \in DOMAIN queue : k < l => Before(processEvent(queue[k]), processEvent(queue[l]))

OrderInv == TypeInv /\ OlderInv /\ SentInv /\ HandInv /\ QueueInv

\* The span of an event: its turn, its kind and its number.
LEMMA SpanOf ==
    ASSUME NEW e, EventOK(e)
    PROVE  LET s == processEvent(e)
           IN  /\ SpanOK(s) /\ s.trace = e.turn /\ s.start = e.n
               /\ s.name = "llm" <=> e.kind = "message"
<1>1. CASE e.kind = "turn"
  <2>1. processEvent(e) = conversationTurnToOTLP(e)
    BY <1>1 DEF processEvent
  <2>2. /\ conversationTurnToOTLP(e).trace = e.turn
        /\ conversationTurnToOTLP(e).start = e.n
        /\ conversationTurnToOTLP(e).name = "conversation_turn"
    BY Zenon DEF conversationTurnToOTLP
  <2> QED
    BY <2>1, <2>2, <1>1 DEF EventOK, SpanOK
<1>2. CASE e.kind = "message"
  <2>1. processEvent(e) = apiCallToOTLP(e)
    BY <1>2 DEF processEvent
  <2>2. /\ apiCallToOTLP(e).trace = e.turn
        /\ apiCallToOTLP(e).start = e.n
        /\ apiCallToOTLP(e).name = "llm"
    BY Zenon DEF apiCallToOTLP
  <2> QED
    BY <2>1, <2>2, <1>2 DEF EventOK, SpanOK
<1> QED
  BY <1>1, <1>2 DEF EventOK

LEMMA SpansTyped == IInv /\ TypeInv => \A s \in Spans : SpanOK(s)
<1> SUFFICES ASSUME IInv, TypeInv, NEW s \in Spans PROVE SpanOK(s)
  OBVIOUS
<1>1. \E e \in stored : s = processEvent(e)
  BY DEF Spans, IInv, ToSet
<1> QED
  BY <1>1, SpanOf DEF TypeInv

\* The first event of a turn's pipeline, and the turn's event, are well formed.
LEMMA TurnEventOK ==
    ASSUME TypeInv, NEW t \in Turns, count[t] > 0
    PROVE  /\ EventOK(TurnEvent(t)) /\ TurnEvent(t).kind = "turn"
           /\ TurnEvent(t).turn = t /\ TurnEvent(t).n = count[t]
  BY DEF TypeInv, TurnEvent, EventOK

\* After an event Chat is at the tools, at the turn's event or back.
LEMMA AfterEventCases ==
    ASSUME IInv, NEW t \in Turns, AfterEvent(t)
    PROVE  /\ pc'[t] \in {"tools", "store", "ended"}
           /\ pc'[t] \in {"tools", "store"} => event[t].kind # "turn"
           /\ pc'[t] = "store" => event'[t] = TurnEvent(t)
           /\ \A s \in Turns \ {t} : pc'[s] = pc[s] /\ event'[s] = event[s]
  BY DEF IInv, AfterEvent

LEMMA InitOrder == Init => OrderInv
<1> SUFFICES ASSUME Init PROVE OrderInv
  OBVIOUS
<1>1. TypeInv
  BY DEF Init, TypeInv
<1>2. sent = <<>> /\ queue = <<>> /\ inHand = None
  BY DEF Init
<1>3. Spans = {}
  BY <1>2 DEF Spans, ToSet
<1> QED
  BY <1>1, <1>2, <1>3 DEF OrderInv, OlderInv, SentInv, HandInv, QueueInv

LEMMA TypeStep == IInv /\ TypeInv /\ [Next]_vars => TypeInv'
<1> SUFFICES ASSUME IInv, TypeInv, [Next]_vars PROVE TypeInv'
  OBVIOUS
<1> USE DEF TypeInv, IInv
<1>1. ASSUME NEW m \in Models, SetClient(m) PROVE TypeInv'
  BY <1>1 DEF SetClient
<1>2. ASSUME Exit PROVE TypeInv'
  BY <1>2 DEF Exit
<1>3. ASSUME NEW t \in Turns, Start(t) \/ Fail(t) PROVE TypeInv'
  BY <1>3 DEF Start, Fail
<1>4. ASSUME NEW t \in Turns, Complete(t) PROVE TypeInv'
  <2>1. /\ count' \in [Turns -> Nat] /\ count'[t] > 0
        /\ event'[t].kind = "message" /\ event'[t].turn = t /\ event'[t].n = count'[t]
    BY <1>4 DEF Complete
  <2>2. /\ \A s \in Turns \ {t} : pc'[s] = pc[s] /\ event'[s] = event[s] /\ count'[s] = count[s]
        /\ stored' = stored
    BY <1>4 DEF Complete
  <2>3. EventOK(event'[t])
    <3>1. event'[t].n \in Nat \ {0}
      BY <2>1
    <3> QED
      BY <2>1, <3>1 DEF EventOK
  <2>4. \A u \in Turns : pc'[u] \in {"tools", "store", "report"} => count'[u] > 0
    BY <2>1, <2>2
  <2>5. \A u \in Turns : pc'[u] \in {"store", "report"} =>
            EventOK(event'[u]) /\ event'[u].turn = u /\ event'[u].n = count'[u]
    BY <2>1, <2>2, <2>3
  <2> QED
    BY <2>1, <2>2, <2>4, <2>5
<1>5. ASSUME NEW t \in Turns, Tools(t) PROVE TypeInv'
  <2>1. count[t] > 0 /\ UNCHANGED <<count, stored>>
    BY <1>5 DEF Tools
  <2>2. /\ pc'[t] = "llm" \/ (pc'[t] = "store" /\ event'[t] = TurnEvent(t))
        /\ \A s \in Turns \ {t} : pc'[s] = pc[s] /\ event'[s] = event[s]
    BY <1>5 DEF Tools
  <2> QED
    BY <2>1, <2>2, TurnEventOK
<1>6. ASSUME NEW t \in Turns, runPhases(t) PROVE TypeInv'
  BY <1>6 DEF runPhases
<1>7. ASSUME NEW t \in Turns, Enqueue(t) \/ Drop(t) PROVE TypeInv'
  <2>1. AfterEvent(t) /\ UNCHANGED <<count, stored>> /\ count[t] > 0
    BY <1>7 DEF Enqueue, Drop
  <2> QED
    BY <2>1, TurnEventOK, AfterEventCases, SMTT(30)
<1>8. ASSUME NEW t \in Turns, Panic(t) PROVE TypeInv'
  BY <1>8 DEF Panic
<1>9. ASSUME Take \/ SendTrace \/ Close PROVE TypeInv'
  BY <1>9 DEF Take, SendTrace, Close
<1>10. ASSUME UNCHANGED vars PROVE TypeInv'
  BY <1>10 DEF vars
<1> QED
  BY <1>1, <1>2, <1>3, <1>4, <1>5, <1>6, <1>7, <1>8, <1>9, <1>10 DEF Next, Chat, Report

\* What the reporter holds only grows by the event a turn hands it.
LEMMA SpansStep ==
    ASSUME IInv, [Next]_vars, NEW s \in Spans', s \notin Spans
    PROVE  \E t \in Turns : Enqueue(t) /\ s = processEvent(event[t])
<1> USE DEF Spans, ToSet, IInv
<1>1. CASE \E t \in Turns : Enqueue(t)
  BY <1>1 DEF Enqueue
<1>2. CASE UNCHANGED reporterVars
  BY <1>2
<1>3. CASE Take
  BY <1>3 DEF Take
<1>4. CASE SendTrace
  BY <1>4 DEF SendTrace
<1>5. CASE Exit
  BY <1>5 DEF Exit
<1>6. CASE Close
  BY <1>6 DEF Close
<1> QED
  BY <1>1, <1>2, <1>3, <1>4, <1>5, <1>6
  DEF Next, Chat, Report, SetClient, Start, Fail, Complete, Tools, runPhases, Drop, Panic, vars

\* Before is kept when the turn of a has no event yet, or an older one.
LEMMA BeforeEvent ==
    ASSUME NEW s, SpanOK(s), NEW e, EventOK(e), s.trace = e.turn => s.name = "llm",
           s.trace = e.turn =>
               IF e.kind = "message" THEN s.start < e.n ELSE s.start <= e.n
    PROVE  Before(s, processEvent(e))
  BY SpanOf DEF Before, EventOK, SpanOK

LEMMA OlderStep == IInv /\ TypeInv /\ OlderInv /\ [Next]_vars => OlderInv'
<1> SUFFICES ASSUME IInv, TypeInv, OlderInv, [Next]_vars,
                    NEW t \in Turns, NEW s \in Spans'
             PROVE  /\ pc'[t] = "idle" => s.trace # t
                    /\ pc'[t] \in {"llm", "tools"} /\ s.trace = t =>
                           s.name = "llm" /\ s.start <= count'[t]
                    /\ pc'[t] \in {"store", "report"} => Before(s, processEvent(event'[t]))
  BY DEF OlderInv
<1> DEFINE Older ==
        /\ pc'[t] = "idle" => s.trace # t
        /\ pc'[t] \in {"llm", "tools"} /\ s.trace = t => s.name = "llm" /\ s.start <= count'[t]
        /\ pc'[t] \in {"store", "report"} => Before(s, processEvent(event'[t]))
<1>1. TypeInv'
  BY TypeStep
<1>2. CASE s \notin Spans
  <2>1. PICK u \in Turns : Enqueue(u) /\ s = processEvent(event[u])
    BY <1>2, SpansStep
  <2>2. /\ pc[u] = "report" /\ AfterEvent(u) /\ count' = count /\ count[u] \in Nat
        /\ EventOK(event[u]) /\ event[u].turn = u /\ event[u].n = count[u]
    BY <2>1 DEF Enqueue, TypeInv
  <2>3. SpanOK(s) /\ s.trace = u /\ s.start = count[u]
        /\ (s.name = "llm" <=> event[u].kind = "message")
    BY <2>1, <2>2, SpanOf
  <2>4. CASE t = u
    <3>1. pc'[t] \in {"tools", "store"} => s.name = "llm"
      BY <2>2, <2>3, <2>4, AfterEventCases DEF EventOK
    <3>2. pc'[t] = "store" => Before(s, processEvent(event'[t]))
      <4> SUFFICES ASSUME pc'[t] = "store" PROVE Before(s, processEvent(event'[t]))
        OBVIOUS
      <4>1. event'[t] = TurnEvent(t) /\ count[t] > 0
        BY <2>2, <2>4, AfterEventCases DEF TypeInv
      <4>2. EventOK(event'[t]) /\ event'[t].kind = "turn" /\ event'[t].n = count[t]
        BY <4>1, TurnEventOK
      <4> QED
        BY <4>2, <2>2, <2>3, <2>4, <3>1, BeforeEvent
    <3>3. pc'[t] \in {"tools", "store", "ended"}
      BY <2>2, <2>4, AfterEventCases
    <3> QED
      BY <2>2, <2>3, <2>4, <3>1, <3>2, <3>3
  <2>5. CASE t # u
    <3>1. s.trace # t /\ pc'[t] = pc[t] /\ event'[t] = event[t]
      BY <2>2, <2>3, <2>5, AfterEventCases
    <3>2. pc[t] \in {"store", "report"} => Before(s, processEvent(event[t]))
      BY <3>1, SpanOf DEF TypeInv, Before
    <3> QED
      BY <3>1, <3>2
  <2> QED
    BY <2>4, <2>5
<1>3. CASE s \in Spans
  <2>0. SpanOK(s) /\ s.start \in Nat
    BY <1>3, SpansTyped DEF SpanOK
  <2>1. /\ pc[t] = "idle" => s.trace # t
        /\ pc[t] \in {"llm", "tools"} /\ s.trace = t => s.name = "llm" /\ s.start <= count[t]
        /\ pc[t] \in {"store", "report"} => Before(s, processEvent(event[t]))
    BY <1>3 DEF OlderInv
  <2>2. CASE pc'[t] = "ended"
    BY <2>2
  <2>3. CASE pc'[t] = pc[t] /\ event'[t] = event[t] /\ count'[t] = count[t]
    BY <2>1, <2>3
  <2>4. CASE Start(t)
    BY <2>1, <2>4 DEF Start, IInv
  <2>5. CASE Complete(t)
    <3>1. /\ pc[t] = "llm" /\ pc'[t] = "store" /\ count'[t] = count[t] + 1 /\ count[t] \in Nat
          /\ event'[t].kind = "message" /\ event'[t].turn = t
          /\ event'[t].n = count'[t]
      BY <2>5 DEF Complete, IInv, TypeInv
    <3>2. EventOK(event'[t])
      BY <3>1 DEF EventOK
    <3>3. Before(s, processEvent(event'[t]))
      BY <2>0, <2>1, <3>1, <3>2, BeforeEvent
    <3> QED
      BY <3>1, <3>3
  <2>6. CASE Tools(t)
    <3>1. /\ pc[t] = "tools" /\ count' = count /\ count[t] > 0
          /\ pc'[t] = "llm" \/ (pc'[t] = "store" /\ event'[t] = TurnEvent(t))
      BY <2>6 DEF Tools, IInv, TypeInv
    <3>2. CASE pc'[t] = "llm"
      BY <2>1, <3>1, <3>2
    <3>3. CASE pc'[t] = "store" /\ event'[t] = TurnEvent(t)
      <4>1. /\ EventOK(event'[t]) /\ event'[t].kind = "turn"
            /\ event'[t].turn = t /\ event'[t].n = count[t]
        BY <3>1, <3>3, TurnEventOK
      <4>2. Before(s, processEvent(event'[t]))
        BY <2>0, <2>1, <3>1, <4>1, BeforeEvent
      <4> QED
        BY <3>3, <4>2
    <3> QED
      BY <3>1, <3>2, <3>3
  <2>7. CASE runPhases(t)
    BY <2>1, <2>7 DEF runPhases, IInv
  <2>8. CASE Enqueue(t) \/ Drop(t)
    <3>1. /\ pc[t] = "report" /\ AfterEvent(t) /\ count' = count /\ count[t] \in Nat
          /\ EventOK(event[t]) /\ event[t].turn = t /\ event[t].n = count[t] /\ count[t] > 0
      BY <2>8 DEF Enqueue, Drop, TypeInv
    <3>2. Before(s, processEvent(event[t]))
      BY <2>1, <3>1
    <3>3. pc'[t] \in {"tools", "store"} /\ s.trace = t => s.name = "llm" /\ s.start <= count[t]
      BY <2>0, <3>1, <3>2, SpanOf, AfterEventCases DEF Before, EventOK, SpanOK
    <3>4. pc'[t] = "store" => Before(s, processEvent(event'[t]))
      <4> SUFFICES ASSUME pc'[t] = "store" PROVE Before(s, processEvent(event'[t]))
        OBVIOUS
      <4>1. event'[t] = TurnEvent(t)
        BY <3>1, AfterEventCases
      <4>2. /\ EventOK(event'[t]) /\ event'[t].kind = "turn"
            /\ event'[t].turn = t /\ event'[t].n = count[t]
        BY <3>1, <4>1, TurnEventOK
      <4> QED
        BY <2>0, <3>3, <4>2, BeforeEvent
    <3>5. pc'[t] \in {"tools", "store", "ended"}
      BY <3>1, AfterEventCases
    <3> QED
      BY <3>1, <3>3, <3>4, <3>5
  <2>9. CASE Fail(t) \/ Panic(t) \/ Exit
    BY <2>9, <2>2 DEF Fail, Panic, Exit, IInv
  <2>10. CASE \E u \in Turns \ {t} : Chat(u)
    BY <2>10, <2>3, AfterEventCases
    DEF Chat, Report, Start, Fail, Complete, Tools, runPhases, Enqueue, Drop, Panic, IInv, TypeInv
  <2>11. CASE (\E m \in Models : SetClient(m)) \/ Take \/ SendTrace \/ Close \/ UNCHANGED vars
    BY <2>11, <2>3 DEF SetClient, Take, SendTrace, Close, vars
  <2> QED
    BY <2>4, <2>5, <2>6, <2>7, <2>8, <2>9, <2>10, <2>11 DEF Next, Chat, Report
<1> QED
  BY <1>2, <1>3

LineInv == SentInv /\ HandInv /\ QueueInv

\* A turn's next event goes behind everything the reporter has, the worker takes
\* the first of the queue, and what it sends goes behind what it has sent.
LEMMA LineStep == IInv /\ TypeInv /\ OlderInv /\ LineInv /\ [Next]_vars => LineInv'
<1> SUFFICES ASSUME IInv, TypeInv, OlderInv, LineInv, [Next]_vars PROVE LineInv'
  OBVIOUS
<1> USE DEF LineInv, SentInv, HandInv, QueueInv
<1>1. CASE UNCHANGED <<queue, inHand, sent>>
  BY <1>1
<1>2. ASSUME NEW t \in Turns, Enqueue(t) PROVE LineInv'
  <2>1. /\ queue \in Seq(stored) /\ queue' = Append(queue, event[t])
        /\ UNCHANGED <<inHand, sent>> /\ pc[t] = "report"
    BY <1>2 DEF Enqueue, IInv
  <2>2. \A s \in Spans : Before(s, processEvent(event[t]))
    BY <2>1 DEF OlderInv
  <2>3. \A i \in DOMAIN sent : Before(sent[i], processEvent(event[t]))
    BY <2>2 DEF Spans, ToSet
  <2>4. inHand # None => Before(processEvent(inHand), processEvent(event[t]))
    BY <2>2 DEF Spans
  <2>5. \A k \in DOMAIN queue : Before(processEvent(queue[k]), processEvent(event[t]))
    BY <2>2 DEF Spans, ToSet
  <2>6. /\ DOMAIN queue' = 1 .. Len(queue) + 1 /\ DOMAIN queue = 1 .. Len(queue)
        /\ queue'[Len(queue) + 1] = event[t] /\ Len(queue) \in Nat
        /\ \A k \in DOMAIN queue : queue'[k] = queue[k]
    BY <2>1
  <2>7. SentInv' /\ HandInv'
    BY <2>1, <2>4, <2>6
  <2>8. \A i \in DOMAIN sent, k \in DOMAIN queue' : Before(sent[i], processEvent(queue'[k]))
    BY <2>3, <2>6
  <2>9. \A k, l \in DOMAIN queue' : k < l => Before(processEvent(queue'[k]), processEvent(queue'[l]))
    BY <2>5, <2>6
  <2> QED
    BY <2>1, <2>7, <2>8, <2>9
<1>3. ASSUME Take PROVE LineInv'
  <2>1. /\ queue \in Seq(stored) /\ queue # <<>> /\ inHand' = Head(queue)
        /\ queue' = Tail(queue) /\ sent' = sent
    BY <1>3 DEF Take, IInv
  <2>2. /\ Len(queue) \in Nat \ {0} /\ DOMAIN queue = 1 .. Len(queue)
        /\ inHand' = queue[1] /\ DOMAIN queue' = 1 .. Len(queue) - 1
        /\ \A k \in DOMAIN queue' : queue'[k] = queue[k + 1] /\ k + 1 \in DOMAIN queue
    BY <2>1
  <2>3. HandInv'
    BY <2>1, <2>2
  <2>4. \A k, l \in DOMAIN queue' : k < l => Before(processEvent(queue'[k]), processEvent(queue'[l]))
    <3> SUFFICES ASSUME NEW k \in DOMAIN queue', NEW l \in DOMAIN queue', k < l
                 PROVE  Before(processEvent(queue'[k]), processEvent(queue'[l]))
      OBVIOUS
    <3>1. k + 1 < l + 1 /\ k + 1 \in DOMAIN queue /\ l + 1 \in DOMAIN queue
      BY <2>2
    <3> QED
      BY <3>1, <2>2
  <2> QED
    BY <2>1, <2>2, <2>3, <2>4
<1>4. ASSUME SendTrace PROVE LineInv'
  <2>1. /\ inHand # None /\ inHand' = None /\ queue' = queue
        /\ sent' \in {sent, Append(sent, processEvent(inHand))}
        /\ sent \in Seq({processEvent(e) : e \in stored})
    BY <1>4 DEF SendTrace, IInv
  <2>2. CASE sent' = sent
    BY <2>1, <2>2
  <2>3. CASE sent' = Append(sent, processEvent(inHand))
    <3>1. /\ DOMAIN sent' = 1 .. Len(sent) + 1 /\ DOMAIN sent = 1 .. Len(sent)
          /\ sent'[Len(sent) + 1] = processEvent(inHand) /\ Len(sent) \in Nat
          /\ \A i \in DOMAIN sent : sent'[i] = sent[i]
      BY <2>1, <2>3
    <3>2. SentInv'
      BY <2>1, <3>1
    <3>3. QueueInv'
      BY <2>1, <3>1
    <3> QED
      BY <2>1, <3>2, <3>3
  <2> QED
    BY <2>1, <2>2, <2>3
<1>5. ASSUME Exit PROVE LineInv'
  BY <1>5 DEF Exit
<1> QED
  BY <1>1, <1>2, <1>3, <1>4, <1>5
  DEF Next, Chat, Report, SetClient, Start, Fail, Complete, Tools, runPhases, Drop, Panic, Close, vars

\* The order of the spans on their way, for every order in which turns, worker
\* and Close take their steps.
LEMMA Ordered == Spec => []OrderInv
<1>1. OrderInv <=> TypeInv /\ OlderInv /\ LineInv
  BY DEF OrderInv, LineInv
<1>2. IInv /\ OrderInv /\ [Next]_vars => OrderInv'
  BY TypeStep, OlderStep, LineStep DEF OrderInv, LineInv
<1> QED
  BY <1>2, InitOrder, Invariant, PTL DEF Spec

\* The spans of a turn's calls are before its own, and numbered up to its call_count,
\* each number once.
LEMMA CallsNumbered ==
    ASSUME IInv, OrderInv, NEW i \in DOMAIN sent, sent[i].name = "conversation_turn"
    PROVE  /\ sent[i].start \in Nat
           /\ \A j \in CallSpans(i) :
                  /\ j \in DOMAIN sent /\ j < i /\ sent[j].name = "llm"
                  /\ sent[j].trace = sent[i].trace
                  /\ sent[j].start \in 1 .. sent[i].start
           /\ \A j, k \in CallSpans(i) : sent[j].start = sent[k].start => j = k
<1> DEFINE calls == CallSpans(i)
           n == sent[i].start
<1>1. DOMAIN sent = 1 .. Len(sent) /\ Len(sent) \in Nat
  BY DEF IInv
<1>2. \A j \in DOMAIN sent : SpanOK(sent[j])
  BY SpansTyped DEF OrderInv, Spans, ToSet
<1>3. \A j \in calls : j \in DOMAIN sent /\ sent[j].trace = sent[i].trace /\ j # i
  BY DEF CallSpans
<1>4. \A j \in calls : j < i
  <2> SUFFICES ASSUME NEW j \in calls, ~(j < i) PROVE FALSE
    OBVIOUS
  <2>1. i < j /\ j \in DOMAIN sent /\ sent[j].trace = sent[i].trace
    BY <1>1, <1>3
  <2>2. Before(sent[i], sent[j])
    BY <2>1 DEF OrderInv, SentInv
  <2> QED
    BY <2>1, <2>2 DEF Before
<1>5. n \in Nat
  BY <1>2 DEF SpanOK
<1>6. \A j \in calls : sent[j].name = "llm" /\ sent[j].start \in 1 .. n
  <2> TAKE j \in calls
  <2>1. Before(sent[j], sent[i]) /\ sent[j].trace = sent[i].trace
    BY <1>3, <1>4 DEF OrderInv, SentInv
  <2>2. sent[j].name = "llm" /\ sent[j].start <= n
    BY <2>1 DEF Before
  <2>3. sent[j].start \in Nat \ {0}
    BY <1>2, <1>3 DEF SpanOK
  <2> QED
    BY <2>2, <2>3, <1>5
<1>7. \A j, k \in calls : j < k => sent[j].start # sent[k].start
  <2> TAKE j, k \in calls
  <2> HAVE j < k
  <2>1. Before(sent[j], sent[k]) /\ sent[j].trace = sent[k].trace
    BY <1>3 DEF OrderInv, SentInv
  <2>2. sent[j].start < sent[k].start
    BY <2>1, <1>6 DEF Before
  <2>3. sent[j].start \in Nat /\ sent[k].start \in Nat
    BY <1>6, <1>5
  <2> QED
    BY <2>2, <2>3
<1>8. \A j, k \in calls : sent[j].start = sent[k].start => j = k
  <2>1. \A j \in calls : j \in Nat
    BY <1>1, <1>3
  <2> QED
    BY <2>1, <1>7
<1> QED
  BY <1>3, <1>4, <1>5, <1>6, <1>8

\* However many spans were dropped or refused, those of a turn's calls are before
\* its own and no more than its call_count.
THEOREM OrderCorrect == Spec => []SpansInOrder
<1>1. IInv /\ OrderInv => SpansInOrder
  <2> SUFFICES ASSUME IInv, OrderInv, NEW i \in DOMAIN sent, sent[i].name = "conversation_turn"
               PROVE  /\ \A j \in CallSpans(i) : j < i
                      /\ Cardinality(CallSpans(i)) <= sent[i].start
    BY DEF SpansInOrder
  <2> DEFINE calls == CallSpans(i)
             n == sent[i].start
             number == [j \in calls |-> sent[j].start]
  <2>1. /\ n \in Nat
        /\ \A j \in calls : j < i /\ sent[j].start \in 1 .. n
        /\ \A j, k \in calls : sent[j].start = sent[k].start => j = k
    BY CallsNumbered
  <2>2. number \in Injection(calls, 1 .. n)
    <3>1. \A j, k \in calls : number[j] = number[k] => j = k
      BY <2>1
    <3>2. number \in [calls -> 1 .. n]
      BY <2>1
    <3> QED
      BY <3>1, <3>2 DEF Injection, IsInjective
  <2>3. IsFiniteSet(1 .. n) /\ Cardinality(1 .. n) = n
    BY <2>1, FS_Interval, SMTT(30)
  <2>4. Cardinality(calls) <= Cardinality(1 .. n)
    BY <2>2, <2>3, FS_Injection
  <2> QED
    BY <2>1, <2>3, <2>4
<1> QED
  BY <1>1, Invariant, Ordered, PTL

----
\* Sums.  TokensOf folds over a set in an order it chooses; what follows holds in
\* every order.

\* Induction, for a set in the place of a predicate.
LEMMA Induct ==
    ASSUME NEW T, 0 \in T, \A i \in Nat : i \in T => i + 1 \in T
    PROVE  \A i \in Nat : i \in T
<1> DEFINE U == {i \in Nat : i \notin T}
           R == {ss \in Nat \X Nat : ss[1] < ss[2]}
<1> SUFFICES ASSUME U # {} PROVE FALSE
  OBVIOUS
<1>1. IsWellFoundedOn(R, Nat)
  BY NatLessThanWellFounded DEF OpToRel
<1>2. PICK m \in U : \A k \in U : ~(<<k, m>> \in R)
  <2>1. U \in SUBSET Nat
    OBVIOUS
  <2> HIDE DEF R, U
  <2> QED
    BY <1>1, <2>1, WFMin
<1>3. m \in Nat /\ m # 0 /\ m \notin T
  BY <1>2
<1>4. m - 1 \in Nat /\ (m - 1) + 1 = m /\ m - 1 < m
  BY <1>3
<1>5. m - 1 \in T
  <2> SUFFICES ASSUME m - 1 \in U PROVE FALSE
    BY <1>4
  <2>1. ~(<<m - 1, m>> \in R)
    BY <1>2
  <2> QED
    BY <2>1, <1>3, <1>4
<1> QED
  BY <1>3, <1>4, <1>5

Chosen(s) == CHOOSE x \in s : TRUE
TokensAt(j) == sent[j].tokens

\* h is a solution of the recursion of TokensOf at s.
SumsAt(h, s) == h[s] = IF s = {} THEN 0 ELSE TokensAt(Chosen(s)) + h[s \ {Chosen(s)}]
SumStep(h, D) ==
    h = [s \in SUBSET D |-> IF s = {} THEN 0 ELSE TokensAt(Chosen(s)) + h[s \ {Chosen(s)}]]

\* Removing one element of a finite set.
LEMMA OneLess ==
    ASSUME NEW s, IsFiniteSet(s), NEW x \in s
    PROVE  /\ IsFiniteSet(s \ {x}) /\ Cardinality(s) \in Nat /\ Cardinality(s \ {x}) \in Nat
           /\ Cardinality(s) = Cardinality(s \ {x}) + 1
<1>1. IsFiniteSet(s \ {x}) /\ Cardinality(s \ {x}) = Cardinality(s) - 1
  BY FS_RemoveElement
<1>2. Cardinality(s) \in Nat /\ Cardinality(s \ {x}) \in Nat
  BY <1>1, FS_CardinalityType
<1> QED
  BY <1>1, <1>2

\* The recursion has a solution on the subsets of a finite set.
LEMMA SumRuns ==
    ASSUME NEW D, IsFiniteSet(D)
    PROVE  \E h : (\A s \in SUBSET D : SumsAt(h, s)) /\ TokensOf(D) = h[D]
<1> DEFINE T == {k \in Nat : \E g : \A s \in SUBSET D : Cardinality(s) <= k => SumsAt(g, s)}
<1>0. \A s \in SUBSET D : IsFiniteSet(s) /\ Cardinality(s) \in Nat
  BY FS_Subset, FS_CardinalityType
<1>1. 0 \in T
  <2> DEFINE g == [s \in SUBSET D |-> 0]
  <2>1. \A s \in SUBSET D : Cardinality(s) <= 0 => SumsAt(g, s)
    <3> TAKE s \in SUBSET D
    <3> HAVE Cardinality(s) <= 0
    <3>1. s = {}
      BY <1>0, FS_EmptySet
    <3> QED
      BY <3>1 DEF SumsAt
  <2> HIDE DEF g
  <2> QED
    BY <2>1
<1>2. ASSUME NEW k \in Nat, k \in T PROVE k + 1 \in T
  <2>1. PICK g : \A s \in SUBSET D : Cardinality(s) <= k => SumsAt(g, s)
    BY <1>2
  <2> DEFINE e == [s \in SUBSET D |-> IF Cardinality(s) <= k THEN g[s]
                                      ELSE TokensAt(Chosen(s)) + g[s \ {Chosen(s)}]]
  <2>2. \A s \in SUBSET D : Cardinality(s) <= k + 1 => SumsAt(e, s)
    <3> SUFFICES ASSUME NEW s \in SUBSET D, Cardinality(s) <= k + 1 PROVE SumsAt(e, s)
      OBVIOUS
    <3>1. CASE s = {}
      <4>1. Cardinality(s) <= k
        BY <3>1, FS_EmptySet
      <4> QED
        BY <2>1, <3>1, <4>1 DEF SumsAt
    <3>2. CASE s # {}
      <4>1. Chosen(s) \in s
        BY <3>2 DEF Chosen
      <4> DEFINE r == s \ {Chosen(s)}
      <4>2. r \in SUBSET D /\ Cardinality(r) <= k
        BY <1>0, <4>1, OneLess
      <4>3. e[r] = g[r]
        BY <4>2
      <4>4. e[s] = TokensAt(Chosen(s)) + g[r]
        <5>1. CASE Cardinality(s) <= k
          <6>1. e[s] = g[s]
            BY <5>1
          <6>2. g[s] = TokensAt(Chosen(s)) + g[r]
            BY <5>1, <2>1, <3>2 DEF SumsAt
          <6> QED
            BY <6>1, <6>2
        <5>2. CASE ~(Cardinality(s) <= k)
          BY <5>2
        <5> QED
          BY <5>1, <5>2
      <4> HIDE DEF e
      <4> QED
        BY <3>2, <4>3, <4>4 DEF SumsAt
    <3> QED
      BY <3>1, <3>2
  <2> HIDE DEF e
  <2> QED
    BY <2>2
<1>3. Cardinality(D) \in T
  <2> HIDE DEF T
  <2> QED
    BY <1>0, <1>1, <1>2, Induct
<1>4. PICK g : \A s \in SUBSET D : Cardinality(s) <= Cardinality(D) => SumsAt(g, s)
  BY <1>3
<1>5. \A s \in SUBSET D : SumsAt(g, s)
  BY <1>4, FS_Subset
<1> DEFINE e == [s \in SUBSET D |-> g[s]]
<1>6. SumStep(e, D)
  <2>1. \A s \in SUBSET D : g[s] = IF s = {} THEN 0 ELSE TokensAt(Chosen(s)) + g[s \ {Chosen(s)}]
    BY <1>5 DEF SumsAt
  <2>2. \A s \in SUBSET D : s \ {Chosen(s)} \in SUBSET D
    OBVIOUS
  <2> QED
    BY <2>1, <2>2 DEF SumStep
<1> DEFINE h == CHOOSE f : SumStep(f, D)
<1>7. SumStep(h, D)
  <2> HIDE DEF e
  <2> QED
    BY <1>6
<1>8. TokensOf(D) = h[D]
  BY DEF TokensOf, MapThenSumSet, MapThenFoldSet, SumStep, TokensAt, Chosen
<1>9. \A s \in SUBSET D : SumsAt(h, s)
  <2> HIDE DEF h
  <2> QED
    BY <1>7 DEF SumStep, SumsAt
<1> HIDE DEF h
<1> QED
  BY <1>8, <1>9

\* Sums of numbers are numbers.
LEMMA SumType ==
    ASSUME NEW D, IsFiniteSet(D), \A j \in D : TokensAt(j) \in Nat,
           NEW h, \A s \in SUBSET D : SumsAt(h, s)
    PROVE  \A s \in SUBSET D : h[s] \in Nat
<1> DEFINE T == {k \in Nat : \A s \in SUBSET D : Cardinality(s) = k => h[s] \in Nat}
<1>0. \A s \in SUBSET D : IsFiniteSet(s) /\ Cardinality(s) \in Nat
  BY FS_Subset, FS_CardinalityType
<1>1. 0 \in T
  <2>1. ASSUME NEW s \in SUBSET D, Cardinality(s) = 0 PROVE h[s] \in Nat
    <3>1. s = {}
      BY <1>0, <2>1, FS_EmptySet
    <3> QED
      BY <3>1 DEF SumsAt
  <2> QED
    BY <2>1
<1>2. ASSUME NEW k \in Nat, k \in T PROVE k + 1 \in T
  <2>1. ASSUME NEW s \in SUBSET D, Cardinality(s) = k + 1 PROVE h[s] \in Nat
    <3>1. s # {}
      BY <2>1, FS_EmptySet
    <3>2. Chosen(s) \in s
      BY <3>1 DEF Chosen
    <3>3. Cardinality(s \ {Chosen(s)}) = k /\ s \ {Chosen(s)} \in SUBSET D
      BY <1>0, <2>1, <3>2, OneLess
    <3>4. h[s \ {Chosen(s)}] \in Nat
      BY <1>2, <3>3
    <3>5. TokensAt(Chosen(s)) \in Nat
      BY <3>2
    <3> QED
      BY <3>1, <3>4, <3>5 DEF SumsAt
  <2> QED
    BY <2>1
<1>3. \A k \in Nat : k \in T
  <2> HIDE DEF T
  <2> QED
    BY <1>1, <1>2, Induct
<1> QED
  BY <1>0, <1>3

\* Any element can be taken out of a sum, not only the chosen one.
LEMMA SumRemove ==
    ASSUME NEW D, IsFiniteSet(D), \A j \in D : TokensAt(j) \in Nat,
           NEW h, \A s \in SUBSET D : SumsAt(h, s)
    PROVE  \A s \in SUBSET D : \A x \in s : h[s] = TokensAt(x) + h[s \ {x}]
<1> DEFINE T == {k \in Nat : \A s \in SUBSET D :
                     Cardinality(s) = k => \A x \in s : h[s] = TokensAt(x) + h[s \ {x}]}
<1>0. \A s \in SUBSET D : IsFiniteSet(s) /\ Cardinality(s) \in Nat /\ h[s] \in Nat
  BY FS_Subset, FS_CardinalityType, SumType
<1>1. 0 \in T
  BY <1>0, FS_EmptySet
<1>2. ASSUME NEW k \in Nat, k \in T PROVE k + 1 \in T
  <2>1. ASSUME NEW s \in SUBSET D, Cardinality(s) = k + 1, NEW x \in s
        PROVE  h[s] = TokensAt(x) + h[s \ {x}]
    <3> DEFINE c == Chosen(s)
    <3>1. c \in s
      BY DEF Chosen
    <3>2. h[s] = TokensAt(c) + h[s \ {c}]
      BY <2>1 DEF SumsAt
    <3> HIDE DEF c
    <3>3. CASE c = x
      BY <3>2, <3>3
    <3>4. CASE c # x
      <4>1. /\ s \ {c} \in SUBSET D /\ s \ {x} \in SUBSET D /\ (s \ {c}) \ {x} \in SUBSET D
            /\ x \in s \ {c} /\ c \in s \ {x}
            /\ (s \ {c}) \ {x} = (s \ {x}) \ {c}
        BY <2>1, <3>1, <3>4
      <4>2. Cardinality(s \ {c}) = k /\ Cardinality(s \ {x}) = k
        BY <1>0, <2>1, <3>1, OneLess
      <4>3. h[s \ {c}] = TokensAt(x) + h[(s \ {c}) \ {x}]
        BY <1>2, <4>1, <4>2
      <4>4. h[s \ {x}] = TokensAt(c) + h[(s \ {x}) \ {c}]
        BY <1>2, <4>1, <4>2
      <4>5. TokensAt(c) \in Nat /\ TokensAt(x) \in Nat /\ h[(s \ {c}) \ {x}] \in Nat
        BY <1>0, <2>1, <3>1, <4>1
      <4> QED
        BY <3>2, <4>1, <4>3, <4>4, <4>5
    <3> QED
      BY <3>3, <3>4
  <2> QED
    BY <2>1
<1>3. \A k \in Nat : k \in T
  <2> HIDE DEF T
  <2> QED
    BY <1>1, <1>2, Induct
<1> QED
  BY <1>0, <1>3

\* The spans at D are calls of a turn, each at most once, whose running totals are w.
StepsOf(D, w) ==
    /\ w \in [Nat -> Nat] /\ w[0] = 0 /\ \A k \in Nat : w[k] <= w[k + 1]
    /\ \A j \in D : /\ sent[j].start \in Nat \ {0} /\ TokensAt(j) \in Nat
                    /\ TokensAt(j) = w[sent[j].start] - w[sent[j].start - 1]
    /\ \A i, j \in D : sent[i].start = sent[j].start => i = j

\* Their tokens add up to no more than the total; if no call is missing, to the total.
LEMMA SumBound ==
    ASSUME NEW D, IsFiniteSet(D), NEW w, StepsOf(D, w),
           NEW h, \A s \in SUBSET D : SumsAt(h, s)
    PROVE  \A n \in Nat : \A s \in SUBSET D : (\A j \in s : sent[j].start <= n) =>
               /\ h[s] <= w[n] /\ Cardinality(s) <= n
               /\ Cardinality(s) = n => h[s] = w[n]
<1> DEFINE Goal(s, n) == /\ h[s] <= w[n] /\ Cardinality(s) <= n
                         /\ Cardinality(s) = n => h[s] = w[n]
           T == {n \in Nat : \A s \in SUBSET D : (\A j \in s : sent[j].start <= n) => Goal(s, n)}
<1>a. w \in [Nat -> Nat] /\ w[0] = 0 /\ \A k \in Nat : w[k] <= w[k + 1]
  BY DEF StepsOf
<1>b. /\ \A j \in D : sent[j].start \in Nat \ {0}
      /\ \A j \in D : TokensAt(j) = w[sent[j].start] - w[sent[j].start - 1]
      /\ \A i, j \in D : sent[i].start = sent[j].start => i = j
  BY DEF StepsOf
<1>c. \A j \in D : TokensAt(j) \in Nat
  BY DEF StepsOf
<1>0. \A s \in SUBSET D : IsFiniteSet(s) /\ Cardinality(s) \in Nat /\ h[s] \in Nat
  BY <1>c, FS_Subset, FS_CardinalityType, SumType
<1>1. 0 \in T
  <2>1. ASSUME NEW s \in SUBSET D, \A j \in s : sent[j].start <= 0 PROVE Goal(s, 0)
    <3>1. s = {}
      BY <2>1, <1>b
    <3>2. h[s] = 0 /\ Cardinality(s) = 0
      BY <3>1, FS_EmptySet DEF SumsAt
    <3> QED
      BY <3>2, <1>a
  <2> QED
    BY <2>1
<1>2. ASSUME NEW n \in Nat, n \in T PROVE n + 1 \in T
  <2>0. w[n] \in Nat /\ w[n + 1] \in Nat /\ w[n] <= w[n + 1]
    BY <1>a
  <2>1. ASSUME NEW s \in SUBSET D, \A j \in s : sent[j].start <= n + 1 PROVE Goal(s, n + 1)
    <3>0. \A j \in s : sent[j].start \in Nat
      BY <1>b
    <3>1. CASE \A j \in s : sent[j].start # n + 1
      <4>1. \A j \in s : sent[j].start <= n
        BY <2>1, <3>0, <3>1
      <4>2. h[s] <= w[n] /\ Cardinality(s) <= n
        BY <1>2, <4>1
      <4> QED
        BY <1>0, <2>0, <4>2
    <3>2. ASSUME NEW x \in s, sent[x].start = n + 1 PROVE Goal(s, n + 1)
      <4> DEFINE r == s \ {x}
      <4>1. r \in SUBSET D /\ Cardinality(s) = Cardinality(r) + 1
        BY <1>0, <3>2, OneLess
      <4>2. \A j \in r : sent[j].start <= n
        <5> TAKE j \in r
        <5>1. sent[j].start # n + 1
          BY <3>2, <1>b
        <5> QED
          BY <5>1, <2>1, <3>0
      <4>3. h[r] <= w[n] /\ Cardinality(r) <= n /\ (Cardinality(r) = n => h[r] = w[n])
        BY <1>2, <4>1, <4>2
      <4>4. h[s] = TokensAt(x) + h[r]
        BY <3>2, <1>c, SumRemove
      <4>5. TokensAt(x) = w[n + 1] - w[n]
        <5>1. (n + 1) - 1 = n
          OBVIOUS
        <5> QED
          BY <3>2, <5>1, <1>b
      <4>6. h[r] \in Nat /\ Cardinality(r) \in Nat
        BY <1>0, <4>1
      <4> HIDE DEF r
      <4>7. h[s] <= w[n + 1]
        BY <4>3, <4>4, <4>5, <4>6, <2>0
      <4>8. Cardinality(s) <= n + 1
        BY <4>1, <4>3, <4>6
      <4>9. Cardinality(s) = n + 1 => h[s] = w[n + 1]
        <5> SUFFICES ASSUME Cardinality(s) = n + 1 PROVE h[s] = w[n + 1]
          OBVIOUS
        <5>1. Cardinality(r) = n
          <6>1. Cardinality(r) + 1 = n + 1 /\ Cardinality(r) \in Nat /\ n \in Nat
            BY <4>1, <4>6
          <6>2. \A a, b \in Nat : a + 1 = b + 1 => a = b
            OBVIOUS
          <6> QED
            BY <6>1, <6>2
        <5>2. h[s] = (w[n + 1] - w[n]) + w[n]
          BY <4>3, <4>4, <4>5, <5>1
        <5> QED
          BY <5>2, <2>0
      <4> QED
        BY <4>7, <4>8, <4>9
    <3> QED
      BY <3>1, <3>2
  <2>2. n + 1 \in Nat
    OBVIOUS
  <2> HIDE DEF Goal
  <2> QED
    BY <2>1, <2>2
<1>3. \A n \in Nat : n \in T
  <2> HIDE DEF T
  <2> QED
    BY <1>1, <1>2, Induct
<1> QED
  BY <1>3

----
\* What a span says a turn has used.

\* w[t][n] is what the first n calls of turn t used.
RunningTotals(w) ==
    /\ w \in [Turns -> [Nat -> Nat]]
    /\ \A t \in Turns : w[t][0] = 0 /\ \A n \in Nat : w[t][n] <= w[t][n + 1]

\* The tokens of a message event are those of its call, of a turn event those of all.
EventSums(e, w) ==
    e.tokens = IF e.kind = "turn" THEN w[e.turn][e.n] ELSE w[e.turn][e.n] - w[e.turn][e.n - 1]
SpanSums(s, w) ==
    /\ s.trace \in Turns
    /\ s.tokens = IF s.name = "conversation_turn" THEN w[s.trace][s.start]
                  ELSE w[s.trace][s.start] - w[s.trace][s.start - 1]

TokensInv(w) ==
    /\ RunningTotals(w)
    /\ DOMAIN total = Turns
    /\ \A t \in Turns : total[t] = w[t][count[t]]
    /\ \A t \in Turns : pc[t] \in {"store", "report"} => EventSums(event[t], w)
    /\ \A s \in Spans : SpanSums(s, w)

SumInv == \E w : TokensInv(w)

\* A span says what its event says.
LEMMA SpanSumsOf ==
    ASSUME NEW e, EventOK(e), e.turn \in Turns, NEW w, EventSums(e, w)
    PROVE  SpanSums(processEvent(e), w)
<1>1. processEvent(e).tokens = e.tokens
  <2>1. conversationTurnToOTLP(e).tokens = e.tokens
    BY Zenon DEF conversationTurnToOTLP
  <2>2. apiCallToOTLP(e).tokens = e.tokens
    BY Zenon DEF apiCallToOTLP
  <2> QED
    BY <2>1, <2>2 DEF processEvent
<1> DEFINE s == processEvent(e)
<1>2. /\ s.trace = e.turn /\ s.start = e.n
      /\ s.name = "conversation_turn" <=> e.kind = "turn"
  BY SpanOf DEF EventOK, SpanOK
<1> HIDE DEF s
<1>3. s.tokens = e.tokens
  BY <1>1 DEF s
<1>4. SpanSums(s, w)
  BY <1>2, <1>3 DEF SpanSums, EventSums
<1> QED
  BY <1>4 DEF s

LEMMA InitSums == Init => SumInv
<1> SUFFICES ASSUME Init PROVE SumInv
  OBVIOUS
<1> DEFINE w == [t \in Turns |-> [n \in Nat |-> 0]]
<1>1. sent = <<>> /\ queue = <<>> /\ inHand = None
  BY DEF Init
<1>2. Spans = {}
  BY <1>1 DEF Spans, ToSet
<1>3. RunningTotals(w)
  <2>1. \A n \in Nat : n + 1 \in Nat
    OBVIOUS
  <2> QED
    BY <2>1 DEF RunningTotals
<1>4. TokensInv(w)
  <2>1. DOMAIN total = Turns /\ \A t \in Turns : total[t] = 0 /\ count[t] = 0 /\ pc[t] = "idle" /\ w[t][0] = 0
    BY DEF Init
  <2> HIDE DEF w
  <2> QED
    BY <1>2, <1>3, <2>1 DEF TokensInv
<1> HIDE DEF w
<1> QED
  BY <1>4 DEF SumInv

\* The spans of an unchanged reporter are the same; a new one is of an event that
\* was at the reporters, and agrees with the totals if that did.
LEMMA SpansSum ==
    ASSUME IInv, TypeInv, NEW w, TokensInv(w), [Next]_vars, NEW s \in Spans'
    PROVE  SpanSums(s, w)
<1>1. CASE s \in Spans
  BY <1>1 DEF TokensInv
<1>2. CASE s \notin Spans
  <2>1. PICK t \in Turns : Enqueue(t) /\ s = processEvent(event[t])
    BY <1>2, SpansStep
  <2>2. pc[t] = "report"
    BY <2>1 DEF Enqueue
  <2>3. EventOK(event[t]) /\ event[t].turn = t /\ EventSums(event[t], w)
    BY <2>2 DEF TypeInv, TokensInv
  <2> QED
    BY <2>1, <2>3, SpanSumsOf
<1> QED
  BY <1>1, <1>2

\* The turn's own event carries the total.
LEMMA TurnEventSums ==
    ASSUME TypeInv, NEW w, TokensInv(w), NEW t \in Turns
    PROVE  EventSums(TurnEvent(t), w)
<1>1. /\ TurnEvent(t).kind = "turn" /\ TurnEvent(t).turn = t
      /\ TurnEvent(t).n = count[t] /\ TurnEvent(t).tokens = total[t]
  BY Zenon DEF TurnEvent
<1>2. total[t] = w[t][count[t]]
  BY DEF TokensInv
<1> QED
  BY <1>1, <1>2 DEF EventSums

\* A call that returned is a further step of its turn's totals.
LEMMA CompleteSums ==
    ASSUME IInv, TypeInv, OlderInv, NEW w, TokensInv(w), NEW t \in Turns, Complete(t)
    PROVE  SumInv'
<1>1. PICK tokens \in Tokens, tools \in BOOLEAN :
        /\ total' = [total EXCEPT ![t] = Add(@, tokens)]
        /\ count' = [count EXCEPT ![t] = @ + 1]
        /\ event' = [event EXCEPT ![t] =
               [kind |-> "message", turn |-> t, n |-> count'[t], tokens |-> tokens,
                tools |-> tools, model |-> reported[t]]]
  BY DEF Complete
<1>2. /\ alive /\ pc[t] = "llm" /\ pc' = [pc EXCEPT ![t] = "store"]
      /\ UNCHANGED reporterVars
  BY DEF Complete
<1> DEFINE c == count[t]
           v == [n \in Nat |-> IF n <= c THEN w[t][n] ELSE w[t][c] + tokens]
<1>3. c \in Nat /\ tokens \in Nat /\ w \in [Turns -> [Nat -> Nat]] /\ w[t] \in [Nat -> Nat]
  BY TokensAssumption DEF TypeInv, TokensInv, RunningTotals
<1>4. /\ v \in [Nat -> Nat] /\ v[0] = 0 /\ v[c + 1] = w[t][c] + tokens
      /\ \A n \in Nat : n <= c => v[n] = w[t][n]
  BY <1>3 DEF TokensInv, RunningTotals
<1>5. \A n \in Nat : v[n] <= v[n + 1]
  <2> TAKE n \in Nat
  <2>0. w[t][n] <= w[t][n + 1] /\ n + 1 \in Nat
    BY DEF TokensInv, RunningTotals
  <2>1. w[t][n] <= w[t][n + 1] /\ w[t][n] \in Nat /\ w[t][c] \in Nat /\ w[t][n + 1] \in Nat
    BY <1>3, <2>0
  <2>2. CASE n + 1 <= c
    BY <2>1, <2>2, <1>3
  <2>3. CASE n = c
    BY <2>1, <2>3, <1>3
  <2>4. CASE n > c
    BY <2>1, <2>4, <1>3
  <2> QED
    <3>1. n + 1 <= c \/ n = c \/ n > c
      BY <1>3
    <3> QED
      BY <2>2, <2>3, <2>4, <3>1
<1> HIDE DEF v
<1>6. PICK x : x \in [Turns -> [Nat -> Nat]] /\ x[t] = v /\ \A u \in Turns \ {t} : x[u] = w[u]
  <2> DEFINE y == [w EXCEPT ![t] = v]
  <2>1. y \in [Turns -> [Nat -> Nat]] /\ y[t] = v /\ \A u \in Turns \ {t} : y[u] = w[u]
    BY <1>3, <1>4
  <2> HIDE DEF y
  <2> QED
    BY <2>1
<1>7. RunningTotals(x)
  <2> SUFFICES ASSUME NEW u \in Turns
               PROVE  x[u][0] = 0 /\ \A n \in Nat : x[u][n] <= x[u][n + 1]
    BY <1>6 DEF RunningTotals
  <2>1. CASE u = t
    BY <2>1, <1>4, <1>5, <1>6
  <2>2. CASE u # t
    BY <2>2, <1>6 DEF TokensInv, RunningTotals
  <2> QED
    BY <2>1, <2>2
<1>8. \A u \in Turns : total'[u] = x[u][count'[u]]
  <2> TAKE u \in Turns
  <2>0. /\ total[u] = w[u][count[u]] /\ total[t] = w[t][c]
        /\ DOMAIN count = Turns /\ DOMAIN total = Turns /\ c + 1 \in Nat
    BY <1>3 DEF TypeInv, TokensInv
  <2>1. CASE u = t
    <3>1. count'[t] = c + 1
      BY <2>0, <1>1
    <3>2. total'[t] = w[t][c] + tokens
      BY <2>0, <1>1 DEF Add
    <3> QED
      BY <2>1, <3>1, <3>2, <1>4, <1>6
  <2>2. CASE u # t
    <3>1. count'[u] = count[u] /\ total'[u] = total[u]
      BY <2>0, <2>2, <1>1
    <3> QED
      BY <2>0, <2>2, <3>1, <1>6
  <2> QED
    BY <2>1, <2>2
<1>9. \A u \in Turns : pc'[u] \in {"store", "report"} => EventSums(event'[u], x)
  <2> TAKE u \in Turns
  <2>1. CASE u = t
    <3>1. DOMAIN event = Turns /\ DOMAIN count = Turns
      BY DEF IInv, TypeInv
    <3>2. /\ event'[t].kind = "message" /\ event'[t].turn = t
          /\ event'[t].n = c + 1 /\ event'[t].tokens = tokens
      BY <3>1, <1>1
    <3>3. x[t][c + 1] = w[t][c] + tokens /\ x[t][(c + 1) - 1] = w[t][c] /\ w[t][c] \in Nat
      <4>1. (c + 1) - 1 = c /\ c <= c
        BY <1>3
      <4> QED
        BY <4>1, <1>3, <1>4, <1>6
    <3>4. tokens = x[t][c + 1] - x[t][(c + 1) - 1]
      BY <3>3, <1>3
    <3> QED
      BY <2>1, <3>2, <3>4 DEF EventSums
  <2>2. CASE u # t
    <3>1. DOMAIN event = Turns /\ pc \in [Turns -> {"idle", "llm", "store", "tools", "report", "ended"}]
      BY DEF IInv
    <3>2. event'[u] = event[u] /\ pc'[u] = pc[u]
      BY <2>2, <3>1, <1>1, <1>2
    <3>3. pc[u] \in {"store", "report"} => event[u].turn = u /\ EventSums(event[u], w)
      BY DEF TypeInv, TokensInv
    <3> QED
      BY <2>2, <3>2, <3>3, <1>6 DEF EventSums
  <2> QED
    BY <2>1, <2>2
<1>10. \A s \in Spans' : SpanSums(s, x)
  <2> TAKE s \in Spans'
  <2>1. Spans' = Spans
    BY <1>2 DEF Spans
  <2>2. SpanSums(s, w) /\ SpanOK(s)
    BY <2>1, SpansTyped DEF TokensInv
  <2>3. CASE s.trace = t
    <3>1. s.start <= c /\ s.start \in Nat /\ s.start - 1 \in Nat /\ s.start - 1 <= c
      BY <2>1, <2>2, <2>3, <1>2, <1>3 DEF OlderInv, SpanOK
    <3>2. x[t][s.start] = w[t][s.start] /\ x[t][s.start - 1] = w[t][s.start - 1]
      BY <3>1, <1>4, <1>6
    <3> QED
      BY <2>2, <2>3, <3>2 DEF SpanSums
  <2>4. CASE s.trace # t
    BY <2>2, <2>4, <1>6 DEF SpanSums
  <2> QED
    BY <2>3, <2>4
<1>11. DOMAIN total' = Turns
  BY <1>1 DEF TokensInv
<1>12. TokensInv(x)'
  BY <1>7, <1>8, <1>9, <1>10, <1>11 DEF TokensInv
<1> QED
  BY <1>12 DEF SumInv

\* Every other step leaves the totals as they are, or ends the process.
LEMMA SumStepInv == IInv /\ TypeInv /\ OlderInv /\ SumInv /\ [Next]_vars => SumInv'
<1> SUFFICES ASSUME IInv, TypeInv, OlderInv, SumInv, [Next]_vars PROVE SumInv'
  OBVIOUS
<1>1. PICK w : TokensInv(w)
  BY DEF SumInv
<1>2. CASE \E t \in Turns : Complete(t)
  BY <1>1, <1>2, CompleteSums
<1>3. CASE ~\E t \in Turns : Complete(t)
  <2>1. DOMAIN total' = Turns /\ \A t \in Turns : total'[t] = w[t][count'[t]]
    <3>1. CASE UNCHANGED <<total, count>>
      BY <1>1, <3>1 DEF TokensInv
    <3>2. CASE Exit
      BY <1>1, <3>2 DEF Exit, TokensInv, RunningTotals
    <3> QED
      BY <1>3, <3>1, <3>2
      DEF Next, Chat, Report, SetClient, Start, Fail, Tools, runPhases, Enqueue, Drop, Panic,
          Take, SendTrace, Close, vars
  <2>2. ASSUME NEW t \in Turns, pc'[t] \in {"store", "report"} PROVE EventSums(event'[t], w)
    <3>1. EventSums(TurnEvent(t), w)
      BY <1>1, TurnEventSums
    <3>2. pc[t] \in {"store", "report"} => EventSums(event[t], w)
      BY <1>1 DEF TokensInv
    <3>3. CASE pc'[t] = pc[t] /\ event'[t] = event[t]
      BY <2>2, <3>2, <3>3
    <3>4. CASE runPhases(t)
      BY <3>2, <3>4 DEF runPhases
    <3>5. CASE event'[t] = TurnEvent(t)
      BY <3>1, <3>5
    <3>6. CASE Start(t) \/ Fail(t) \/ Panic(t) \/ Exit
      BY <2>2, <3>6 DEF Start, Fail, Panic, Exit, IInv
    <3>7. CASE Tools(t)
      BY <2>2, <3>5, <3>7 DEF Tools, IInv
    <3>8. CASE Enqueue(t) \/ Drop(t)
      BY <2>2, <3>5, <3>8, AfterEventCases DEF Enqueue, Drop
    <3>9. CASE \E u \in Turns \ {t} : Chat(u)
      BY <1>3, <3>9, <3>3, AfterEventCases
      DEF Chat, Report, Start, Fail, Tools, runPhases, Enqueue, Drop, Panic, IInv
    <3>10. CASE (\E m \in Models : SetClient(m)) \/ Take \/ SendTrace \/ Close \/ UNCHANGED vars
      BY <3>10, <3>3 DEF SetClient, Take, SendTrace, Close, vars
    <3> QED
      BY <1>3, <3>4, <3>6, <3>7, <3>8, <3>9, <3>10 DEF Next, Chat, Report
  <2>3. \A s \in Spans' : SpanSums(s, w)
    BY <1>1, SpansSum
  <2>4. TokensInv(w)'
    BY <1>1, <2>1, <2>2, <2>3 DEF TokensInv
  <2> QED
    BY <2>4 DEF SumInv
<1> QED
  BY <1>2, <1>3

LEMMA Summed == Spec => []SumInv
<1>1. IInv /\ OrderInv /\ SumInv /\ [Next]_vars => SumInv'
  BY SumStepInv DEF OrderInv
<1> QED
  BY <1>1, InitSums, Invariant, Ordered, PTL DEF Spec

\* The span of a turn adds up at least the tokens of the spans of its calls, and
\* exactly those when all of them got through, whatever the calls used.
THEOREM SumsCorrect == Spec => []TurnSpanSumsUp
<1>1. IInv /\ OrderInv /\ SumInv /\ SpansInOrder => TurnSpanSumsUp
  <2> SUFFICES ASSUME IInv, OrderInv, SumInv,
                      NEW i \in DOMAIN sent, sent[i].name = "conversation_turn"
               PROVE  /\ TokensOf(CallSpans(i)) <= sent[i].tokens
                      /\ Cardinality(CallSpans(i)) = sent[i].start =>
                             TokensOf(CallSpans(i)) = sent[i].tokens
    BY DEF TurnSpanSumsUp
  <2> DEFINE D == CallSpans(i)
             n == sent[i].start
             t == sent[i].trace
  <2>1. PICK w : TokensInv(w)
    BY DEF SumInv
  <2>2. \A j \in DOMAIN sent : SpanSums(sent[j], w)
    BY <2>1 DEF TokensInv, Spans, ToSet
  <2>3. t \in Turns /\ sent[i].tokens = w[t][n]
    BY <2>2 DEF SpanSums
  <2>4. /\ n \in Nat
        /\ \A j \in D : /\ j \in DOMAIN sent /\ sent[j].name = "llm"
                        /\ sent[j].trace = t /\ sent[j].start \in 1 .. n
        /\ \A j, k \in D : sent[j].start = sent[k].start => j = k
    BY CallsNumbered
  <2>5. IsFiniteSet(D)
    <3>1. DOMAIN sent = 1 .. Len(sent) /\ Len(sent) \in Nat
      BY DEF IInv
    <3>2. D \subseteq 1 .. Len(sent)
      BY <2>4, <3>1
    <3>3. IsFiniteSet(1 .. Len(sent))
      BY <3>1, FS_Interval
    <3> HIDE DEF D
    <3> QED
      BY <3>2, <3>3, FS_Subset
  <2>6. /\ w[t] \in [Nat -> Nat] /\ w[t][0] = 0
        /\ \A k \in Nat : w[t][k] <= w[t][k + 1]
    BY <2>1, <2>3 DEF TokensInv, RunningTotals
  <2>7. \A j \in D : TokensAt(j) = w[t][sent[j].start] - w[t][sent[j].start - 1]
    BY <2>2, <2>4 DEF SpanSums, TokensAt
  <2>8. \A j \in D : sent[j].start \in Nat \ {0} /\ sent[j].start <= n
    BY <2>4
  <2>9. \A j \in D : TokensAt(j) \in Nat
    <3> TAKE j \in D
    <3> DEFINE k == sent[j].start - 1
    <3>1. k \in Nat /\ k + 1 = sent[j].start
      BY <2>8
    <3>2. TokensAt(j) = w[t][k + 1] - w[t][k]
      BY <2>7, <3>1
    <3> HIDE DEF k
    <3>3. w[t][k] \in Nat /\ w[t][k + 1] \in Nat /\ w[t][k] <= w[t][k + 1]
      BY <2>6, <3>1
    <3> QED
      BY <3>2, <3>3
  <2>10. PICK h : (\A s \in SUBSET D : SumsAt(h, s)) /\ TokensOf(D) = h[D]
    BY <2>5, SumRuns
  <2> DEFINE u == w[t]
  <2>11. StepsOf(D, u)
    <3>1. \A j, k \in D : sent[j].start = sent[k].start => j = k
      BY <2>4
    <3>2. \A j \in D : /\ sent[j].start \in Nat \ {0} /\ TokensAt(j) \in Nat
                      /\ TokensAt(j) = u[sent[j].start] - u[sent[j].start - 1]
      BY <2>7, <2>8, <2>9
    <3> HIDE DEF D
    <3> QED
      BY <2>6, <3>1, <3>2 DEF StepsOf
  <2>12. D \in SUBSET D
    OBVIOUS
  <2> HIDE DEF D, u
  <2>13. \A m \in Nat : \A s \in SUBSET D : (\A j \in s : sent[j].start <= m) =>
             /\ h[s] <= u[m] /\ Cardinality(s) <= m
             /\ Cardinality(s) = m => h[s] = u[m]
    BY <2>5, <2>10, <2>11, SumBound
  <2>14. h[D] <= u[n] /\ (Cardinality(D) = n => h[D] = u[n])
    BY <2>4, <2>8, <2>12, <2>13
  <2>15. TokensOf(D) <= sent[i].tokens /\ (Cardinality(D) = n => TokensOf(D) = sent[i].tokens)
    BY <2>3, <2>10, <2>14 DEF u
  <2> QED
    BY <2>15 DEF D
<1> QED
  BY <1>1, Invariant, Ordered, Summed, OrderCorrect, PTL
====
