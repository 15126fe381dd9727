---- MODULE ConversationProofs ----
(***************************************************************************)
(* Proofs about Conversation, for any set of turns, any budget of LLM      *)
(* calls, any size of a response, every context mode and every choice of   *)
(* faults: the type invariant, the safety invariants of the message store  *)
(* and the history, the step simulation of TurnLedger, what the contexts   *)
(* that the LLM is given hold and in which order, and that the requests    *)
(* the clients make of them are accepted.                                  *)
(***************************************************************************)
EXTENDS Conversation, RequestProofs

----
\* The inductive invariant.

Working(t) == pc[t] \in {"execute", "results"}

\* While a batch of calls is being answered, the last message of its turn is the
\* response, or the result of the last call answered.
Position(t) ==
    \E j \in DOMAIN messages :
        /\ messages[j].turn = t
        /\ \A k \in DOMAIN messages : k > j => messages[k].turn # t
        /\ done[t] = 0 => messages[j].role = "assistant" /\ messages[j].calls = reply[t].calls
        /\ done[t] > 0 => Answers(messages[j], reply[t].calls[done[t]])

\* The only calls of a turn left unanswered are those of its last response whose
\* results are still to be stored.
Pending(t) ==
    \A i \in DOMAIN messages :
        messages[i].turn = t /\ messages[i].role = "assistant" =>
            \A k \in DOMAIN messages[i].calls :
                \/ \E j \in DOMAIN messages : Answers(messages[j], messages[i].calls[k])
                \/ \E n \in (done[t] + 1)..Len(reply[t].calls) :
                      messages[i].calls[k] = reply[t].calls[n]

\* What the program counter of a turn says about its locals.
LocalsInv(t) ==
    /\ pc[t] \in {"idle", "ask"} => round[t] = 0
    /\ pc[t] \in {"read", "history", "complete"} => round[t] < MaxToolCalls
    /\ pc[t] \in {"reply", "execute", "results"} =>
          /\ round[t] > 0
          /\ reply[t].calls = CallIds(t, round[t], Len(reply[t].calls))
    /\ pc[t] \in {"reply", "execute"} => done[t] = 0
    /\ Working(t) => done[t] < Len(reply[t].calls)
    /\ pc[t] \in {"exhaust", "exhausted"} => round[t] = MaxToolCalls

\* What it says about the store.
StoreInv(t) ==
    /\ pc[t] \notin {"idle", "ask", "failed"} => session
    /\ Working(t) => Position(t) /\ Pending(t)
    /\ ~Working(t) /\ pc[t] # "failed" => AllAnswered(t)
    /\ pc[t] = "finish" => HasAnswer(t)
    /\ pc[t] \notin {"finish", "answered", "failed"} => ~HasAnswer(t)
    /\ pc[t] = "answered" => \E r \in history : r.turn = t /\ r.status = "complete"

\* What the history rows of a turn say about it.
RowsInv(t) ==
    \A r \in history : r.turn = t =>
        /\ AllAnswered(t)
        /\ r.status = "complete" => HasAnswer(t) /\ pc[t] \in {"answered", "failed"}
        /\ r.status = "incomplete" =>
              /\ ~HasAnswer(t)
              /\ round[t] = MaxToolCalls
              /\ pc[t] = "exhausted"

IInv ==
    /\ TypeOK
    /\ AnswersInOrder
    /\ \A t \in Turns : LocalsInv(t)
    /\ \A t \in Turns : StoreInv(t)
    /\ \A t \in Turns : RowsInv(t)

----
\* The constants' assumptions, the control state, and what a call of Chat does to
\* the locals.

USE DEF NoTurn

LEMMA CallIdsType ==
    ASSUME NEW t \in Turns, NEW r \in 1..MaxToolCalls, NEW n \in 0..MaxBatch
    PROVE  /\ CallIds(t, r, n) \in Seq(CallId)
           /\ Len(CallIds(t, r, n)) = n
           /\ \A i \in 1..n : CallIds(t, r, n)[i] = <<t, r, i>>
<1>1. MaxToolCalls \in Nat /\ MaxBatch \in Nat
  BY MaxToolCallsAssumption, BoundsAssumption
<1>2. \A i \in 1..n : <<t, r, i>> \in CallId
  BY <1>1 DEF CallId
<1> QED
  BY <1>1, <1>2 DEF CallIds

LEMMA MessageTypes ==
    ASSUME NEW t \in Turns, NEW calls \in Seq(CallId), NEW k \in 1..Len(calls)
    PROVE  /\ UserMessage(t) \in Message
           /\ AssistantMessage(t, calls) \in Message
           /\ ToolMessage(t, calls[k]) \in Message
<1>1. calls[k] \in CallId
  OBVIOUS
<1>2. <<calls[k]>> \in Seq(CallId) /\ <<>> \in Seq(CallId)
  BY <1>1
<1> QED
  BY <1>2 DEF UserMessage, AssistantMessage, ToolMessage, Message

LEMMA UserMessageType == ASSUME NEW t \in Turns PROVE UserMessage(t) \in Message
  BY DEF UserMessage, Message

\* What HandleMessageEvent does to the store, whether it succeeds or fails.
LEMMA StoreEffect ==
    ASSUME TypeOK, NEW m \in Message, Store(m) \/ FailToStore(m)
    PROVE  /\ session' \in BOOLEAN
           /\ session => session'
           /\ messages' \in Seq(Message)
           /\ messages' = messages \/ messages' = Append(messages, m)
<1>1. session \in BOOLEAN /\ messages \in Seq(Message)
  BY DEF TypeOK
<1>2. Append(messages, m) \in Seq(Message)
  BY <1>1
<1>3. session' \in BOOLEAN /\ (session => session')
  BY <1>1 DEF Store, FailToStore
<1>4. messages' = messages \/ messages' = Append(messages, m)
  BY DEF Store, FailToStore
<1> QED
  BY <1>1, <1>2, <1>3, <1>4

LEMMA RowType ==
    ASSUME TypeOK, NEW t \in Turns, NEW answer \in BOOLEAN, NEW status \in {"complete", "incomplete"}
    PROVE  [turn |-> t, at |-> startedAt[t], status |-> status, answer |-> answer] \in Row
  BY DEF TypeOK, Row

\* The rows after HandleTurnEvent, whether it succeeds or fails.
LEMMA UpsertEffect ==
    ASSUME TypeOK, NEW row \in Row, Upsert(row) \/ FailToUpsert(row)
    PROVE  /\ history' \subseteq Row
           /\ \A r \in history' : r.turn # row.turn => r \in history
           /\ \A r \in history : r.turn # row.turn => r \in history'
           /\ \A r \in history' : r.turn = row.turn =>
                 r \in history \/ (r.status = row.status /\ r.at = row.at)
           /\ Upsert(row) => \E r \in history' : r.turn = row.turn /\ r.status = row.status
<1>1. CASE FailToUpsert(row) /\ UNCHANGED history
  <2> DEFINE same == {r \in history : r.turn = row.turn}
             new == [row EXCEPT !.answer = @ \/ \E r \in same : r.answer]
  <2>1. new \in Row /\ new.turn = row.turn /\ new.status = row.status /\ new.at = row.at
    BY DEF Row
  <2>2. Upsert(row) => new \in history'
    BY DEF Upsert
  <2> QED
    BY <1>1, <2>1, <2>2 DEF TypeOK
<1>2. CASE Upsert(row)
  <2> DEFINE same == {r \in history : r.turn = row.turn}
             new == [row EXCEPT !.answer = @ \/ \E r \in same : r.answer]
  <2>1. history' = (history \ same) \cup {new}
    BY <1>2 DEF Upsert
  <2>2. new \in Row /\ new.turn = row.turn /\ new.status = row.status /\ new.at = row.at
    BY DEF Row
  <2> HIDE DEF new
  <2> QED
    BY <2>1, <2>2 DEF TypeOK
<1> QED
  BY <1>1, <1>2 DEF FailToUpsert

----
\* Types, and what the program counter says about the locals.

LEMMA InitInv == Init => IInv
<1> SUFFICES ASSUME Init PROVE IInv
  OBVIOUS
<1>1. MaxToolCalls \in Nat \ {0} /\ MaxBatch \in Nat /\ MaxClock \in Nat
  BY MaxToolCallsAssumption, BoundsAssumption
<1>2. <<>> \in Seq(CallId) /\ <<>> \in Seq(Message) /\ Len(<<>>) = 0 /\ DOMAIN <<>> = {}
  OBVIOUS
<1>3. messages = <<>> /\ history = {} /\ \A t \in Turns : pc[t] = "idle" /\ round[t] = 0
  BY DEF Init
<1>4. TypeOK
  <2>1. 0 \in 0..MaxClock /\ 0 \in 0..MaxToolCalls /\ 0 \in 0..MaxBatch
    BY <1>1
  <2>2. /\ pc \in [Turns -> Label]
        /\ startedAt \in [Turns -> 0..MaxClock]
        /\ round \in [Turns -> 0..MaxToolCalls]
        /\ done \in [Turns -> 0..MaxBatch]
        /\ clock \in 0..MaxClock
    BY <2>1 DEF Init, Label
  <2>3. [calls |-> <<>>, text |-> FALSE] \in [calls : Seq(CallId), text : BOOLEAN]
    BY <1>2
  <2>4. /\ reply \in [Turns -> [calls : Seq(CallId), text : BOOLEAN]]
        /\ \A t \in Turns : reply[t].calls = <<>> /\ done[t] = 0
    BY <2>3 DEF Init
  <2>5. snapshot \in [Turns -> Seq(Message)] /\ DOMAIN context = Turns
    BY <1>2 DEF Init
  <2>6. session \in BOOLEAN /\ messages \in Seq(Message) /\ history \subseteq Row
    BY <1>2 DEF Init
  <2> QED
    BY <1>1, <1>2, <2>2, <2>4, <2>5, <2>6 DEF Init, TypeOK
<1>5. AnswersInOrder
  BY <1>2, <1>3 DEF AnswersInOrder
<1>6. ASSUME NEW t \in Turns PROVE LocalsInv(t) /\ StoreInv(t) /\ RowsInv(t)
  BY <1>2, <1>3 DEF LocalsInv, StoreInv, RowsInv, Working, AllAnswered, HasAnswer
<1> QED
  BY <1>3, <1>4, <1>5, <1>6 DEF IInv

LEMMA TypeStep ==
    ASSUME TypeOK, \A t \in Turns : LocalsInv(t), [Next]_vars
    PROVE  TypeOK'
<1>1. MaxToolCalls \in Nat \ {0} /\ MaxBatch \in Nat /\ MaxClock \in Nat
  BY MaxToolCallsAssumption, BoundsAssumption
<1>2. CASE UNCHANGED vars
  BY <1>2 DEF TypeOK, vars, turnVars, viewVars, storeVars, ambientVars
<1>3. ASSUME NEW t \in Turns, Begin(t) PROVE TypeOK'
  BY <1>3 DEF Begin, Goto, TypeOK, Label, viewVars, storeVars, ambientVars
<1>4. ASSUME NEW t \in Turns, FailPrompt(t) PROVE TypeOK'
  BY <1>4 DEF FailPrompt, Goto, TypeOK, Label, Ended, turnVars, viewVars, storeVars, ambientVars
<1>5. ASSUME NEW t \in Turns, StoreQuestion(t) PROVE TypeOK'
  BY <1>5, UserMessageType, StoreEffect
     DEF StoreQuestion, Goto, TypeOK, Label, Ended, turnVars, viewVars, ambientVars
<1>6. ASSUME NEW t \in Turns, ReadMessages(t) PROVE TypeOK'
  BY <1>6 DEF ReadMessages, Goto, TypeOK, Label, turnVars, viewVars, storeVars, ambientVars
<1>7. ASSUME NEW t \in Turns, ReadHistory(t) PROVE TypeOK'
  <2>1. <<>> \in Seq(Message)
    OBVIOUS
  <2>2. /\ snapshot' = [snapshot EXCEPT ![t] = <<>>] \/ snapshot' = snapshot
        /\ pc' = [pc EXCEPT ![t] = "complete"]
        /\ DOMAIN context' = DOMAIN context
        /\ UNCHANGED <<turnVars, storeVars, ambientVars>>
    BY <1>7 DEF ReadHistory, Goto
  <2> QED
    BY <2>1, <2>2 DEF TypeOK, Label, turnVars, storeVars, ambientVars
<1>8. ASSUME NEW t \in Turns, Complete(t) PROVE TypeOK'
  <2>1. PICK n \in 0..MaxBatch, text \in BOOLEAN :
           reply' = [reply EXCEPT ![t] = [calls |-> CallIds(t, round[t] + 1, n), text |-> text]]
    BY <1>8 DEF Complete
  <2>2. round[t] \in 0..MaxToolCalls /\ round[t] < MaxToolCalls
    BY <1>8 DEF Complete, LocalsInv, TypeOK
  <2>3. round[t] + 1 \in 1..MaxToolCalls
    BY <1>1, <2>2
  <2>4. CallIds(t, round[t] + 1, n) \in Seq(CallId) /\ Len(CallIds(t, round[t] + 1, n)) = n
    BY <2>3, CallIdsType
  <2>5. reply' \in [Turns -> [calls : Seq(CallId), text : BOOLEAN]]
    BY <2>1, <2>4 DEF TypeOK
  <2>6. done' = [done EXCEPT ![t] = 0] /\ round' = [round EXCEPT ![t] = round[t] + 1]
    BY <1>8 DEF Complete
  <2>7. done' \in [Turns -> 0..MaxBatch] /\ round' \in [Turns -> 0..MaxToolCalls]
    BY <1>1, <2>3, <2>6 DEF TypeOK
  <2>8. ASSUME NEW u \in Turns
        PROVE  done'[u] <= Len(reply'[u].calls) /\ Len(reply'[u].calls) <= MaxBatch
    <3>1. CASE u = t
      BY <3>1, <2>1, <2>4, <2>6 DEF TypeOK
    <3>2. CASE u # t
      BY <3>2, <2>1, <2>6 DEF TypeOK
    <3> QED
      BY <3>1, <3>2
  <2>9. /\ pc' = [pc EXCEPT ![t] = "reply"]
        /\ context' = [context EXCEPT ![t] = <<>>]
        /\ snapshot' = [snapshot EXCEPT ![t] = <<>>]
        /\ UNCHANGED <<startedAt, storeVars, ambientVars>>
    BY <1>8 DEF Complete, DropContext, Goto
  <2>10. <<>> \in Seq(Message)
    OBVIOUS
  <2> QED
    BY <2>5, <2>7, <2>8, <2>9, <2>10 DEF TypeOK, Label, storeVars, ambientVars
<1>9. ASSUME NEW t \in Turns, FailComplete(t) PROVE TypeOK'
  <2>1. <<>> \in Seq(Message)
    OBVIOUS
  <2> QED
    BY <1>9, <2>1
       DEF FailComplete, DropContext, Goto, TypeOK, Label, Ended, turnVars, storeVars, ambientVars
<1>10. ASSUME NEW t \in Turns, StoreReply(t) PROVE TypeOK'
  <2>1. AssistantMessage(t, reply[t].calls) \in Message
    BY DEF TypeOK, AssistantMessage, Message
  <2>2. /\ Store(AssistantMessage(t, reply[t].calls)) \/ FailToStore(AssistantMessage(t, reply[t].calls))
        /\ \E label \in {"finish", "execute", "failed"} : pc' = [pc EXCEPT ![t] = label]
        /\ UNCHANGED <<turnVars, viewVars, history, ambientVars>>
    BY <1>10 DEF StoreReply, Goto
  <2>3. session' \in BOOLEAN /\ messages' \in Seq(Message)
    BY <2>1, <2>2, StoreEffect
  <2> QED
    BY <2>2, <2>3 DEF TypeOK, Label, Ended, turnVars, viewVars, ambientVars
<1>11. ASSUME NEW t \in Turns, Execute(t) \/ FailExecute(t) PROVE TypeOK'
  BY <1>11
     DEF Execute, FailExecute, Goto, TypeOK, Label, Ended, turnVars, viewVars, storeVars, ambientVars
<1>12. ASSUME NEW t \in Turns, StoreResult(t) PROVE TypeOK'
  <2> DEFINE k == done[t] + 1
             m == ToolMessage(t, reply[t].calls[k])
  <2>1. /\ reply[t].calls \in Seq(CallId) /\ Len(reply[t].calls) \in Nat
        /\ done[t] \in 0..MaxBatch /\ done[t] < Len(reply[t].calls)
    BY <1>12 DEF StoreResult, LocalsInv, Working, TypeOK
  <2>2. k \in 1..Len(reply[t].calls)
    BY <1>1, <2>1
  <2>3. m \in Message
    BY <2>1, <2>2, MessageTypes
  <2>4. /\ Store(m) \/ FailToStore(m)
        /\ \E label \in {"results", "read", "exhaust", "failed"} : pc' = [pc EXCEPT ![t] = label]
        /\ done' = done \/ done' = [done EXCEPT ![t] = k]
        /\ UNCHANGED <<startedAt, round, reply, viewVars, history, ambientVars>>
    BY <1>12 DEF StoreResult, Goto, AfterResult
  <2>5. session' \in BOOLEAN /\ messages' \in Seq(Message)
    BY <2>3, <2>4, StoreEffect
  <2>6. k <= MaxBatch
    BY <1>1, <2>1, <2>2 DEF TypeOK
  <2>7. k \in 0..MaxBatch /\ k <= Len(reply[t].calls)
    BY <1>1, <2>1, <2>2, <2>6
  <2>8. reply' = reply /\ (done' = done \/ done' = [done EXCEPT ![t] = k])
    BY <2>4
  <2> HIDE DEF k, m
  <2>9. /\ done' \in [Turns -> 0..MaxBatch]
        /\ \A u \in Turns : done'[u] <= Len(reply'[u].calls)
    BY <2>7, <2>8 DEF TypeOK
  <2> QED
    BY <2>4, <2>5, <2>9 DEF TypeOK, Label, Ended, viewVars, ambientVars
<1>13. ASSUME NEW t \in Turns, Finish(t) PROVE TypeOK'
  <2> DEFINE row == [turn |-> t, at |-> startedAt[t], status |-> "complete", answer |-> reply[t].text]
  <2>1. row \in Row
    BY RowType DEF TypeOK
  <2>2. /\ Upsert(row) \/ FailToUpsert(row)
        /\ \E label \in {"answered", "failed"} : pc' = [pc EXCEPT ![t] = label]
        /\ UNCHANGED <<turnVars, viewVars, session, messages, ambientVars>>
    BY <1>13 DEF Finish, Goto
  <2>3. history' \subseteq Row
    BY <2>1, <2>2, UpsertEffect
  <2> QED
    BY <2>2, <2>3 DEF TypeOK, Label, Ended, turnVars, viewVars, ambientVars
<1>14. ASSUME NEW t \in Turns, Exhaust(t) PROVE TypeOK'
  <2> DEFINE row == [turn |-> t, at |-> startedAt[t], status |-> "incomplete", answer |-> FALSE]
  <2>1. row \in Row
    BY RowType
  <2>2. /\ Upsert(row) \/ FailToUpsert(row)
        /\ pc' = [pc EXCEPT ![t] = "exhausted"]
        /\ UNCHANGED <<turnVars, viewVars, session, messages, ambientVars>>
    BY <1>14 DEF Exhaust, Goto
  <2>3. history' \subseteq Row
    BY <2>1, <2>2, UpsertEffect
  <2> QED
    BY <2>2, <2>3 DEF TypeOK, Label, Ended, turnVars, viewVars, ambientVars
<1>15. CASE Tick
  BY <1>1, <1>15 DEF Tick, TypeOK, turnVars, viewVars, storeVars
<1>16. CASE Quiet
  BY <1>2, <1>16 DEF Quiet
<1> QED
  BY <1>2, <1>3, <1>4, <1>5, <1>6, <1>7, <1>8, <1>9, <1>10, <1>11, <1>12, <1>13, <1>14, <1>15, <1>16
     DEF Next, Chat

----
\* What a step of one turn leaves alone, and what that preserves.

Acts(t) == Begin(t) \/ FailPrompt(t) \/ Chat(t)

Undisturbed(u) ==
    /\ pc'[u] = pc[u]
    /\ round'[u] = round[u]
    /\ reply'[u] = reply[u]
    /\ done'[u] = done[u]
    /\ session => session'
    /\ \/ messages' = messages
       \/ \E m \in Message : m.turn # u /\ messages' = Append(messages, m)
    /\ \A r \in history : r.turn = u => r \in history'
    /\ \A r \in history' : r.turn = u => r \in history

LEMMA OthersUndisturbed ==
    ASSUME TypeOK, \A t \in Turns : LocalsInv(t),
           NEW t \in Turns, Acts(t), NEW u \in Turns, u # t
    PROVE  Undisturbed(u)
<1>1. CASE UNCHANGED <<round, reply, done, storeVars>> /\ \E label : Goto(t, label)
  BY <1>1 DEF Undisturbed, storeVars, Goto, TypeOK
<1>2. ASSUME NEW m \in Message, m.turn = t, Store(m) \/ FailToStore(m),
             \E label : Goto(t, label), UNCHANGED <<round, reply, history>>,
             done' = done \/ \E k : done' = [done EXCEPT ![t] = k]
      PROVE  Undisturbed(u)
  <2>1. /\ session => session'
        /\ messages' = messages \/ messages' = Append(messages, m)
    BY <1>2, StoreEffect
  <2>2. pc'[u] = pc[u] /\ done'[u] = done[u]
    BY <1>2 DEF Goto, TypeOK
  <2> QED
    BY <1>2, <2>1, <2>2 DEF Undisturbed
<1>3. ASSUME NEW row \in Row, row.turn = t, Upsert(row) \/ FailToUpsert(row),
             \E label : Goto(t, label), UNCHANGED <<round, reply, done, session, messages>>
      PROVE  Undisturbed(u)
  <2>1. /\ \A r \in history' : r.turn # t => r \in history
        /\ \A r \in history : r.turn # t => r \in history'
    BY <1>3, UpsertEffect
  <2>2. pc'[u] = pc[u]
    BY <1>3 DEF Goto, TypeOK
  <2> QED
    BY <1>3, <2>1, <2>2 DEF Undisturbed
<1>4. CASE Begin(t) \/ FailPrompt(t) \/ ReadMessages(t) \/ ReadHistory(t) \/ FailComplete(t)
           \/ Execute(t) \/ FailExecute(t)
  <2>1. UNCHANGED <<round, reply, done, storeVars>>
    BY <1>4 DEF Begin, FailPrompt, ReadMessages, ReadHistory, FailComplete, Execute, FailExecute,
                turnVars
  <2>2. \E label : Goto(t, label)
    BY <1>4 DEF Begin, FailPrompt, ReadMessages, ReadHistory, FailComplete, Execute, FailExecute
  <2> QED
    BY <1>1, <2>1, <2>2
<1>5. CASE StoreQuestion(t)
  <2>1. UserMessage(t) \in Message /\ UserMessage(t).turn = t
    BY UserMessageType DEF UserMessage
  <2>2. /\ Store(UserMessage(t)) \/ FailToStore(UserMessage(t))
        /\ \E label : Goto(t, label)
        /\ UNCHANGED <<round, reply, history>> /\ done' = done
    BY <1>5 DEF StoreQuestion, turnVars
  <2> QED
    BY <1>2, <2>1, <2>2
<1>6. CASE Complete(t)
  <2>1. UNCHANGED storeVars /\ pc' = [pc EXCEPT ![t] = "reply"]
    BY <1>6 DEF Complete, Goto
  <2>2. /\ \E v : reply' = [reply EXCEPT ![t] = v]
        /\ \E v : round' = [round EXCEPT ![t] = v]
        /\ \E v : done' = [done EXCEPT ![t] = v]
    BY <1>6 DEF Complete
  <2> QED
    BY <2>1, <2>2 DEF Undisturbed, storeVars, TypeOK
<1>7. CASE StoreReply(t)
  <2> DEFINE m == AssistantMessage(t, reply[t].calls)
  <2>1. m \in Message /\ m.turn = t
    BY DEF TypeOK, AssistantMessage, Message
  <2>2. /\ Store(m) \/ FailToStore(m)
        /\ \E label : Goto(t, label)
        /\ UNCHANGED <<round, reply, history>> /\ done' = done
    BY <1>7 DEF StoreReply, turnVars
  <2> HIDE DEF m
  <2> QED
    BY <1>2, <2>1, <2>2
<1>8. CASE StoreResult(t)
  <2> DEFINE k == done[t] + 1
             m == ToolMessage(t, reply[t].calls[k])
  <2>1. /\ reply[t].calls \in Seq(CallId) /\ Len(reply[t].calls) \in Nat
        /\ done[t] \in 0..MaxBatch /\ done[t] < Len(reply[t].calls)
    BY <1>8 DEF StoreResult, LocalsInv, Working, TypeOK
  <2>2. m \in Message /\ m.turn = t
    BY <2>1, MessageTypes, BoundsAssumption DEF ToolMessage
  <2>3. /\ Store(m) \/ FailToStore(m)
        /\ \E label : Goto(t, label)
        /\ UNCHANGED <<round, reply, history>>
        /\ done' = done \/ \E v : done' = [done EXCEPT ![t] = v]
    BY <1>8 DEF StoreResult
  <2> HIDE DEF m
  <2> QED
    BY <1>2, <2>2, <2>3
<1>9. CASE Finish(t)
  <2> DEFINE row == [turn |-> t, at |-> startedAt[t], status |-> "complete", answer |-> reply[t].text]
  <2>1. row \in Row /\ row.turn = t
    BY RowType DEF TypeOK
  <2>2. /\ Upsert(row) \/ FailToUpsert(row)
        /\ \E label : Goto(t, label)
        /\ UNCHANGED <<round, reply, done, session, messages>>
    BY <1>9 DEF Finish, turnVars
  <2> HIDE DEF row
  <2> QED
    BY <1>3, <2>1, <2>2
<1>10. CASE Exhaust(t)
  <2> DEFINE row == [turn |-> t, at |-> startedAt[t], status |-> "incomplete", answer |-> FALSE]
  <2>1. row \in Row /\ row.turn = t
    BY RowType
  <2>2. /\ Upsert(row) \/ FailToUpsert(row)
        /\ \E label : Goto(t, label)
        /\ UNCHANGED <<round, reply, done, session, messages>>
    BY <1>10 DEF Exhaust, turnVars
  <2> HIDE DEF row
  <2> QED
    BY <1>3, <2>1, <2>2
<1> QED
  BY <1>4, <1>5, <1>6, <1>7, <1>8, <1>9, <1>10 DEF Acts, Chat

LEMMA UndisturbedKeeps ==
    ASSUME TypeOK, NEW u \in Turns, Undisturbed(u)
    PROVE  /\ AllAnswered(u) => AllAnswered(u)'
           /\ HasAnswer(u)' <=> HasAnswer(u)
           /\ Position(u) => Position(u)'
           /\ Pending(u) => Pending(u)'
<1>1. CASE messages' = messages
  BY <1>1 DEF Undisturbed, AllAnswered, HasAnswer, Position, Pending
<1>2. ASSUME NEW m \in Message, m.turn # u, messages' = Append(messages, m)
      PROVE  /\ AllAnswered(u) => AllAnswered(u)'
             /\ HasAnswer(u)' <=> HasAnswer(u)
             /\ Position(u) => Position(u)'
             /\ Pending(u) => Pending(u)'
  <2>1. /\ Len(messages) \in Nat
        /\ DOMAIN messages = 1..Len(messages)
        /\ DOMAIN messages' = 1..(Len(messages) + 1)
        /\ \A i \in 1..Len(messages) : messages'[i] = messages[i]
        /\ messages'[Len(messages) + 1] = m
    BY <1>2 DEF TypeOK
  <2>2. done'[u] = done[u] /\ reply'[u] = reply[u]
    BY DEF Undisturbed
  <2>3. AllAnswered(u) => AllAnswered(u)'
    BY <1>2, <2>1 DEF AllAnswered, Answers
  <2>4. HasAnswer(u)' <=> HasAnswer(u)
    BY <1>2, <2>1 DEF HasAnswer
  <2>5. Position(u) => Position(u)'
    BY <1>2, <2>1, <2>2 DEF Position, Answers
  <2>6. Pending(u) => Pending(u)'
    BY <1>2, <2>1, <2>2 DEF Pending, Answers
  <2> QED
    BY <2>3, <2>4, <2>5, <2>6
<1> QED
  BY <1>1, <1>2 DEF Undisturbed

LEMMA UndisturbedInv ==
    ASSUME TypeOK, NEW u \in Turns, Undisturbed(u), LocalsInv(u), StoreInv(u), RowsInv(u)
    PROVE  LocalsInv(u)' /\ StoreInv(u)' /\ RowsInv(u)'
<1>1. /\ AllAnswered(u) => AllAnswered(u)'
      /\ HasAnswer(u)' <=> HasAnswer(u)
      /\ Position(u) => Position(u)'
      /\ Pending(u) => Pending(u)'
  BY UndisturbedKeeps
<1>2. /\ pc'[u] = pc[u] /\ round'[u] = round[u] /\ reply'[u] = reply[u] /\ done'[u] = done[u]
      /\ session => session'
      /\ \A r \in history : r.turn = u => r \in history'
      /\ \A r \in history' : r.turn = u => r \in history
  BY DEF Undisturbed
<1>3. LocalsInv(u)'
  BY <1>2 DEF LocalsInv, Working, CallIds
<1>4. StoreInv(u)'
  BY <1>1, <1>2 DEF StoreInv, Working
<1>5. RowsInv(u)'
  BY <1>1, <1>2 DEF RowsInv
<1> QED
  BY <1>3, <1>4, <1>5

----
\* What a step does to its own turn.

TurnInv(t) == LocalsInv(t) /\ StoreInv(t) /\ RowsInv(t)

\* A step that touches neither the store nor the locals the invariant is about,
\* to a label that demands no more than the one it leaves.
LEMMA MoveKeeps ==
    ASSUME TypeOK, NEW t \in Turns, TurnInv(t),
           UNCHANGED <<round, reply, done, storeVars>>,
           NEW label, pc' = [pc EXCEPT ![t] = label],
           \/ pc[t] = "idle" /\ label = "ask"
           \/ pc[t] \notin Ended /\ label = "failed"
           \/ pc[t] = "read" /\ label \in {"history", "complete"}
           \/ pc[t] = "history" /\ label = "complete"
           \/ pc[t] = "execute" /\ label = "results"
    PROVE  TurnInv(t)'
<1>1. pc'[t] = label
  BY DEF TypeOK
<1>2. /\ round'[t] = round[t] /\ reply'[t] = reply[t] /\ done'[t] = done[t]
      /\ AllAnswered(t)' <=> AllAnswered(t)
      /\ HasAnswer(t)' <=> HasAnswer(t)
      /\ Position(t)' <=> Position(t)
      /\ Pending(t)' <=> Pending(t)
      /\ session' = session /\ history' = history
  BY DEF storeVars, AllAnswered, HasAnswer, Position, Pending
<1>3. LocalsInv(t)'
  BY <1>1, <1>2 DEF TurnInv, LocalsInv, Working, CallIds
<1>4. StoreInv(t)'
  BY <1>1, <1>2 DEF TurnInv, StoreInv, Working, Ended
<1>5. RowsInv(t)'
  BY <1>1, <1>2 DEF TurnInv, RowsInv, Ended
<1> QED
  BY <1>3, <1>4, <1>5 DEF TurnInv

LEMMA MoveSteps ==
    ASSUME TypeOK, NEW t \in Turns, TurnInv(t),
           Begin(t) \/ FailPrompt(t) \/ ReadMessages(t) \/ ReadHistory(t) \/ FailComplete(t)
             \/ Execute(t) \/ FailExecute(t)
    PROVE  TurnInv(t)' /\ UNCHANGED messages
<1>1. UNCHANGED <<round, reply, done, storeVars>>
  BY DEF Begin, FailPrompt, ReadMessages, ReadHistory, FailComplete, Execute, FailExecute, turnVars
<1>2. CASE Begin(t)
  BY <1>1, <1>2, MoveKeeps DEF Begin, Idle, Goto, storeVars
<1>3. CASE FailPrompt(t)
  BY <1>1, <1>3, MoveKeeps DEF FailPrompt, Idle, Goto, Ended, storeVars
<1>4. CASE ReadMessages(t)
  BY <1>1, <1>4, MoveKeeps DEF ReadMessages, Goto, storeVars
<1>5. CASE ReadHistory(t)
  BY <1>1, <1>5, MoveKeeps DEF ReadHistory, Goto, storeVars
<1>6. CASE FailComplete(t)
  BY <1>1, <1>6, MoveKeeps DEF FailComplete, DropContext, Goto, Ended, storeVars
<1>7. CASE Execute(t) \/ FailExecute(t)
  BY <1>1, <1>7, MoveKeeps DEF Execute, FailExecute, Goto, Ended, storeVars
<1> QED
  BY <1>2, <1>3, <1>4, <1>5, <1>6, <1>7

LEMMA CompleteStep ==
    ASSUME TypeOK, NEW t \in Turns, TurnInv(t), Complete(t)
    PROVE  TurnInv(t)' /\ UNCHANGED messages
<1>1. PICK n \in 0..MaxBatch, text \in BOOLEAN :
         reply' = [reply EXCEPT ![t] = [calls |-> CallIds(t, round[t] + 1, n), text |-> text]]
  BY DEF Complete
<1>2. /\ pc[t] = "complete" /\ pc'[t] = "reply"
      /\ round'[t] = round[t] + 1 /\ done'[t] = 0
      /\ reply'[t].calls = CallIds(t, round[t] + 1, n)
      /\ UNCHANGED storeVars
  BY <1>1 DEF Complete, Goto, TypeOK
<1>3. round[t] \in 0..MaxToolCalls /\ round[t] < MaxToolCalls /\ MaxToolCalls \in Nat
  BY <1>2, MaxToolCallsAssumption DEF TurnInv, LocalsInv, TypeOK
<1>4. Len(CallIds(t, round[t] + 1, n)) = n
  BY <1>3, CallIdsType
<1>5. LocalsInv(t)'
  BY <1>2, <1>3, <1>4 DEF LocalsInv, Working, CallIds
<1>6. /\ AllAnswered(t)' <=> AllAnswered(t)
      /\ HasAnswer(t)' <=> HasAnswer(t)
      /\ session' = session /\ history' = history /\ messages' = messages
  BY <1>2 DEF storeVars, AllAnswered, HasAnswer
<1>7. StoreInv(t)' /\ RowsInv(t)'
  BY <1>2, <1>6 DEF TurnInv, StoreInv, RowsInv, Working
<1> QED
  BY <1>5, <1>6, <1>7 DEF TurnInv

\* The store after one message of turn t was appended.
LEMMA AppendEffect ==
    ASSUME TypeOK, NEW m \in Message, messages' = Append(messages, m)
    PROVE  /\ Len(messages) \in Nat
           /\ DOMAIN messages = 1..Len(messages)
           /\ DOMAIN messages' = 1..(Len(messages) + 1)
           /\ \A i \in 1..Len(messages) : messages'[i] = messages[i]
           /\ messages'[Len(messages) + 1] = m
  BY DEF TypeOK

\* A running turn has no row.
LEMMA RunningHasNoRow ==
    ASSUME TypeOK, NEW t \in Turns, TurnInv(t), Running(t)
    PROVE  \A r \in history : r.turn # t
<1> SUFFICES ASSUME NEW r \in history, r.turn = t PROVE FALSE
  OBVIOUS
<1>1. r.status \in {"complete", "incomplete"}
  BY DEF TypeOK, Row
<1> QED
  BY <1>1 DEF TurnInv, RowsInv, Running, Ended

\* A turn whose message the store refused has failed, and a failed turn owes
\* nothing but rows, of which a running turn has none.
LEMMA FailedStep ==
    ASSUME TypeOK, NEW t \in Turns, TurnInv(t), Running(t), pc' = [pc EXCEPT ![t] = "failed"],
           UNCHANGED <<round, reply, done, history>>
    PROVE  TurnInv(t)'
<1>1. pc'[t] = "failed" /\ history' = history
  BY DEF TypeOK
<1>2. LocalsInv(t)' /\ StoreInv(t)'
  BY <1>1 DEF LocalsInv, StoreInv, Working
<1>3. \A r \in history : r.turn # t
  BY RunningHasNoRow
<1>4. RowsInv(t)'
  BY <1>1, <1>3 DEF RowsInv
<1> QED
  BY <1>2, <1>4 DEF TurnInv

\* A message behind an answer does not move it out of its place.
LEMMA InPlaceKept ==
    ASSUME TypeOK, NEW m \in Message, messages' = Append(messages, m),
           NEW i \in DOMAIN messages, InPlace(i)
    PROVE  InPlace(i)'
<1>1. /\ Len(messages) \in Nat
      /\ DOMAIN messages = 1..Len(messages)
      /\ \A k \in 1..Len(messages) : messages'[k] = messages[k]
  BY AppendEffect
<1>2. i \in 1..Len(messages)
  BY <1>1
<1> DEFINE c == messages[i].calls[1]
           d == <<c[1], c[2], c[3] - 1>>
<1>3. PICK j \in 1..(i - 1) :
         /\ messages[j].turn = messages[i].turn
         /\ \A k \in (j + 1)..(i - 1) : messages[k].turn # messages[i].turn
         /\ \/ messages[j].role = "assistant" /\ messages[j].calls[1] = c
            \/ Answers(messages[j], d)
  BY DEF InPlace
<1>4. messages'[i] = messages[i] /\ messages'[j] = messages[j]
  BY <1>1, <1>2
<1>5. \A k \in (j + 1)..(i - 1) : messages'[k] = messages[k]
  BY <1>1, <1>2
<1>6. \/ messages'[j].role = "assistant" /\ messages'[j].calls[1] = c
      \/ Answers(messages'[j], d)
  BY <1>3, <1>4
<1>7. \A k \in (j + 1)..(i - 1) : messages'[k].turn # messages'[i].turn
  BY <1>3, <1>4, <1>5
<1>8. messages'[j].turn = messages'[i].turn
  BY <1>3, <1>4
<1>9. c = messages'[i].calls[1]
  BY <1>4
<1> HIDE DEF c
<1>10. /\ messages'[j].turn = messages'[i].turn
       /\ \A k \in (j + 1)..(i - 1) : messages'[k].turn # messages'[i].turn
       /\ \/ messages'[j].role = "assistant" /\ messages'[j].calls[1] = c
          \/ Answers(messages'[j], <<c[1], c[2], c[3] - 1>>)
  BY <1>6, <1>7, <1>8
<1> QED
  BY <1>9, <1>10 DEF InPlace, Answers

\* A message that answers no call leaves every answer in its place.
LEMMA OrderKept ==
    ASSUME TypeOK, AnswersInOrder, NEW m \in Message, m.role # "tool",
           messages' = messages \/ messages' = Append(messages, m)
    PROVE  AnswersInOrder'
<1>1. CASE messages' = messages
  BY <1>1 DEF AnswersInOrder, InPlace
<1>2. CASE messages' = Append(messages, m)
  <2>1. /\ DOMAIN messages = 1..Len(messages)
        /\ DOMAIN messages' = 1..(Len(messages) + 1)
        /\ Len(messages) \in Nat
        /\ \A i \in 1..Len(messages) : messages'[i] = messages[i]
        /\ messages'[Len(messages) + 1] = m
    BY <1>2, AppendEffect
  <2>2. \A i \in DOMAIN messages : InPlace(i) => InPlace(i)'
    BY <1>2, InPlaceKept
  <2> QED
    BY <2>1, <2>2 DEF AnswersInOrder
<1> QED
  BY <1>1, <1>2

LEMMA StoreQuestionStep ==
    ASSUME TypeOK, AnswersInOrder, NEW t \in Turns, TurnInv(t), StoreQuestion(t)
    PROVE  TurnInv(t)' /\ AnswersInOrder'
<1> DEFINE m == UserMessage(t)
<1>1. m \in Message /\ m.role = "user" /\ m.turn = t
  BY UserMessageType DEF UserMessage
<1> HIDE DEF m
<1>2. /\ pc[t] = "ask" /\ UNCHANGED <<round, reply, done, history>>
      /\ \/ Store(m) /\ pc' = [pc EXCEPT ![t] = "read"]
         \/ FailToStore(m) /\ pc' = [pc EXCEPT ![t] = "failed"]
  BY DEF StoreQuestion, Goto, turnVars, m
<1>3. AnswersInOrder'
  BY <1>1, <1>2, StoreEffect, OrderKept
<1>4. CASE pc' = [pc EXCEPT ![t] = "failed"]
  BY <1>2, <1>3, <1>4, FailedStep DEF Running, Ended
<1>5. CASE Store(m) /\ pc' = [pc EXCEPT ![t] = "read"]
  <2>1. session' /\ messages' = Append(messages, m)
    BY <1>1, <1>5 DEF Store
  <2>2. /\ Len(messages) \in Nat
        /\ DOMAIN messages = 1..Len(messages)
        /\ DOMAIN messages' = 1..(Len(messages) + 1)
        /\ \A i \in 1..Len(messages) : messages'[i] = messages[i]
        /\ messages'[Len(messages) + 1] = m
    BY <1>1, <2>1, AppendEffect
  <2>3. AllAnswered(t) /\ ~HasAnswer(t)
    BY <1>2 DEF TurnInv, StoreInv, Working
  <2>4. AllAnswered(t)' /\ ~HasAnswer(t)'
    BY <1>1, <2>2, <2>3 DEF AllAnswered, HasAnswer, Answers
  <2>5. pc'[t] = "read" /\ round'[t] = 0 /\ MaxToolCalls \in Nat \ {0}
    BY <1>2, <1>5, MaxToolCallsAssumption DEF TypeOK, TurnInv, LocalsInv
  <2>6. LocalsInv(t)' /\ StoreInv(t)'
    BY <2>1, <2>4, <2>5 DEF LocalsInv, StoreInv, Working
  <2>7. RowsInv(t)'
    BY <1>2, RunningHasNoRow DEF RowsInv, Running, Ended
  <2> QED
    BY <1>3, <2>6, <2>7 DEF TurnInv
<1> QED
  BY <1>2, <1>4, <1>5

LEMMA StoreReplyStep ==
    ASSUME TypeOK, AnswersInOrder, NEW t \in Turns, TurnInv(t), StoreReply(t)
    PROVE  TurnInv(t)' /\ AnswersInOrder'
<1> DEFINE calls == reply[t].calls
           m == AssistantMessage(t, calls)
<1>1. /\ m \in Message /\ m.role = "assistant" /\ m.turn = t /\ m.calls = calls
      /\ calls \in Seq(CallId)
  BY DEF TypeOK, AssistantMessage, Message
<1> HIDE DEF m
<1>2. /\ pc[t] = "reply" /\ UNCHANGED <<round, reply, done, history>>
      /\ \/ Store(m) /\ pc' = [pc EXCEPT ![t] = IF calls = <<>> THEN "finish" ELSE "execute"]
         \/ FailToStore(m) /\ pc' = [pc EXCEPT ![t] = "failed"]
  BY DEF StoreReply, Goto, turnVars, m
<1>3. AnswersInOrder'
  BY <1>1, <1>2, StoreEffect, OrderKept
<1>4. CASE pc' = [pc EXCEPT ![t] = "failed"]
  BY <1>2, <1>3, <1>4, FailedStep DEF Running, Ended
<1>5. CASE Store(m) /\ pc' = [pc EXCEPT ![t] = IF calls = <<>> THEN "finish" ELSE "execute"]
  <2>1. session' /\ messages' = Append(messages, m)
    BY <1>2, <1>5 DEF Store, TurnInv, StoreInv
  <2>2. /\ Len(messages) \in Nat
        /\ DOMAIN messages = 1..Len(messages)
        /\ DOMAIN messages' = 1..(Len(messages) + 1)
        /\ \A i \in 1..Len(messages) : messages'[i] = messages[i]
        /\ messages'[Len(messages) + 1] = m
    BY <1>1, <2>1, AppendEffect
  <2>3. /\ AllAnswered(t) /\ ~HasAnswer(t) /\ done[t] = 0
        /\ round[t] > 0 /\ calls = CallIds(t, round[t], Len(calls))
    BY <1>2 DEF TurnInv, StoreInv, LocalsInv, Working
  <2>4. RowsInv(t)'
    BY <1>2, RunningHasNoRow DEF RowsInv, Running, Ended
  <2>5. CASE calls = <<>>
    <3>1. pc'[t] = "finish"
      BY <1>5, <2>5 DEF TypeOK
    <3>2. AllAnswered(t)'
      BY <1>1, <2>2, <2>3, <2>5 DEF AllAnswered, Answers
    <3>3. HasAnswer(t)'
      BY <1>1, <2>2, <2>5 DEF HasAnswer
    <3> QED
      BY <1>3, <2>1, <2>4, <3>1, <3>2, <3>3 DEF TurnInv, LocalsInv, StoreInv, Working
  <2>6. CASE calls # <<>>
    <3>1. pc'[t] = "execute" /\ done'[t] = 0 /\ reply'[t] = reply[t] /\ round'[t] = round[t]
      BY <1>2, <1>5, <2>3, <2>6 DEF TypeOK
    <3>2. Len(calls) \in Nat /\ Len(calls) > 0 /\ DOMAIN calls = 1..Len(calls)
      BY <1>1, <2>6
    <3>3. ~HasAnswer(t)'
      BY <1>1, <2>2, <2>3, <2>6 DEF HasAnswer
    <3>4. Position(t)'
      <4>1. Len(messages) + 1 \in DOMAIN messages'
        BY <2>2
      <4> QED
        BY <1>1, <2>2, <3>1, <4>1 DEF Position
    <3>5. Pending(t)'
      <4> SUFFICES ASSUME NEW i \in DOMAIN messages', messages'[i].turn = t,
                          messages'[i].role = "assistant", NEW k \in DOMAIN messages'[i].calls
                   PROVE  \/ \E j \in DOMAIN messages' : Answers(messages'[j], messages'[i].calls[k])
                          \/ \E n \in 1..Len(calls) : messages'[i].calls[k] = calls[n]
        BY <3>1 DEF Pending
      <4>1. CASE i = Len(messages) + 1
        BY <1>1, <2>2, <3>2, <4>1
      <4>2. CASE i \in DOMAIN messages
        BY <2>2, <2>3, <4>2 DEF AllAnswered
      <4> QED
        BY <2>2, <4>1, <4>2
    <3>6. LocalsInv(t)'
      BY <2>3, <3>1, <3>2 DEF LocalsInv, Working, CallIds
    <3>7. StoreInv(t)'
      BY <2>1, <3>1, <3>3, <3>4, <3>5 DEF StoreInv, Working
    <3> QED
      BY <1>3, <2>4, <3>6, <3>7 DEF TurnInv
  <2> QED
    BY <2>5, <2>6
<1> QED
  BY <1>2, <1>4, <1>5

\* The result stored now has its response, or the previous result, right before it.
LEMMA ResultInPlace ==
    ASSUME TypeOK, NEW t \in Turns, TurnInv(t), pc[t] = "results",
           NEW c \in CallId, c = reply[t].calls[done[t] + 1],
           messages' = Append(messages, ToolMessage(t, c)),
           NEW n, n = Len(messages) + 1
    PROVE  InPlace(n)'
<1> DEFINE calls == reply[t].calls
           m == ToolMessage(t, c)
<1>1. /\ m \in Message /\ m.turn = t /\ m.role = "tool" /\ m.calls[1] = c
  <2>1. <<c>> \in Seq(CallId)
    OBVIOUS
  <2> QED
    BY <2>1 DEF ToolMessage, Message
<1>2. /\ Len(messages) \in Nat
      /\ DOMAIN messages = 1..Len(messages)
      /\ \A k \in 1..Len(messages) : messages'[k] = messages[k]
      /\ messages'[n] = m
  BY <1>1, AppendEffect
<1> HIDE DEF m
<1>3. PICK j \in DOMAIN messages :
         /\ messages[j].turn = t
         /\ \A k \in DOMAIN messages : k > j => messages[k].turn # t
         /\ done[t] = 0 => messages[j].role = "assistant" /\ messages[j].calls = calls
         /\ done[t] > 0 => Answers(messages[j], calls[done[t]])
  BY DEF TurnInv, StoreInv, Working, Position
<1>4. j \in 1..Len(messages) /\ messages'[j] = messages[j]
  BY <1>2, <1>3
<1>5. \A k \in (j + 1)..Len(messages) : messages'[k].turn # t
  BY <1>2, <1>3, <1>4
<1>6. \/ messages'[j].role = "assistant" /\ messages'[j].calls[1] = c
      \/ Answers(messages'[j], <<c[1], c[2], c[3] - 1>>)
  <2>1. /\ done[t] \in Nat /\ Len(calls) \in Nat /\ done[t] < Len(calls)
        /\ calls = CallIds(t, round[t], Len(calls))
    BY BoundsAssumption DEF TypeOK, TurnInv, LocalsInv, Working
  <2>2. \A i \in 1..Len(calls) : calls[i] = <<t, round[t], i>>
    <3> HIDE DEF calls
    <3>1. \A i \in 1..Len(calls) : CallIds(t, round[t], Len(calls))[i] = <<t, round[t], i>>
      BY DEF CallIds
    <3> QED
      BY <2>1, <3>1
  <2>3. CASE done[t] = 0
    BY <1>3, <1>4, <2>3
  <2>4. CASE done[t] > 0
    <3>1. done[t] \in 1..Len(calls) /\ done[t] + 1 \in 1..Len(calls)
      BY <2>1, <2>4
    <3>2. c = <<t, round[t], done[t] + 1>> /\ calls[done[t]] = <<t, round[t], done[t]>>
      BY <2>2, <3>1
    <3>3. c[1] = t /\ c[2] = round[t] /\ c[3] - 1 = done[t]
      BY <2>1, <3>2
    <3>4. calls[done[t]] = <<c[1], c[2], c[3] - 1>>
      BY <3>2, <3>3
    <3> QED
      BY <1>3, <1>4, <2>4, <3>4
  <2>5. done[t] = 0 \/ done[t] > 0
    BY <2>1
  <2> QED
    BY <2>3, <2>4, <2>5, Zenon
<1>7. /\ j \in 1..(n - 1)
      /\ messages'[j].turn = messages'[n].turn
      /\ \A k \in (j + 1)..(n - 1) : messages'[k].turn # messages'[n].turn
      /\ messages'[n].calls[1] = c
  BY <1>1, <1>2, <1>3, <1>4, <1>5
<1>8. \E i \in 1..(n - 1) :
         /\ messages'[i].turn = messages'[n].turn
         /\ \A k \in (i + 1)..(n - 1) : messages'[k].turn # messages'[n].turn
         /\ \/ messages'[i].role = "assistant" /\ messages'[i].calls[1] = messages'[n].calls[1]
            \/ Answers(messages'[i], <<messages'[n].calls[1][1], messages'[n].calls[1][2],
                                       messages'[n].calls[1][3] - 1>>)
  BY <1>6, <1>7
<1> QED
  BY <1>8 DEF InPlace, Answers

LEMMA StoreResultStep ==
    ASSUME TypeOK, AnswersInOrder, NEW t \in Turns, TurnInv(t), StoreResult(t)
    PROVE  TurnInv(t)' /\ AnswersInOrder'
<1> DEFINE calls == reply[t].calls
           k == done[t] + 1
           c == calls[k]
           m == ToolMessage(t, c)
<1>0. PICK n : n = Len(messages) + 1
  OBVIOUS
<1>1. /\ pc[t] = "results" /\ session
      /\ calls \in Seq(CallId) /\ Len(calls) \in Nat
      /\ done[t] \in Nat /\ done[t] < Len(calls)
      /\ calls = CallIds(t, round[t], Len(calls))
      /\ round[t] \in 0..MaxToolCalls /\ round[t] > 0
      /\ MaxToolCalls \in Nat
  BY BoundsAssumption, MaxToolCallsAssumption
     DEF StoreResult, TypeOK, TurnInv, LocalsInv, StoreInv, Working
<1>2. k \in 1..Len(calls) /\ c \in CallId
  BY <1>1
<1>3. /\ m \in Message /\ m.turn = t /\ m.role = "tool" /\ m.calls[1] = c
  BY <1>1, <1>2, MessageTypes DEF ToolMessage
<1>4. /\ UNCHANGED <<round, reply, history>>
      /\ \/ /\ Store(m)
            /\ done' = [done EXCEPT ![t] = k]
            /\ pc' = [pc EXCEPT ![t] = AfterResult(t, k)]
         \/ FailToStore(m) /\ pc' = [pc EXCEPT ![t] = "failed"] /\ done' = done
  BY DEF StoreResult, Goto
<1>5. Running(t)
  BY <1>1 DEF Running, Ended
<1>6. ASSUME messages' = Append(messages, m) PROVE AnswersInOrder'
  <2>1. InPlace(n)'
    BY <1>0, <1>1, <1>2, <1>6, ResultInPlace
  <2>2. \A i \in DOMAIN messages : InPlace(i) => InPlace(i)'
    BY <1>3, <1>6, InPlaceKept
  <2> HIDE DEF m
  <2>3. /\ DOMAIN messages' = 1..n /\ DOMAIN messages = 1..Len(messages)
        /\ \A i \in 1..Len(messages) : messages'[i] = messages[i]
        /\ Len(messages) \in Nat
    BY <1>0, <1>3, <1>6, AppendEffect
  <2> QED
    BY <1>0, <2>1, <2>2, <2>3 DEF AnswersInOrder
<1>7. AnswersInOrder'
  <2> HIDE DEF m
  <2>1. CASE messages' = messages
    BY <2>1 DEF AnswersInOrder, InPlace
  <2> QED
    BY <1>3, <1>4, <1>6, <2>1, StoreEffect
<1>8. CASE pc' = [pc EXCEPT ![t] = "failed"] /\ done' = done
  BY <1>4, <1>5, <1>7, <1>8, FailedStep
<1>9. CASE /\ Store(m)
           /\ done' = [done EXCEPT ![t] = k]
           /\ pc' = [pc EXCEPT ![t] = AfterResult(t, k)]
  <2> HIDE DEF m, c
  <2>1. session' /\ messages' = Append(messages, m)
    BY <1>1, <1>3, <1>9 DEF Store
  <2>2. /\ Len(messages) \in Nat
        /\ DOMAIN messages = 1..Len(messages)
        /\ DOMAIN messages' = 1..n
        /\ \A i \in 1..Len(messages) : messages'[i] = messages[i]
        /\ messages'[n] = m
    BY <1>0, <1>3, <2>1, AppendEffect
  <2>3. pc'[t] = AfterResult(t, k) /\ done'[t] = k /\ reply'[t] = reply[t] /\ round'[t] = round[t]
    BY <1>4, <1>9 DEF TypeOK
  <2>4. Pending(t) /\ ~HasAnswer(t)
    BY <1>1 DEF TurnInv, StoreInv, Working
  <2>5. ~HasAnswer(t)'
    BY <1>0, <1>3, <2>2, <2>4 DEF HasAnswer
  <2>6. ASSUME NEW i \in DOMAIN messages', messages'[i].turn = t, messages'[i].role = "assistant",
               NEW l \in DOMAIN messages'[i].calls
        PROVE  \/ \E j \in DOMAIN messages' : Answers(messages'[j], messages'[i].calls[l])
               \/ \E o \in (k + 1)..Len(calls) : messages'[i].calls[l] = calls[o]
    <3>1. i \in DOMAIN messages /\ messages'[i] = messages[i]
      BY <1>0, <1>3, <2>2, <2>6
    <3>2. CASE \E j \in DOMAIN messages : Answers(messages[j], messages[i].calls[l])
      BY <1>0, <2>2, <3>1, <3>2
    <3>3. ASSUME NEW o \in k..Len(calls), messages[i].calls[l] = calls[o]
          PROVE  \/ \E j \in DOMAIN messages' : Answers(messages'[j], messages'[i].calls[l])
                 \/ \E p \in (k + 1)..Len(calls) : messages'[i].calls[l] = calls[p]
      <4>1. CASE o = k
        <5>1. Answers(messages'[n], messages'[i].calls[l])
          BY <1>3, <2>2, <3>1, <3>3, <4>1 DEF Answers, c
        <5> QED
          BY <1>0, <2>2, <5>1
      <4>2. CASE o # k
        <5>1. o \in (k + 1)..Len(calls)
          BY <1>1, <1>2, <4>2
        <5> QED
          BY <3>1, <3>3, <5>1
      <4> QED
        BY <4>1, <4>2
    <3>4. \/ \E j \in DOMAIN messages : Answers(messages[j], messages[i].calls[l])
          \/ \E o \in k..Len(calls) : messages[i].calls[l] = calls[o]
      BY <2>4, <2>6, <3>1 DEF Pending
    <3> QED
      BY <3>2, <3>3, <3>4
  <2>7. Pending(t)'
    BY <2>3, <2>6 DEF Pending
  <2>8. RowsInv(t)'
    BY <1>4, <1>5, RunningHasNoRow DEF RowsInv
  <2>9. CASE k < Len(calls)
    <3>1. pc'[t] = "results"
      BY <2>3, <2>9 DEF AfterResult
    <3>2. Position(t)'
      <4>1. n \in DOMAIN messages' /\ \A i \in DOMAIN messages' : ~(i > n)
        BY <1>0, <2>2
      <4>2. messages'[n].turn = t /\ Answers(messages'[n], reply'[t].calls[done'[t]])
        BY <1>3, <2>2, <2>3 DEF Answers, c
      <4>3. done'[t] # 0
        BY <1>1, <2>3
      <4> QED
        BY <4>1, <4>2, <4>3 DEF Position
    <3>3. LocalsInv(t)'
      BY <1>1, <2>3, <2>9, <3>1 DEF LocalsInv, Working, CallIds
    <3>4. StoreInv(t)'
      BY <2>1, <2>5, <2>7, <3>1, <3>2 DEF StoreInv, Working
    <3> QED
      BY <1>7, <2>8, <3>3, <3>4 DEF TurnInv
  <2>10. CASE ~(k < Len(calls))
    <3>1. pc'[t] = IF round[t] < MaxToolCalls THEN "read" ELSE "exhaust"
      BY <2>3, <2>10 DEF AfterResult
    <3>2. (k + 1)..Len(calls) = {}
      BY <1>1, <2>10
    <3>3. AllAnswered(t)'
      BY <2>6, <3>2 DEF AllAnswered
    <3>4. LocalsInv(t)'
      BY <1>1, <2>3, <3>1 DEF LocalsInv, Working
    <3>5. StoreInv(t)'
      BY <2>1, <2>5, <3>1, <3>3 DEF StoreInv, Working
    <3> QED
      BY <1>7, <2>8, <3>4, <3>5 DEF TurnInv
  <2> QED
    BY <2>9, <2>10
<1> QED
  BY <1>4, <1>8, <1>9

LEMMA FinishStep ==
    ASSUME TypeOK, NEW t \in Turns, TurnInv(t), Finish(t)
    PROVE  TurnInv(t)' /\ UNCHANGED messages
<1> DEFINE row == [turn |-> t, at |-> startedAt[t], status |-> "complete", answer |-> reply[t].text]
<1>1. row \in Row /\ row.turn = t /\ row.status = "complete"
  BY RowType DEF TypeOK
<1>2. /\ pc[t] = "finish" /\ UNCHANGED <<round, reply, done, session, messages>>
      /\ \/ Upsert(row) /\ pc' = [pc EXCEPT ![t] = "answered"]
         \/ FailToUpsert(row) /\ pc' = [pc EXCEPT ![t] = "failed"]
  BY DEF Finish, Goto, turnVars
<1> HIDE DEF row
<1>3. /\ pc'[t] \in {"answered", "failed"}
      /\ pc'[t] = "answered" => \E r \in history' : r.turn = t /\ r.status = "complete"
  <2>1. CASE Upsert(row) /\ pc' = [pc EXCEPT ![t] = "answered"]
    <3>1. \E r \in history' : r.turn = t /\ r.status = "complete"
      BY <1>1, <2>1, UpsertEffect
    <3> QED
      BY <2>1, <3>1 DEF TypeOK
  <2>2. CASE pc' = [pc EXCEPT ![t] = "failed"]
    BY <2>2 DEF TypeOK
  <2> QED
    BY <1>2, <2>1, <2>2
<1>4. /\ AllAnswered(t)' /\ HasAnswer(t)' /\ session'
  BY <1>2 DEF TurnInv, StoreInv, Working, AllAnswered, HasAnswer
<1>5. \A r \in history' : r.turn = t => r.status = "complete"
  BY <1>1, <1>2, UpsertEffect, RunningHasNoRow DEF Running, Ended
<1>6. LocalsInv(t)' /\ StoreInv(t)' /\ RowsInv(t)'
  BY <1>3, <1>4, <1>5 DEF LocalsInv, StoreInv, RowsInv, Working
<1> QED
  BY <1>2, <1>6 DEF TurnInv

LEMMA ExhaustStep ==
    ASSUME TypeOK, NEW t \in Turns, TurnInv(t), Exhaust(t)
    PROVE  TurnInv(t)' /\ UNCHANGED messages
<1> DEFINE row == [turn |-> t, at |-> startedAt[t], status |-> "incomplete", answer |-> FALSE]
<1>1. row \in Row /\ row.turn = t /\ row.status = "incomplete"
  BY RowType
<1>2. /\ pc[t] = "exhaust" /\ UNCHANGED <<round, reply, done, session, messages>>
      /\ Upsert(row) \/ FailToUpsert(row)
      /\ pc' = [pc EXCEPT ![t] = "exhausted"]
  BY DEF Exhaust, Goto, turnVars
<1> HIDE DEF row
<1>3. pc'[t] = "exhausted" /\ round'[t] = round[t] /\ round[t] = MaxToolCalls
  BY <1>2 DEF TypeOK, TurnInv, LocalsInv
<1>4. /\ AllAnswered(t)' /\ ~HasAnswer(t)' /\ session'
  BY <1>2 DEF TurnInv, StoreInv, Working, AllAnswered, HasAnswer
<1>5. \A r \in history' : r.turn = t => r.status = "incomplete"
  BY <1>1, <1>2, UpsertEffect, RunningHasNoRow DEF Running, Ended
<1>6. LocalsInv(t)' /\ StoreInv(t)' /\ RowsInv(t)'
  BY <1>3, <1>4, <1>5 DEF LocalsInv, StoreInv, RowsInv, Working
<1> QED
  BY <1>2, <1>6 DEF TurnInv

----
\* The theorems.

LEMMA InvStep ==
    ASSUME IInv, [Next]_vars
    PROVE  IInv'
<1>1. TypeOK /\ AnswersInOrder /\ \A t \in Turns : LocalsInv(t) /\ TurnInv(t)
  BY DEF IInv, TurnInv
<1>2. TypeOK'
  BY <1>1, TypeStep
<1>3. ASSUME NEW t \in Turns, Acts(t) PROVE IInv'
  <2>1. TurnInv(t)
    BY <1>1
  <2>2. TurnInv(t)' /\ AnswersInOrder'
    <3>1. ASSUME UNCHANGED messages PROVE AnswersInOrder'
      BY <1>1, <3>1 DEF AnswersInOrder, InPlace
    <3>2. CASE \/ Begin(t) \/ FailPrompt(t) \/ ReadMessages(t) \/ ReadHistory(t)
               \/ FailComplete(t) \/ Execute(t) \/ FailExecute(t)
      BY <1>1, <2>1, <3>1, <3>2, MoveSteps
    <3>3. CASE StoreQuestion(t)
      BY <1>1, <2>1, <3>3, StoreQuestionStep
    <3>4. CASE Complete(t)
      BY <1>1, <2>1, <3>1, <3>4, CompleteStep
    <3>5. CASE StoreReply(t)
      BY <1>1, <2>1, <3>5, StoreReplyStep
    <3>6. CASE StoreResult(t)
      BY <1>1, <2>1, <3>6, StoreResultStep
    <3>7. CASE Finish(t)
      BY <1>1, <2>1, <3>1, <3>7, FinishStep
    <3>8. CASE Exhaust(t)
      BY <1>1, <2>1, <3>1, <3>8, ExhaustStep
    <3> QED
      BY <1>3, <3>2, <3>3, <3>4, <3>5, <3>6, <3>7, <3>8 DEF Acts, Chat
  <2>3. ASSUME NEW u \in Turns, u # t PROVE TurnInv(u)'
    <3>1. Undisturbed(u)
      BY <1>1, <1>3, <2>3, OthersUndisturbed
    <3> QED
      BY <1>1, <3>1, UndisturbedInv DEF TurnInv
  <2>4. \A u \in Turns : TurnInv(u)'
    BY <2>2, <2>3
  <2> QED
    BY <1>2, <2>2, <2>4 DEF IInv, TurnInv
<1>4. ASSUME UNCHANGED <<pc, turnVars, storeVars>> PROVE IInv'
  <2>1. AnswersInOrder'
    BY <1>1, <1>4 DEF storeVars, AnswersInOrder, InPlace
  <2>2. ASSUME NEW u \in Turns PROVE TurnInv(u)'
    <3>1. Undisturbed(u)
      BY <1>4 DEF Undisturbed, turnVars, storeVars
    <3> QED
      BY <1>1, <3>1, UndisturbedInv DEF TurnInv
  <2> QED
    BY <1>2, <2>1, <2>2 DEF IInv, TurnInv
<1> QED
  BY <1>3, <1>4 DEF Next, Acts, Tick, Quiet, vars

\* The invariant holds in every reachable state.
THEOREM Invariant == Spec => []IInv
<1>1. Init => IInv
  BY InitInv
<1>2. IInv /\ [Next]_vars => IInv'
  BY InvStep
<1> QED
  BY <1>1, <1>2, PTL DEF Spec

\* Every variable keeps its type; no turn exceeds its budget of LLM calls.
THEOREM TypeCorrect == Spec => []TypeOK
<1>1. IInv => TypeOK
  BY DEF IInv
<1> QED
  BY <1>1, Invariant, PTL

\* storeToolResultEvents stores the results of a response in the order of its
\* calls and right behind it, whatever other turns of the session do meanwhile and
\* whichever call fails.
THEOREM OrderCorrect == Spec => []AnswersInOrder
<1>1. IInv => AnswersInOrder
  BY DEF IInv
<1> QED
  BY <1>1, Invariant, PTL

\* Chat never calls the LLM again with a tool result of the turn still missing.
THEOREM AnsweredCorrect == Spec => []AnsweredBeforeNextCall
<1>1. IInv => AnsweredBeforeNextCall
  BY DEF IInv, StoreInv, Working, AnsweredBeforeNextCall
<1> QED
  BY <1>1, Invariant, PTL

\* The history rows agree with the stored messages and with what Chat returned.
THEOREM LedgerCorrect == Spec => []LedgerMatchesMessages
<1>1. ASSUME IInv PROVE LedgerMatchesMessages
  <2>1. \A r \in history : r.turn \in Turns
    BY <1>1 DEF IInv, TypeOK, Row
  <2>2. ASSUME NEW r \in history
        PROVE  /\ AllAnswered(r.turn)
               /\ r.status = "complete" => HasAnswer(r.turn) /\ pc[r.turn] \in {"answered", "failed"}
               /\ r.status = "incomplete" =>
                     /\ ~HasAnswer(r.turn)
                     /\ round[r.turn] = MaxToolCalls
                     /\ pc[r.turn] = "exhausted"
    BY <1>1, <2>1 DEF IInv, RowsInv
  <2>3. \A t \in Turns : pc[t] = "answered" => \E r \in history : r.turn = t /\ r.status = "complete"
    BY <1>1 DEF IInv, StoreInv
  <2> QED
    BY <2>2, <2>3 DEF LedgerMatchesMessages
<1> QED
  BY <1>1, Invariant, PTL

----
\* Chat implements TurnLedger, step by step.

HasRow(t) == \E r \in history : r.turn = t

\* What is recorded of a turn follows from where it is.
RecordedAs ==
    \A t \in Turns :
        Recorded(t) = IF ~HasRow(t) THEN "none"
                      ELSE IF pc[t] = "exhausted" THEN "incomplete" ELSE "complete"

LEMMA RecordedByPhase == IInv => RecordedAs
<1> SUFFICES ASSUME IInv, NEW t \in Turns
             PROVE  Recorded(t) = IF ~HasRow(t) THEN "none"
                                  ELSE IF pc[t] = "exhausted" THEN "incomplete" ELSE "complete"
  BY DEF RecordedAs
<1>1. CASE ~HasRow(t)
  BY <1>1 DEF HasRow, Recorded
<1>2. CASE HasRow(t)
  <2> DEFINE row == CHOOSE r \in history : r.turn = t
  <2>1. row \in history /\ row.turn = t
    BY <1>2 DEF HasRow
  <2>2. row.status \in {"complete", "incomplete"}
    BY <2>1 DEF IInv, TypeOK, Row
  <2>3. Recorded(t) = row.status
    BY <1>2 DEF HasRow, Recorded
  <2> HIDE DEF row
  <2>4. RowsInv(t)
    BY DEF IInv
  <2> QED
    BY <1>2, <2>1, <2>2, <2>3, <2>4 DEF RowsInv
<1> QED
  BY <1>1, <1>2

RecordsInv ==
    \A t \in Turns :
        /\ Idle(t) \/ Running(t) => Recorded(t) = "none"
        /\ pc[t] = "answered" => Recorded(t) = "complete"
        /\ pc[t] = "exhausted" => Recorded(t) \in {"none", "incomplete"}
        /\ pc[t] = "failed" => Recorded(t) \in {"none", "complete"}

LEMMA RecordedInPhase == IInv => RecordsInv
<1> SUFFICES ASSUME IInv, NEW t \in Turns
             PROVE  /\ Idle(t) \/ Running(t) => Recorded(t) = "none"
                    /\ pc[t] = "answered" => Recorded(t) = "complete"
                    /\ pc[t] = "exhausted" => Recorded(t) \in {"none", "incomplete"}
                    /\ pc[t] = "failed" => Recorded(t) \in {"none", "complete"}
  BY DEF RecordsInv
<1>1. RowsInv(t) /\ StoreInv(t)
  BY DEF IInv
<1>2. Idle(t) \/ Running(t) => ~HasRow(t)
  <2> SUFFICES ASSUME Idle(t) \/ Running(t), NEW r \in history, r.turn = t PROVE FALSE
    BY DEF HasRow
  <2>1. r.status \in {"complete", "incomplete"}
    BY DEF IInv, TypeOK, Row
  <2> QED
    BY <1>1, <2>1 DEF RowsInv, Idle, Running, Ended
<1>3. pc[t] = "answered" => HasRow(t)
  BY <1>1 DEF StoreInv, HasRow
<1> QED
  BY <1>2, <1>3, RecordedByPhase DEF RecordedAs

LEMMA RecordedByPhaseNext == IInv' => RecordedAs'
  BY RecordedByPhase, PTL

LEMMA RecordedInPhaseNext == IInv' => RecordsInv'
  BY RecordedInPhase, PTL

\* A step of Chat starts an idle turn or moves a running one.
LEMMA ActsFrom ==
    ASSUME TypeOK, NEW t \in Turns, Acts(t)
    PROVE  /\ \/ Idle(t) /\ pc'[t] \in {"ask", "failed"} /\ history' = history
              \/ Running(t)
           /\ pc'[t] # "idle"
<1>1. CASE Begin(t) \/ FailPrompt(t)
  BY <1>1 DEF Begin, FailPrompt, Goto, Idle, TypeOK, storeVars
<1>2. CASE Chat(t)
  <2>1. Running(t)
    BY <1>2 DEF Chat, StoreQuestion, ReadMessages, ReadHistory, Complete, FailComplete, StoreReply,
                Execute, FailExecute, StoreResult, Finish, Exhaust, Running, Ended
  <2>2. \E label \in Label \ {"idle"} : Goto(t, label)
    BY <1>2 DEF Chat, StoreQuestion, ReadMessages, ReadHistory, Complete, FailComplete, StoreReply,
                Execute, FailExecute, StoreResult, AfterResult, Finish, Exhaust, Label, Ended
  <2> QED
    BY <2>1, <2>2 DEF Goto, TypeOK
<1> QED
  BY <1>1, <1>2 DEF Acts

\* The step of the ledger that a step of turn t is.
LEMMA LedgerMove ==
    ASSUME IInv, IInv', NEW t \in Turns, Acts(t)
    PROVE  \/ Phase(t) = "new" /\ Phase(t)' = "open" /\ Recorded(t)' = "none"
           \/ Phase(t) = "new" /\ Phase(t)' = "failed" /\ Recorded(t)' = "none"
           \/ Phase(t) = "open" /\ Phase(t)' = "answered" /\ Recorded(t)' = "complete"
           \/ Phase(t) = "open" /\ Phase(t)' = "exhausted" /\ Recorded(t)' \in {"none", "incomplete"}
           \/ Phase(t) = "open" /\ Phase(t)' = "failed" /\ Recorded(t)' \in {"none", "complete"}
           \/ Phase(t)' = Phase(t) /\ Recorded(t)' = Recorded(t)
<1>1. /\ Idle(t)' \/ Running(t)' => Recorded(t)' = "none"
      /\ pc'[t] = "answered" => Recorded(t)' = "complete"
      /\ pc'[t] = "exhausted" => Recorded(t)' \in {"none", "incomplete"}
      /\ pc'[t] = "failed" => Recorded(t)' \in {"none", "complete"}
  BY RecordedInPhaseNext DEF RecordsInv
<1>2. Idle(t) \/ Running(t) => Recorded(t) = "none"
  BY RecordedInPhase DEF RecordsInv
<1>3. CASE Idle(t) /\ pc'[t] \in {"ask", "failed"} /\ history' = history
  <2>1. Recorded(t)' = Recorded(t)
    BY <1>3 DEF Recorded
  <2> QED
    BY <1>2, <1>3, <2>1 DEF Phase, Idle, Running, Ended
<1>4. CASE Running(t) /\ pc'[t] # "idle"
  BY <1>1, <1>2, <1>4 DEF Phase, Idle, Running, Ended
<1> QED
  BY <1>3, <1>4, ActsFrom DEF IInv

\* Chat implements TurnLedger step by step: a turn is recorded at most once, in the
\* step that ends it, and as what its caller is told.  (That every turn which was
\* opened ends is liveness, checked by TLC.)
THEOREM LedgerSimulated == Spec => Ledger!Init /\ [][Ledger!Next]_Ledger!vars
<1>1. Init => Ledger!Init
  <2> SUFFICES ASSUME Init PROVE Ledger!Init
    OBVIOUS
  <2>1. ASSUME NEW t \in Turns PROVE Phase(t) = "new" /\ Recorded(t) = "none"
    <3>1. pc[t] = "idle" /\ history = {}
      BY DEF Init
    <3> QED
      BY <3>1 DEF Phase, Idle, Ended, Recorded
  <2> QED
    BY <2>1 DEF Ledger!Init
<1>2. ASSUME IInv, IInv', [Next]_vars PROVE [Ledger!Next]_Ledger!vars
  <2> DEFINE phase == [u \in Turns |-> Phase(u)]
             ledger == [u \in Turns |-> Recorded(u)]
  <2>1. ASSUME NEW t \in Turns, Acts(t) PROVE [Ledger!Next]_Ledger!vars
    <3>1. ASSUME NEW u \in Turns, u # t PROVE Phase(u)' = Phase(u) /\ Recorded(u)' = Recorded(u)
      <4>1. Undisturbed(u)
        BY <1>2, <2>1, <3>1, OthersUndisturbed DEF IInv
      <4>2. pc'[u] = pc[u] /\ HasRow(u)' = HasRow(u)
        BY <4>1 DEF Undisturbed, HasRow
      <4>3. Recorded(u)' = Recorded(u)
        BY <1>2, <4>2, RecordedByPhase, RecordedByPhaseNext DEF RecordedAs
      <4> QED
        BY <4>2, <4>3 DEF Phase, Idle, Running
    <3>2. /\ phase' = [phase EXCEPT ![t] = Phase(t)']
          /\ ledger' = [ledger EXCEPT ![t] = Recorded(t)']
      BY <3>1
    <3>3. phase[t] = Phase(t) /\ ledger[t] = Recorded(t)
      OBVIOUS
    <3> HIDE DEF phase, ledger
    <3> DEFINE from == Phase(t)
               to == Phase(t)'
               record == Recorded(t)'
    <3>4. CASE from = "new" /\ to = "open" /\ record = "none"
      BY <3>2, <3>3, <3>4 DEF Ledger!Next, Ledger!Open, Ledger!Step, phase, ledger
    <3>5. CASE from = "new" /\ to = "failed" /\ record = "none"
      BY <3>2, <3>3, <3>5 DEF Ledger!Next, Ledger!Refuse, Ledger!Step, phase, ledger
    <3>6. CASE from = "open" /\ to = "answered" /\ record = "complete"
      BY <3>2, <3>3, <3>6 DEF Ledger!Next, Ledger!Close, Ledger!Answer, Ledger!Step, phase, ledger
    <3>7. CASE from = "open" /\ to = "exhausted" /\ record \in {"none", "incomplete"}
      BY <3>2, <3>3, <3>7 DEF Ledger!Next, Ledger!Close, Ledger!GiveUp, Ledger!Step, phase, ledger
    <3>8. CASE from = "open" /\ to = "failed" /\ record \in {"none", "complete"}
      BY <3>2, <3>3, <3>8 DEF Ledger!Next, Ledger!Close, Ledger!Fail, Ledger!Step, phase, ledger
    <3>9. CASE to = from /\ record = Recorded(t)
      <4>1. phase' = phase /\ ledger' = ledger
        BY <3>2, <3>3, <3>9 DEF phase, ledger
      <4> QED
        BY <4>1 DEF Ledger!vars, phase, ledger
    <3> QED
      BY <1>2, <2>1, <3>4, <3>5, <3>6, <3>7, <3>8, <3>9, LedgerMove
  <2>2. CASE UNCHANGED <<pc, history>>
    BY <2>2 DEF Ledger!vars, Phase, Idle, Recorded
  <2> QED
    BY <1>2, <2>1, <2>2 DEF Next, Acts, Tick, Quiet, vars, storeVars
<1> QED
  BY <1>1, <1>2, Invariant, PTL DEF Spec

----
\* The contexts: what the LLM is shown of its own turn and of the others.

\* What the reads of turn t have made of the store: its own messages as they are
\* stored, and in a lean context nothing of a turn without a row.
ViewInv(t) ==
    /\ context[t] \in Seq(Message)
    /\ pc[t] \notin {"history", "complete"} => snapshot[t] = <<>> /\ context[t] = <<>>
    /\ pc[t] = "history" => context[t] = <<>> /\ OfTurn(snapshot[t], t) = OfTurn(messages, t)
    /\ pc[t] = "complete" => Blind(t) \/ OfTurn(context[t], t) = OfTurn(messages, t)
    /\ pc[t] = "complete" /\ contextFull = 0 /\ Selected(t) =>
          \A i \in DOMAIN context[t] :
              context[t][i].turn = t \/ \E r \in history : r.turn = context[t][i].turn

\* There are finitely many rows, one per turn.
HistoryInv == IsFiniteSet(history) /\ \A r, s \in history : r.turn = s.turn => r = s

\* When turns do not overlap, what a turn has read is still what is stored.
SerialInv ==
    ~Concurrent =>
        /\ \A t, u \in Turns : Running(t) /\ Running(u) => t = u
        /\ \A t \in Turns : pc[t] = "history" => snapshot[t] = messages
        /\ HistoryCovered

ContextInv ==
    /\ IInv
    /\ HistoryInv
    /\ SerialInv
    /\ \A t \in Turns : ViewInv(t)

LEMMA SummariesAreMessages == Summarises(Message, Row)
<1>1. ASSUME NEW r \in Row
      PROVE  UserMessage(r.turn) \in Message /\ AssistantMessage(r.turn, <<>>) \in Message
  BY DEF Row, Message, UserMessage, AssistantMessage
<1> QED
  BY <1>1 DEF Summarises, Row

\* The history as it is read: every row once.
LEMMA ReadRows ==
    ASSUME TypeOK, HistoryInv, NEW rows \in HistoryTurns
    PROVE  /\ rows \in Seq(Row) /\ OneRowEach(rows)
           /\ \A r \in history : \E k \in DOMAIN rows : rows[k] = r
           /\ \A k \in DOMAIN rows : rows[k] \in history
<1>1. rows \in SetToSeqs(history) /\ IsFiniteSet(history) /\ history \subseteq Row
  BY DEF HistoryTurns, HistoryInv, TypeOK
<1>2. /\ rows \in Seq(history)
      /\ \A r \in history : \E k \in DOMAIN rows : rows[k] = r
      /\ \A i, j \in DOMAIN rows : rows[i] = rows[j] => i = j
  BY <1>1, OrderOf
<1>3. \A k \in DOMAIN rows : rows[k] \in history
  BY <1>2
<1> QED
  BY <1>1, <1>2, <1>3 DEF OneRowEach, HistoryInv

\* The context that both reads of a turn make, of each other turn.
LEMMA ReadContext ==
    ASSUME TypeOK, HistoryInv, NEW t \in Turns, ~(contextFull < 0), NEW rows \in HistoryTurns,
           NEW c \in BuildContextMessages(snapshot[t], rows, t, contextFull)
    PROVE  /\ c \in Seq(Message)
           /\ OfTurn(c, t) = OfTurn(snapshot[t], t)
           /\ \A r \in history : r.turn # t =>
                 OfTurn(c, r.turn) \in {Summary(r), OfTurn(snapshot[t], r.turn)}
           /\ contextFull = 0 =>
                 \A i \in DOMAIN c : c[i].turn = t \/ \E r \in history : r.turn = c[i].turn
<1> DEFINE read == snapshot[t]
           full == contextFull
<1>1. read \in Seq(Message) /\ Summarises(Message, Row)
  BY SummariesAreMessages DEF TypeOK
<1>2. /\ rows \in Seq(Row) /\ OneRowEach(rows)
      /\ \A r \in history : \E k \in DOMAIN rows : rows[k] = r
      /\ \A k \in DOMAIN rows : rows[k] \in history
  BY ReadRows
<1>3. c \in BuildContextMessages(read, rows, t, full) /\ ~(full < 0)
  OBVIOUS
<1>4. ASSUME NEW u
      PROVE  /\ c \in Seq(Message)
             /\ OfTurn(c, t) = OfTurn(read, t)
             /\ \A k \in DOMAIN rows :
                   u = rows[k].turn /\ u \notin {t, NoTurn} /\ OneRowEach(rows)
                       => OfTurn(c, u) \in {Summary(rows[k]), OfTurn(read, u)}
             /\ full = 0 /\ u \notin {t, NoTurn} /\ (\A k \in DOMAIN rows : rows[k].turn # u)
                    => OfTurn(c, u) = <<>>
  <2> HIDE DEF read, full
  <2> QED
    BY <1>1, <1>2, <1>3, ContextOfTurn
<1>5. ASSUME NEW r \in history, r.turn # t
      PROVE  OfTurn(c, r.turn) \in {Summary(r), OfTurn(read, r.turn)}
  <2>1. PICK k \in DOMAIN rows : rows[k] = r
    BY <1>2
  <2>2. r.turn \notin {t, NoTurn}
    BY <1>5, TurnsAssumption DEF TypeOK, Row
  <2> QED
    BY <1>2, <1>4, <2>1, <2>2
<1>6. ASSUME full = 0, NEW i \in DOMAIN c, c[i].turn # t, \A r \in history : r.turn # c[i].turn
      PROVE  FALSE
  <2>1. c \in Seq(Message) /\ c[i] \in Message
    BY <1>4
  <2>2. c[i].turn \notin {t, NoTurn}
    BY <1>6, <2>1, TurnsAssumption DEF Message
  <2>3. OfTurn(c, c[i].turn) = <<>>
    BY <1>2, <1>4, <1>6, <2>2
  <2> QED
    BY <2>1, <2>3, OfTurnEmpty
<1> QED
  BY <1>4, <1>5, <1>6

\* A step keeps a row of every turn that has one, and one row per turn.
LEMMA HistoryStep ==
    ASSUME TypeOK, HistoryInv, NEW row \in Row, Upsert(row) \/ FailToUpsert(row)
    PROVE  HistoryInv'
<1>1. CASE UNCHANGED history
  BY <1>1 DEF HistoryInv
<1>2. CASE Upsert(row)
  <2> DEFINE same == {r \in history : r.turn = row.turn}
             new == [row EXCEPT !.answer = @ \/ \E r \in same : r.answer]
  <2>1. history' = (history \ same) \cup {new}
    BY <1>2 DEF Upsert
  <2>2. new.turn = row.turn
    BY DEF Row
  <2>3. IsFiniteSet(history \ same)
    BY FS_Subset DEF HistoryInv
  <2> HIDE DEF new
  <2>4. IsFiniteSet(history')
    BY <2>1, <2>3, FS_AddElement
  <2>5. \A r, s \in history' : r.turn = s.turn => r = s
    BY <2>1, <2>2 DEF HistoryInv
  <2> QED
    BY <2>4, <2>5 DEF HistoryInv
<1> QED
  BY <1>1, <1>2 DEF FailToUpsert

LEMMA RowsStep ==
    ASSUME IInv, HistoryInv, NEW t \in Turns, Acts(t)
    PROVE  HistoryInv' /\ \A r \in history : \E s \in history' : s.turn = r.turn
<1>0. TypeOK /\ TurnInv(t) /\ \A u \in Turns : LocalsInv(u)
  BY DEF IInv, TurnInv
<1>1. HistoryInv'
  <2>1. CASE Finish(t)
    <3> DEFINE row == [turn |-> t, at |-> startedAt[t], status |-> "complete", answer |-> reply[t].text]
    <3>1. row \in Row
      BY <1>0, RowType DEF TypeOK
    <3>2. Upsert(row) \/ FailToUpsert(row)
      BY <2>1 DEF Finish
    <3> HIDE DEF row
    <3> QED
      BY <1>0, <3>1, <3>2, HistoryStep
  <2>2. CASE Exhaust(t)
    <3> DEFINE row == [turn |-> t, at |-> startedAt[t], status |-> "incomplete", answer |-> FALSE]
    <3>1. row \in Row
      BY <1>0, RowType
    <3>2. Upsert(row) \/ FailToUpsert(row)
      BY <2>2 DEF Exhaust
    <3> HIDE DEF row
    <3> QED
      BY <1>0, <3>1, <3>2, HistoryStep
  <2>3. CASE UNCHANGED history
    BY <2>3 DEF HistoryInv
  <2> QED
    BY <2>1, <2>2, <2>3
       DEF Acts, Chat, Begin, FailPrompt, StoreQuestion, ReadMessages, ReadHistory, Complete,
           FailComplete, StoreReply, Execute, FailExecute, StoreResult, storeVars
<1>2. ASSUME NEW r \in history PROVE \E s \in history' : s.turn = r.turn
  <2>1. r.turn \in Turns
    BY <1>0 DEF TypeOK, Row
  <2>2. CASE r.turn # t
    <3>1. Undisturbed(r.turn)
      BY <1>0, <2>1, <2>2, OthersUndisturbed
    <3> QED
      BY <3>1 DEF Undisturbed
  <2>3. CASE r.turn = t
    <3>1. ~Running(t)
      BY <1>0, <2>3, RunningHasNoRow
    <3> QED
      BY <1>0, <3>1, ActsFrom
  <2> QED
    BY <2>2, <2>3
<1> QED
  BY <1>1, <1>2

\* A process keeps the mode it was started with.
LEMMA ModeKept ==
    ASSUME NEW t \in Turns, Acts(t)
    PROVE  contextFull' = contextFull
  BY DEF Acts, Chat, Begin, FailPrompt, StoreQuestion, ReadMessages, ReadHistory, Complete,
         FailComplete, StoreReply, Execute, FailExecute, StoreResult, Finish, Exhaust, ambientVars

\* What a turn has read is its own.
LEMMA ViewKept ==
    ASSUME IInv, DOMAIN context = Turns, NEW t \in Turns, Acts(t), NEW u \in Turns, u # t
    PROVE  pc'[u] = pc[u] /\ snapshot'[u] = snapshot[u] /\ context'[u] = context[u]
<1>1. TypeOK /\ \A w \in Turns : LocalsInv(w)
  BY DEF IInv
<1>2. Undisturbed(u)
  BY <1>1, OthersUndisturbed
<1>3. /\ snapshot' = snapshot \/ \E v : snapshot' = [snapshot EXCEPT ![t] = v]
      /\ context' = context \/ \E v : context' = [context EXCEPT ![t] = v]
  BY DEF Acts, Chat, Begin, FailPrompt, StoreQuestion, ReadMessages, ReadHistory, Complete,
         FailComplete, DropContext, StoreReply, Execute, FailExecute, StoreResult, Finish, Exhaust,
         viewVars
<1> QED
  BY <1>1, <1>2, <1>3 DEF Undisturbed, TypeOK

\* What a step of turn t does to the views of the others.
LEMMA ViewOfOthers ==
    ASSUME IInv, HistoryInv, NEW t \in Turns, Acts(t), NEW u \in Turns, u # t, ViewInv(u)
    PROVE  ViewInv(u)'
<1>1. TypeOK /\ \A w \in Turns : LocalsInv(w)
  BY DEF IInv
<1>2. Undisturbed(u) /\ contextFull' = contextFull
  BY <1>1, ModeKept, OthersUndisturbed
<1>4. pc'[u] = pc[u] /\ snapshot'[u] = snapshot[u] /\ context'[u] = context[u]
  BY <1>1, ViewKept DEF TypeOK
<1>5. OfTurn(messages', u) = OfTurn(messages, u)
  <2>1. CASE messages' = messages
    BY <2>1
  <2>2. ASSUME NEW m \in Message, m.turn # u, messages' = Append(messages, m)
        PROVE  OfTurn(messages', u) = OfTurn(messages, u)
    <3>1. messages \in Seq(Message)
      BY <1>1 DEF TypeOK
    <3>2. OfTurn(Append(messages, m), u) = OfTurn(messages, u)
      BY <2>2, <3>1, OfTurnAppend
    <3> QED
      BY <2>2, <3>2
  <2> QED
    BY <1>2, <2>1, <2>2 DEF Undisturbed
<1>6. \A r \in history : \E s \in history' : s.turn = r.turn
  BY RowsStep
<1> QED
  BY <1>2, <1>4, <1>5, <1>6 DEF ViewInv, Blind, Selected

\* What it does to its own.
LEMMA ViewOfOwn ==
    ASSUME TypeOK, HistoryInv, NEW t \in Turns, Acts(t), ViewInv(t)
    PROVE  ViewInv(t)'
<1>0. /\ snapshot \in [Turns -> Seq(Message)] /\ DOMAIN context = Turns
      /\ messages \in Seq(Message) /\ <<>> \in Seq(Message)
  BY DEF TypeOK
<1>1. ASSUME snapshot'[t] = <<>>, context'[t] = <<>>, pc'[t] \notin {"history", "complete"}
      PROVE  ViewInv(t)'
  BY <1>0, <1>1 DEF ViewInv
<1>2. CASE Complete(t) \/ FailComplete(t)
  <2>1. snapshot'[t] = <<>> /\ context'[t] = <<>>
    BY <1>0, <1>2 DEF Complete, FailComplete, DropContext
  <2>2. pc'[t] \in {"reply", "failed"}
    BY <1>2 DEF Complete, FailComplete, Goto, TypeOK
  <2> QED
    BY <1>1, <2>1, <2>2
<1>3. CASE \/ Begin(t) \/ FailPrompt(t) \/ StoreQuestion(t) \/ StoreReply(t)
           \/ Execute(t) \/ FailExecute(t) \/ StoreResult(t) \/ Finish(t) \/ Exhaust(t)
  <2>1. UNCHANGED viewVars /\ pc[t] \notin {"history", "complete"}
    BY <1>3 DEF Begin, FailPrompt, StoreQuestion, StoreReply, Execute, FailExecute, StoreResult,
                Finish, Exhaust, Idle
  <2>2. pc'[t] \notin {"history", "complete"}
    <3>1. \E label \in Label \ {"history", "complete"} : Goto(t, label)
      BY <1>3 DEF Begin, FailPrompt, StoreQuestion, StoreReply, Execute, FailExecute, StoreResult,
                  AfterResult, Finish, Exhaust, Label, Ended
    <3> QED
      BY <3>1 DEF Goto, TypeOK
  <2> QED
    BY <1>1, <2>1, <2>2 DEF ViewInv, viewVars
<1>4. CASE ReadMessages(t)
  <2>1. pc[t] = "read" /\ UNCHANGED <<messages, contextFull>>
    BY <1>4 DEF ReadMessages, storeVars, ambientVars
  <2>2. snapshot[t] = <<>> /\ context[t] = <<>>
    BY <2>1 DEF ViewInv
  <2>3. CASE contextFull < 0 /\ context' = [context EXCEPT ![t] = messages] /\ Goto(t, "complete")
    <3>1. context'[t] = messages /\ pc'[t] = "complete" /\ ~(contextFull = 0)
      BY <1>0, <2>3, ContextModesAssumption DEF Goto, TypeOK
    <3> QED
      BY <1>0, <2>1, <3>1 DEF ViewInv
  <2>4. CASE /\ snapshot' = [snapshot EXCEPT ![t] = messages] /\ UNCHANGED context
             /\ Goto(t, "history")
    <3>1. snapshot'[t] = messages /\ context'[t] = <<>> /\ pc'[t] = "history"
      BY <1>0, <2>2, <2>4 DEF Goto, TypeOK
    <3> QED
      BY <1>0, <2>1, <3>1 DEF ViewInv
  <2>5. CASE UNCHANGED viewVars /\ Goto(t, "complete")
    <3>1. context'[t] = <<>> /\ pc'[t] = "complete"
      BY <2>2, <2>5 DEF viewVars, Goto, TypeOK
    <3> QED
      BY <1>0, <3>1 DEF ViewInv, Blind, Selected
  <2> QED
    BY <1>4, <2>3, <2>4, <2>5 DEF ReadMessages
<1>5. CASE ReadHistory(t)
  <2>1. pc[t] = "history" /\ UNCHANGED <<messages, history, contextFull>> /\ Goto(t, "complete")
    BY <1>5 DEF ReadHistory, storeVars, ambientVars
  <2>2. pc'[t] = "complete" /\ OfTurn(snapshot[t], t) = OfTurn(messages, t)
    BY <2>1 DEF ViewInv, Goto, TypeOK
  <2>3. ASSUME NEW rows \in HistoryTurns,
               NEW c \in BuildContextMessages(snapshot[t], rows, t, contextFull),
               context' = [context EXCEPT ![t] = c]
        PROVE  ViewInv(t)'
    <3>1. context'[t] = c
      BY <1>0, <2>3
    <3>2. CASE contextFull < 0
      <4>1. c = snapshot[t] /\ ~(contextFull = 0)
        BY <2>3, <3>2, ContextModesAssumption DEF BuildContextMessages, TypeOK
      <4> QED
        BY <1>0, <2>1, <2>2, <3>1, <4>1 DEF ViewInv
    <3>3. CASE ~(contextFull < 0)
      <4>1. /\ c \in Seq(Message)
            /\ OfTurn(c, t) = OfTurn(snapshot[t], t)
            /\ contextFull = 0 =>
                  \A i \in DOMAIN c : c[i].turn = t \/ \E r \in history : r.turn = c[i].turn
        BY <3>3, ReadContext
      <4> QED
        BY <2>1, <2>2, <3>1, <4>1 DEF ViewInv
    <3> QED
      BY <3>2, <3>3
  <2>4. CASE context' = [context EXCEPT ![t] = snapshot[t]] /\ UNCHANGED snapshot
    <3>1. context'[t] = snapshot[t] /\ snapshot'[t] = snapshot[t]
      BY <1>0, <2>4
    <3> QED
      BY <1>0, <2>1, <2>2, <3>1 DEF ViewInv, Blind, Selected
  <2> QED
    BY <1>5, <2>3, <2>4 DEF ReadHistory
<1> QED
  BY <1>2, <1>3, <1>4, <1>5 DEF Acts, Chat

\* Where a context comes from.
LEMMA ReadsOf ==
    ASSUME TypeOK, NEW t \in Turns, Acts(t)
    PROVE  /\ pc'[t] = "history" => snapshot'[t] = messages /\ messages' = messages
           /\ pc'[t] = "complete" => ReadMessages(t) \/ ReadHistory(t)
<1>1. CASE ReadMessages(t)
  BY <1>1 DEF ReadMessages, Goto, TypeOK, storeVars
<1>2. CASE ReadHistory(t)
  BY <1>2 DEF ReadHistory, Goto, TypeOK
<1>3. CASE ~ReadMessages(t) /\ ~ReadHistory(t)
  <2>1. \E label \in Label \ {"history", "complete"} : Goto(t, label)
    BY <1>3 DEF Acts, Chat, Begin, FailPrompt, StoreQuestion, Complete, FailComplete, StoreReply,
                Execute, FailExecute, StoreResult, AfterResult, Finish, Exhaust, Label, Ended
  <2>2. pc'[t] \notin {"history", "complete"}
    BY <2>1 DEF Goto, TypeOK
  <2> QED
    BY <2>2
<1> QED
  BY <1>1, <1>2, <1>3

\* One turn at a time: a step of one finds every other at rest, and leaves it so.
LEMMA AloneStep ==
    ASSUME IInv, SerialInv, ~Concurrent, NEW t \in Turns, Acts(t)
    PROVE  \A u \in Turns : Running(u)' => u = t
<1>1. ASSUME NEW u \in Turns, u # t PROVE ~Running(u)
  <2>1. CASE Begin(t) \/ FailPrompt(t)
    BY <2>1 DEF Begin, FailPrompt
  <2>2. CASE Chat(t)
    <3>1. Running(t)
      BY <2>2 DEF Chat, StoreQuestion, ReadMessages, ReadHistory, Complete, FailComplete, StoreReply,
                  Execute, FailExecute, StoreResult, Finish, Exhaust, Running, Ended
    <3> QED
      BY <1>1, <3>1 DEF SerialInv
  <2> QED
    BY <2>1, <2>2 DEF Acts
<1>2. ASSUME NEW u \in Turns, u # t PROVE pc'[u] = pc[u]
  <2>1. TypeOK /\ \A w \in Turns : LocalsInv(w)
    BY DEF IInv
  <2> QED
    BY <1>2, <2>1, OthersUndisturbed DEF Undisturbed
<1> QED
  BY <1>1, <1>2 DEF Running

LEMMA SerialStep ==
    ASSUME ContextInv, NEW t \in Turns, Acts(t)
    PROVE  SerialInv'
<1> SUFFICES ASSUME ~Concurrent PROVE SerialInv'
  BY DEF SerialInv
<1>0. IInv /\ TypeOK /\ HistoryInv /\ SerialInv
  BY DEF ContextInv, IInv
<1>1. \A u \in Turns : Running(u)' => u = t
  BY <1>0, AloneStep
<1>2. ASSUME NEW u \in Turns, pc'[u] = "history" PROVE snapshot'[u] = messages'
  <2>1. u = t
    BY <1>1, <1>2 DEF Running, Ended
  <2> QED
    BY <1>0, <1>2, <2>1, ReadsOf
<1>3. ASSUME NEW u \in Turns, pc'[u] = "complete", ~Blind(u)', NEW r \in history', r.turn # u
      PROVE  OfTurn(context'[u], r.turn) \in {Summary(r), OfTurn(messages', r.turn)}
  <2>1. u = t
    BY <1>1, <1>3 DEF Running, Ended
  <2>2. context'[t] # <<>> /\ DOMAIN context = Turns
    BY <1>0, <1>3, <2>1 DEF Blind, TypeOK
  <2>3. CASE ReadMessages(t)
    <3>1. UNCHANGED <<messages, history>> /\ (context' = context \/ context'[t] = messages)
      BY <1>3, <2>1, <2>2, <2>3 DEF ReadMessages, storeVars, viewVars
    <3>2. context[t] = <<>>
      BY <2>3 DEF ContextInv, ViewInv, ReadMessages
    <3> QED
      BY <2>1, <2>2, <3>1, <3>2
  <2>4. CASE ReadHistory(t)
    <3>1. UNCHANGED <<messages, history>> /\ pc[t] = "history"
      BY <2>4 DEF ReadHistory, storeVars
    <3>2. snapshot[t] = messages
      BY <1>0, <3>1 DEF SerialInv
    <3>3. ASSUME NEW rows \in HistoryTurns,
                 NEW c \in BuildContextMessages(snapshot[t], rows, t, contextFull),
                 context' = [context EXCEPT ![t] = c]
          PROVE  OfTurn(c, r.turn) \in {Summary(r), OfTurn(messages, r.turn)}
      <4>1. CASE contextFull < 0
        BY <3>2, <3>3, <4>1 DEF BuildContextMessages
      <4>2. CASE ~(contextFull < 0)
        <5>1. \A s \in history : s.turn # t =>
                 OfTurn(c, s.turn) \in {Summary(s), OfTurn(snapshot[t], s.turn)}
          BY <1>0, <3>3, <4>2, ReadContext
        <5> QED
          BY <1>3, <2>1, <3>1, <3>2, <5>1
      <4> QED
        BY <4>1, <4>2
    <3>4. CASE context' = [context EXCEPT ![t] = snapshot[t]]
      BY <2>1, <2>2, <3>1, <3>2, <3>4
    <3>5. CASE \E rows \in HistoryTurns :
                  \E c \in BuildContextMessages(snapshot[t], rows, t, contextFull) :
                      context' = [context EXCEPT ![t] = c]
      BY <2>1, <2>2, <3>1, <3>3, <3>5
    <3> QED
      BY <2>4, <3>4, <3>5 DEF ReadHistory
  <2> QED
    BY <1>0, <1>3, <2>1, <2>3, <2>4, ReadsOf
<1>4. HistoryCovered'
  BY <1>3 DEF HistoryCovered
<1> QED
  BY <1>1, <1>2, <1>4 DEF SerialInv

LEMMA ContextInit == Init => ContextInv
<1> SUFFICES ASSUME Init PROVE ContextInv
  OBVIOUS
<1>1. IInv
  BY InitInv
<1>2. HistoryInv
  BY FS_EmptySet DEF Init, HistoryInv
<1>3. ASSUME NEW t \in Turns
      PROVE  pc[t] = "idle" /\ snapshot[t] = <<>> /\ context[t] = <<>> /\ <<>> \in Seq(Message)
  BY DEF Init
<1>4. SerialInv
  BY <1>3 DEF SerialInv, Running, HistoryCovered
<1>5. ASSUME NEW t \in Turns PROVE ViewInv(t)
  BY <1>3 DEF ViewInv
<1> QED
  BY <1>1, <1>2, <1>4, <1>5 DEF ContextInv

LEMMA ContextStep ==
    ASSUME ContextInv, [Next]_vars
    PROVE  ContextInv'
<1>0. IInv /\ TypeOK /\ HistoryInv /\ IInv'
  BY InvStep DEF ContextInv, IInv
<1>1. ASSUME NEW t \in Turns, Acts(t) PROVE ContextInv'
  <2>1. HistoryInv' /\ SerialInv'
    BY <1>0, <1>1, RowsStep, SerialStep
  <2>2. ASSUME NEW u \in Turns PROVE ViewInv(u)'
    BY <1>0, <1>1, ViewOfOthers, ViewOfOwn DEF ContextInv
  <2> QED
    BY <1>0, <2>1, <2>2 DEF ContextInv
<1>2. CASE UNCHANGED <<contextFull, pc, turnVars, viewVars, storeVars>>
  <2>1. HistoryInv' /\ SerialInv'
    BY <1>2 DEF ContextInv, HistoryInv, SerialInv, Running, HistoryCovered, Blind, viewVars, storeVars
  <2>2. ASSUME NEW u \in Turns PROVE ViewInv(u)'
    BY <1>2 DEF ContextInv, ViewInv, Blind, Selected, viewVars, storeVars
  <2> QED
    BY <1>0, <2>1, <2>2 DEF ContextInv
<1> QED
  BY <1>1, <1>2 DEF Next, Acts, Tick, Quiet, vars, ambientVars

\* What a turn has read agrees with the store in every reachable state: in its own
\* messages, in what a lean context leaves out, and in every recorded turn as long as
\* turns do not overlap.
THEOREM ContextInvariant == Spec => []ContextInv
<1>1. Init => ContextInv
  BY ContextInit
<1>2. ContextInv /\ [Next]_vars => ContextInv'
  BY ContextStep
<1> QED
  BY <1>1, <1>2, PTL DEF Spec

\* Whatever BuildContextMessages leaves out of the other turns, and whatever they
\* store between its two reads, the LLM is shown its own turn exactly as stored.
THEOREM OwnTurnShown == Spec => []ContextHoldsTurn
<1>1. ContextInv => ContextHoldsTurn
  BY DEF ContextInv, ViewInv, ContextHoldsTurn
<1> QED
  BY <1>1, ContextInvariant, PTL

\* A lean context shows nothing of a turn that has no history row.
THEOREM IsolationCorrect == Spec => []ContextIsolated
<1>1. ContextInv => ContextIsolated
  BY DEF ContextInv, ViewInv, ContextIsolated
<1> QED
  BY <1>1, ContextInvariant, PTL

\* When turns do not overlap, every recorded turn is in the context once, as its
\* summary or as its messages.
THEOREM CoverageCorrect == Spec => [](~Concurrent => HistoryCovered)
<1>1. ContextInv => (~Concurrent => HistoryCovered)
  BY DEF ContextInv, SerialInv
<1> QED
  BY <1>1, ContextInvariant, PTL

----
\* The order of a context.

\* The question of turn t is stored.
Asked(t) == \E q \in DOMAIN messages : messages[q].turn = t /\ messages[q].role = "user"

\* What the store says of the time follows the clock; when turns do not overlap, so
\* does the order of the messages, and the turn that runs was begun last.
ClockInv ==
    /\ \A t \in Turns : startedAt[t] <= clock
    /\ \A i \in DOMAIN messages : pc[messages[i].turn] # "idle"
    /\ \A t \in Turns : pc[t] \notin {"idle", "ask", "failed"} => Asked(t)
    /\ \A r \in history : r.at = startedAt[r.turn] /\ Asked(r.turn)
    /\ ~Concurrent =>
          /\ \A t, u \in Turns : Running(t) /\ pc[u] # "idle" => startedAt[u] <= startedAt[t]
          /\ \A i, j \in DOMAIN messages :
                i <= j => startedAt[messages[i].turn] <= startedAt[messages[j].turn]
          /\ CompletedInOrder

\* A step of turn t that stores a message stores one of its own.
LEMMA OwnMessages ==
    ASSUME TypeOK, NEW t \in Turns, LocalsInv(t), Acts(t)
    PROVE  \/ messages' = messages
           \/ /\ pc[t] \in {"ask", "reply", "results"}
              /\ \E m \in Message : m.turn = t /\ messages' = Append(messages, m)
<1>1. ASSUME NEW m \in Message, m.turn = t, Store(m) \/ FailToStore(m)
      PROVE  messages' = messages \/ \E n \in Message : n.turn = t /\ messages' = Append(messages, n)
  BY <1>1, StoreEffect
<1>2. CASE StoreQuestion(t)
  <2>1. UserMessage(t) \in Message /\ UserMessage(t).turn = t
    BY UserMessageType DEF UserMessage
  <2>2. pc[t] = "ask" /\ (Store(UserMessage(t)) \/ FailToStore(UserMessage(t)))
    BY <1>2 DEF StoreQuestion
  <2> QED
    BY <1>1, <2>1, <2>2
<1>3. CASE StoreReply(t)
  <2> DEFINE m == AssistantMessage(t, reply[t].calls)
  <2>1. m \in Message /\ m.turn = t
    BY DEF TypeOK, AssistantMessage, Message
  <2>2. pc[t] = "reply" /\ (Store(m) \/ FailToStore(m))
    BY <1>3 DEF StoreReply
  <2> HIDE DEF m
  <2> QED
    BY <1>1, <2>1, <2>2
<1>4. CASE StoreResult(t)
  <2> DEFINE k == done[t] + 1
             m == ToolMessage(t, reply[t].calls[k])
  <2>1. /\ reply[t].calls \in Seq(CallId) /\ Len(reply[t].calls) \in Nat
        /\ done[t] \in 0..MaxBatch /\ done[t] < Len(reply[t].calls)
    BY <1>4 DEF StoreResult, LocalsInv, Working, TypeOK
  <2>2. m \in Message /\ m.turn = t
    BY <2>1, MessageTypes, BoundsAssumption DEF ToolMessage
  <2>3. pc[t] = "results" /\ (Store(m) \/ FailToStore(m))
    BY <1>4 DEF StoreResult
  <2> HIDE DEF m
  <2> QED
    BY <1>1, <2>2, <2>3
<1>5. CASE ~StoreQuestion(t) /\ ~StoreReply(t) /\ ~StoreResult(t)
  BY <1>5 DEF Acts, Chat, Begin, FailPrompt, ReadMessages, ReadHistory, Complete, FailComplete,
              Execute, FailExecute, Finish, Exhaust, storeVars
<1> QED
  BY <1>2, <1>3, <1>4, <1>5

\* So the messages that are stored stay where they are.
LEMMA MessagesStay ==
    ASSUME TypeOK, NEW t \in Turns, LocalsInv(t), Acts(t)
    PROVE  /\ \A i \in DOMAIN messages : i \in DOMAIN messages' /\ messages'[i] = messages[i]
           /\ \A i \in DOMAIN messages' :
                 \/ i \in DOMAIN messages
                 \/ /\ pc[t] \in {"ask", "reply", "results"} /\ messages'[i].turn = t
                    /\ i = Len(messages) + 1
           /\ Len(messages) \in Nat /\ DOMAIN messages = 1 .. Len(messages)
<1>1. messages \in Seq(Message) /\ Len(messages) \in Nat /\ DOMAIN messages = 1 .. Len(messages)
  BY DEF TypeOK
<1>2. CASE messages' = messages
  BY <1>1, <1>2
<1>3. ASSUME pc[t] \in {"ask", "reply", "results"}, NEW m \in Message, m.turn = t,
             messages' = Append(messages, m)
      PROVE  /\ \A i \in DOMAIN messages : i \in DOMAIN messages' /\ messages'[i] = messages[i]
             /\ \A i \in DOMAIN messages' :
                   i \in DOMAIN messages \/ (messages'[i].turn = t /\ i = Len(messages) + 1)
  <2>1. /\ DOMAIN messages' = 1 .. Len(messages) + 1
        /\ \A i \in 1 .. Len(messages) : messages'[i] = messages[i]
        /\ messages'[Len(messages) + 1] = m
    BY <1>1, <1>3
  <2> QED
    BY <1>1, <1>3, <2>1
<1> QED
  BY <1>1, <1>2, <1>3, OwnMessages

\* A row that a step of turn t writes is its own, and carries the turn's time.
LEMMA OwnRows ==
    ASSUME IInv, NEW t \in Turns, Acts(t)
    PROVE  \A r \in history' :
              r \in history \/ (r.turn = t /\ r.at = startedAt[t] /\ pc[t] \in {"finish", "exhaust"})
<1>0. TypeOK /\ TurnInv(t) /\ \A u \in Turns : LocalsInv(u)
  BY DEF IInv, TurnInv
<1> TAKE r \in history'
<1>1. CASE Finish(t)
  <2> DEFINE row == [turn |-> t, at |-> startedAt[t], status |-> "complete", answer |-> reply[t].text]
  <2>1. row \in Row /\ row.turn = t /\ row.at = startedAt[t]
    BY <1>0, RowType DEF TypeOK
  <2>2. pc[t] = "finish" /\ (Upsert(row) \/ FailToUpsert(row))
    BY <1>1 DEF Finish
  <2> HIDE DEF row
  <2> QED
    BY <1>0, <2>1, <2>2, UpsertEffect
<1>2. CASE Exhaust(t)
  <2> DEFINE row == [turn |-> t, at |-> startedAt[t], status |-> "incomplete", answer |-> FALSE]
  <2>1. row \in Row /\ row.turn = t /\ row.at = startedAt[t]
    BY <1>0, RowType
  <2>2. pc[t] = "exhaust" /\ (Upsert(row) \/ FailToUpsert(row))
    BY <1>2 DEF Exhaust
  <2> HIDE DEF row
  <2> QED
    BY <1>0, <2>1, <2>2, UpsertEffect
<1>3. CASE UNCHANGED history
  BY <1>3
<1> QED
  BY <1>1, <1>2, <1>3
     DEF Acts, Chat, Begin, FailPrompt, StoreQuestion, ReadMessages, ReadHistory, Complete,
         FailComplete, StoreReply, Execute, FailExecute, StoreResult, storeVars

\* The clock stands still, and only the turn that is begun takes its time.
LEMMA ClockRead ==
    ASSUME NEW t \in Turns, Acts(t)
    PROVE  /\ clock' = clock
           /\ \/ startedAt' = startedAt
              \/ Idle(t) /\ pc' = [pc EXCEPT ![t] = "ask"] /\ startedAt' = [startedAt EXCEPT ![t] = clock]
<1>1. CASE Begin(t)
  BY <1>1 DEF Begin, Goto, ambientVars
<1>2. CASE FailPrompt(t) \/ Chat(t)
  BY <1>2 DEF Chat, FailPrompt, StoreQuestion, ReadMessages, ReadHistory, Complete, FailComplete,
              StoreReply, Execute, FailExecute, StoreResult, Finish, Exhaust, turnVars, ambientVars
<1> QED
  BY <1>1, <1>2 DEF Acts

\* The time of a turn that was begun does not change.
LEMMA TimeKept ==
    ASSUME TypeOK, NEW t \in Turns, Acts(t), NEW u \in Turns
    PROVE  /\ startedAt'[u] = startedAt[u] \/ (u = t /\ Idle(t) /\ startedAt'[t] = clock)
           /\ pc[u] # "idle" => startedAt'[u] = startedAt[u] /\ pc'[u] # "idle"
<1>1. startedAt'[u] = startedAt[u] \/ (u = t /\ Idle(t) /\ startedAt'[t] = clock)
  BY ClockRead DEF TypeOK
<1>2. u # t => pc'[u] = pc[u]
  <2>1. \E label \in Label : Goto(t, label)
    BY DEF Acts, Chat, Begin, FailPrompt, StoreQuestion, ReadMessages, ReadHistory, Complete,
           FailComplete, StoreReply, Execute, FailExecute, StoreResult, AfterResult, Finish, Exhaust,
           Label, Ended
  <2> QED
    BY <2>1 DEF Goto, TypeOK
<1>3. pc'[t] # "idle"
  BY ActsFrom
<1> QED
  BY <1>1, <1>2, <1>3 DEF Idle

LEMMA AskedStep ==
    ASSUME IInv, ClockInv, NEW t \in Turns, Acts(t)
    PROVE  /\ \A u \in Turns : pc'[u] \notin {"idle", "ask", "failed"} => Asked(u)'
           /\ \A r \in history' : r.at = startedAt'[r.turn] /\ Asked(r.turn)'
<1>0. TypeOK /\ \A u \in Turns : LocalsInv(u) /\ RowsInv(u)
  BY DEF IInv
<1>1. ASSUME NEW u, Asked(u) PROVE Asked(u)'
  <2>1. PICK q \in DOMAIN messages : messages[q].turn = u /\ messages[q].role = "user"
    BY <1>1 DEF Asked
  <2>2. q \in DOMAIN messages' /\ messages'[q] = messages[q]
    BY <1>0, MessagesStay
  <2> QED
    BY <2>1, <2>2 DEF Asked
<1>2. ASSUME pc[t] = "ask", pc'[t] # "failed" PROVE Asked(t)'
  <2>1. StoreQuestion(t)
    BY <1>2 DEF Acts, Chat, Begin, FailPrompt, Idle, ReadMessages, ReadHistory, Complete,
                FailComplete, StoreReply, Execute, FailExecute, StoreResult, Finish, Exhaust
  <2>2. Store(UserMessage(t))
    BY <1>0, <1>2, <2>1 DEF StoreQuestion, Goto, TypeOK
  <2>3. messages' = Append(messages, UserMessage(t))
    BY <2>2 DEF Store, UserMessage
  <2>4. UserMessage(t) \in Message
    BY UserMessageType
  <2>5. Len(messages) + 1 \in DOMAIN messages' /\ messages'[Len(messages) + 1] = UserMessage(t)
    BY <1>0, <2>3, <2>4, AppendEffect
  <2> QED
    BY <2>5 DEF Asked, UserMessage
<1>3. ASSUME NEW u \in Turns, pc'[u] \notin {"idle", "ask", "failed"} PROVE Asked(u)'
  <2>1. CASE u = t
    <3>1. pc[t] \notin {"idle", "failed"}
      BY <1>0, <1>3, <2>1, ActsFrom DEF Idle, Running, Ended
    <3> QED
      BY <1>1, <1>2, <1>3, <2>1, <3>1 DEF ClockInv
  <2>2. CASE u # t
    <3>1. pc'[u] = pc[u]
      BY <1>0, <2>2, OthersUndisturbed DEF Undisturbed
    <3> QED
      BY <1>1, <1>3, <3>1 DEF ClockInv
  <2> QED
    BY <2>1, <2>2
<1>4. ASSUME NEW r \in history' PROVE r.at = startedAt'[r.turn] /\ Asked(r.turn)'
  <2>1. CASE r \in history
    <3>1. r.turn \in Turns /\ r.status \in {"complete", "incomplete"}
      BY <1>0, <2>1 DEF TypeOK, Row
    <3>2. pc[r.turn] # "idle"
      BY <1>0, <2>1, <3>1 DEF RowsInv
    <3>3. startedAt'[r.turn] = startedAt[r.turn]
      BY <1>0, <3>1, <3>2, TimeKept
    <3> QED
      BY <1>1, <2>1, <3>3 DEF ClockInv
  <2>2. CASE r.turn = t /\ r.at = startedAt[t] /\ pc[t] \in {"finish", "exhaust"}
    <3>1. startedAt'[t] = startedAt[t]
      BY <1>0, <2>2, TimeKept
    <3> QED
      BY <1>1, <2>2, <3>1 DEF ClockInv
  <2> QED
    BY <2>1, <2>2, OwnRows
<1> QED
  BY <1>3, <1>4

\* When turns do not overlap, the messages follow the clock.
LEMMA MessagesFollow ==
    ASSUME IInv, SerialInv, ClockInv, ~Concurrent, NEW t \in Turns, Acts(t)
    PROVE  /\ \A v, u \in Turns : Running(v)' /\ pc'[u] # "idle" => startedAt'[u] <= startedAt'[v]
           /\ \A i, j \in DOMAIN messages' :
                 i <= j => startedAt'[messages'[i].turn] <= startedAt'[messages'[j].turn]
<1>0. /\ TypeOK /\ \A u \in Turns : LocalsInv(u)
      /\ \A u \in Turns : startedAt[u] \in Nat /\ startedAt[u] <= clock
  BY BoundsAssumption DEF IInv, TypeOK, ClockInv
<1>1. ASSUME NEW v \in Turns, NEW u \in Turns, Running(v)', pc'[u] # "idle"
      PROVE  startedAt'[u] <= startedAt'[v]
  <2>1. v = t
    BY <1>1, AloneStep
  <2>2. CASE Idle(t) /\ startedAt'[t] = clock
    <3>1. startedAt'[u] = startedAt[u] \/ startedAt'[u] = clock
      BY <1>0, <2>2, TimeKept
    <3>2. startedAt[u] <= clock /\ clock <= clock
      BY <1>0, BoundsAssumption DEF TypeOK
    <3> QED
      BY <2>1, <2>2, <3>1, <3>2
  <2>3. CASE ~(Idle(t) /\ startedAt'[t] = clock)
    <3>1. startedAt' = startedAt
      BY <1>0, <2>3, ClockRead DEF TypeOK
    <3>2. CASE Running(t)
      <4>1. pc[u] # "idle"
        <5>1. CASE u = t
          BY <3>2, <5>1 DEF Running
        <5>2. CASE u # t
          BY <1>0, <1>1, <5>2, OthersUndisturbed DEF Undisturbed
        <5> QED
          BY <5>1, <5>2
      <4> QED
        BY <2>1, <3>1, <3>2, <4>1 DEF ClockInv
    <3>3. CASE Idle(t) /\ pc'[t] \in {"ask", "failed"}
      <4>1. pc'[t] = "ask"
        BY <1>1, <2>1, <3>3 DEF Running, Ended
      <4>2. Begin(t)
        <5>1. ~FailPrompt(t)
          BY <1>0, <4>1 DEF FailPrompt, Goto, TypeOK
        <5>2. ~Chat(t)
          BY <3>3 DEF Idle, Chat, StoreQuestion, ReadMessages, ReadHistory, Complete, FailComplete,
                      StoreReply, Execute, FailExecute, StoreResult, Finish, Exhaust
        <5> QED
          BY <5>1, <5>2 DEF Acts
      <4>3. startedAt'[t] = clock
        BY <1>0, <4>2 DEF Begin, TypeOK
      <4> QED
        BY <2>3, <3>3, <4>3
    <3> QED
      BY <1>0, <3>2, <3>3, ActsFrom
  <2> QED
    BY <2>2, <2>3
<1>2. ASSUME NEW i \in DOMAIN messages', NEW j \in DOMAIN messages', i <= j
      PROVE  startedAt'[messages'[i].turn] <= startedAt'[messages'[j].turn]
  <2>1. /\ Len(messages) \in Nat /\ DOMAIN messages = 1 .. Len(messages)
        /\ \A k \in DOMAIN messages : messages'[k] = messages[k]
        /\ \A k \in DOMAIN messages' :
              \/ k \in DOMAIN messages
              \/ /\ pc[t] \in {"ask", "reply", "results"} /\ messages'[k].turn = t
                 /\ k = Len(messages) + 1
    BY <1>0, MessagesStay
  <2>2. \A k \in DOMAIN messages :
           /\ messages[k].turn \in Turns /\ pc[messages[k].turn] # "idle"
           /\ startedAt'[messages[k].turn] = startedAt[messages[k].turn]
    <3> SUFFICES ASSUME NEW k \in DOMAIN messages
                 PROVE  /\ messages[k].turn \in Turns /\ pc[messages[k].turn] # "idle"
                        /\ startedAt'[messages[k].turn] = startedAt[messages[k].turn]
      OBVIOUS
    <3>0. messages \in Seq(Message) /\ messages[k] \in Message
      BY <1>0 DEF TypeOK
    <3>1. messages[k].turn \in Turns /\ pc[messages[k].turn] # "idle"
      BY <3>0 DEF ClockInv, Message
    <3> QED
      BY <1>0, <3>1, TimeKept
  <2>3. CASE i \in DOMAIN messages /\ j \in DOMAIN messages
    BY <1>2, <2>1, <2>2, <2>3 DEF ClockInv
  <2>4. CASE i \in DOMAIN messages /\ j \notin DOMAIN messages
    <3>1. pc[t] \in {"ask", "reply", "results"} /\ messages'[j].turn = t /\ messages'[i] = messages[i]
      BY <2>1, <2>4
    <3>2. Running(t) /\ startedAt'[t] = startedAt[t]
      BY <1>0, <3>1, TimeKept DEF Running, Ended
    <3> QED
      BY <2>2, <2>4, <3>1, <3>2 DEF ClockInv
  <2>5. CASE i \notin DOMAIN messages
    <3>1. /\ pc[t] \in {"ask", "reply", "results"} /\ messages'[i].turn = t
          /\ i = Len(messages) + 1 /\ j \notin DOMAIN messages
      BY <1>2, <2>1, <2>5
    <3>2. messages'[j].turn = t /\ startedAt'[t] = startedAt[t]
      BY <1>0, <2>1, <3>1, TimeKept
    <3> QED
      BY <1>0, <3>1, <3>2
  <2> QED
    BY <2>3, <2>4, <2>5
<1> QED
  BY <1>1, <1>2

\* The turns recorded as complete.
Completed == {r.turn : r \in {s \in history : s.status = "complete"}}

\* The rows of a selected context, and what is known of the turns recorded as complete.
LEMMA CompletedTurns ==
    ASSUME IInv, HistoryInv, ClockInv, NEW t \in Turns, Running(t), NEW rows \in HistoryTurns,
           NEW u \in Completed
    PROVE  /\ u \notin {NoTurn, t}
           /\ Asked(u)
           /\ \A k \in DOMAIN rows : rows[k].turn = u => rows[k].status # "incomplete"
<1>0. TypeOK /\ TurnInv(t)
  BY DEF IInv, TurnInv
<1>1. PICK r \in history : r.turn = u /\ r.status = "complete"
  BY DEF Completed
<1>2. u \in Turns /\ u # NoTurn
  BY <1>0, <1>1, TurnsAssumption DEF TypeOK, Row
<1>3. u # t
  BY <1>0, <1>1, RunningHasNoRow
<1>4. Asked(u)
  BY <1>1 DEF ClockInv
<1>5. ASSUME NEW k \in DOMAIN rows, rows[k].turn = u PROVE rows[k].status # "incomplete"
  <2>1. rows[k] \in history
    BY <1>0, ReadRows
  <2>2. rows[k] = r
    BY <1>1, <1>5, <2>1 DEF HistoryInv
  <2> QED
    BY <1>1, <2>2
<1> QED
  BY <1>2, <1>3, <1>4, <1>5

LEMMA RowsFollow ==
    ASSUME TypeOK, HistoryInv, ClockInv, NEW rows \in HistoryTurns
    PROVE  \A i, j \in DOMAIN rows : i <= j => startedAt[rows[i].turn] <= startedAt[rows[j].turn]
<1> SUFFICES ASSUME NEW i \in DOMAIN rows, NEW j \in DOMAIN rows, i <= j
             PROVE  startedAt[rows[i].turn] <= startedAt[rows[j].turn]
  OBVIOUS
<1>1. rows \in Seq(Row) /\ rows[i] \in history /\ rows[j] \in history
  BY ReadRows
<1>2. /\ rows[i].at = startedAt[rows[i].turn] /\ rows[j].at = startedAt[rows[j].turn]
      /\ rows[i].at \in Nat /\ rows[j].at \in Nat
  BY <1>1, BoundsAssumption DEF ClockInv, TypeOK, Row
<1>3. i = j \/ i < j
  BY <1>1
<1>4. i < j => rows[i].at <= rows[j].at
  <2>1. i < j => rows[i].at < rows[j].at \/ rows[i].at = rows[j].at
    BY DEF HistoryTurns
  <2> QED
    BY <1>2, <2>1
<1> QED
  BY <1>2, <1>3, <1>4

LEMMA OrderStep ==
    ASSUME ContextInv, ClockInv, ~Concurrent, NEW t \in Turns, Acts(t)
    PROVE  CompletedInOrder'
<1>0. IInv /\ TypeOK /\ HistoryInv /\ SerialInv /\ DOMAIN context = Turns
  BY DEF ContextInv, IInv, TypeOK
<1> SUFFICES ASSUME NEW u \in Turns, pc'[u] = "complete",
                    NEW i \in DOMAIN context'[u], NEW j \in DOMAIN context'[u], i < j,
                    NEW r \in history', r.status = "complete", r.turn = context'[u][i].turn,
                    NEW s \in history', s.status = "complete", s.turn = context'[u][j].turn
             PROVE  startedAt'[context'[u][i].turn] <= startedAt'[context'[u][j].turn]
  BY DEF CompletedInOrder
<1>1. u = t
  BY <1>0, AloneStep DEF Running, Ended
<1>2. ReadMessages(t) \/ ReadHistory(t)
  BY <1>0, <1>1, ReadsOf
<1>3. /\ pc[t] \in {"read", "history"} /\ Running(t)
      /\ UNCHANGED <<messages, history, startedAt, contextFull>>
  BY <1>2 DEF ReadMessages, ReadHistory, turnVars, storeVars, ambientVars, Running, Ended
<1>4. messages \in Seq(Message)
      /\ \A k, l \in DOMAIN messages :
            k <= l => startedAt[messages[k].turn] <= startedAt[messages[l].turn]
  BY <1>0 DEF ClockInv, TypeOK
<1>5. CASE context'[t] = messages
  BY <1>1, <1>3, <1>4, <1>5
<1>6. CASE context'[t] = <<>>
  BY <1>1, <1>6
<1>7. ASSUME NEW rows \in HistoryTurns, ReadHistory(t), contextFull >= 0,
             NEW c \in BuildContextMessages(messages, rows, t, contextFull), context'[t] = c
      PROVE  startedAt[c[i].turn] <= startedAt[c[j].turn]
  <2>1. /\ contextFull \in Nat /\ Summarises(Message, Row) /\ rows \in Seq(Row)
        /\ \A k, l \in DOMAIN rows : k <= l => startedAt[rows[k].turn] <= startedAt[rows[l].turn]
    <3>1. contextFull \in Nat
      <4>1. contextFull \in Int
        BY <1>0, ContextModesAssumption DEF TypeOK
      <4> QED
        BY <1>7, <4>1
    <3>2. rows \in Seq(Row)
      BY <1>0, ReadRows
    <3>3. \A k, l \in DOMAIN rows : k <= l => startedAt[rows[k].turn] <= startedAt[rows[l].turn]
      BY <1>0, RowsFollow
    <3> QED
      BY <3>1, <3>2, <3>3, SummariesAreMessages
  <2>2. \A v \in Completed :
           /\ v \notin {NoTurn, t}
           /\ \E q \in DOMAIN messages : messages[q].turn = v /\ messages[q].role = "user"
           /\ \A k \in DOMAIN rows : rows[k].turn = v => rows[k].status # "incomplete"
    BY <1>0, <1>3, CompletedTurns DEF Asked
  <2>3. FollowsClock(c, Completed, startedAt)
    BY <1>4, <1>7, <2>1, <2>2, ContextInOrder
  <2>4. c[i].turn \in Completed /\ c[j].turn \in Completed
    BY <1>1, <1>3, <1>7 DEF Completed
  <2> QED
    BY <1>1, <1>7, <2>3, <2>4 DEF FollowsClock
<1>8. CASE ReadMessages(t)
  <2>1. context[t] = <<>>
    BY <1>8 DEF ContextInv, ViewInv, ReadMessages
  <2>2. context'[t] = messages \/ context' = context
    BY <1>0, <1>8 DEF ReadMessages, viewVars
  <2> QED
    BY <1>5, <1>6, <2>1, <2>2
<1>9. CASE ReadHistory(t)
  <2>1. snapshot[t] = messages
    BY <1>0, <1>9 DEF SerialInv, ReadHistory
  <2>2. CASE context' = [context EXCEPT ![t] = snapshot[t]]
    BY <1>0, <1>5, <2>1, <2>2
  <2>3. ASSUME NEW rows \in HistoryTurns,
               NEW c \in BuildContextMessages(snapshot[t], rows, t, contextFull),
               context' = [context EXCEPT ![t] = c]
        PROVE  startedAt'[context'[u][i].turn] <= startedAt'[context'[u][j].turn]
    <3>1. context'[t] = c
      BY <1>0, <2>3
    <3>2. CASE contextFull < 0
      <4>1. c = messages
        BY <2>1, <2>3, <3>2 DEF BuildContextMessages
      <4> QED
        BY <1>5, <3>1, <4>1
    <3>3. CASE contextFull >= 0
      BY <1>1, <1>3, <1>7, <1>9, <2>1, <2>3, <3>1, <3>3
    <3> QED
      BY <1>0, <3>2, <3>3, ContextModesAssumption DEF TypeOK
  <2> QED
    BY <1>9, <2>2, <2>3 DEF ReadHistory
<1> QED
  BY <1>2, <1>8, <1>9

LEMMA ClockInit == Init => ClockInv
<1> SUFFICES ASSUME Init PROVE ClockInv
  OBVIOUS
<1>1. clock = 0 /\ messages = <<>> /\ history = {} /\ DOMAIN messages = {}
  BY DEF Init
<1>2. \A t \in Turns : pc[t] = "idle" /\ startedAt[t] = 0
  BY DEF Init
<1> QED
  BY <1>1, <1>2 DEF ClockInv, Running, CompletedInOrder

LEMMA ClockStep ==
    ASSUME ContextInv, ClockInv, [Next]_vars
    PROVE  ClockInv'
<1>0. IInv /\ TypeOK /\ HistoryInv /\ SerialInv /\ \A u \in Turns : LocalsInv(u)
  BY DEF ContextInv, IInv
<1>1. ASSUME NEW t \in Turns, Acts(t) PROVE ClockInv'
  <2>1. ASSUME NEW u \in Turns PROVE startedAt'[u] <= clock'
    <3>1. startedAt'[u] = startedAt[u] \/ startedAt'[u] = clock
      BY <1>0, <1>1, TimeKept
    <3>2. clock' = clock /\ clock <= clock /\ startedAt[u] <= clock
      BY <1>0, <1>1, ClockRead, BoundsAssumption DEF ClockInv, TypeOK
    <3> QED
      BY <3>1, <3>2
  <2>2. ASSUME NEW i \in DOMAIN messages' PROVE pc'[messages'[i].turn] # "idle"
    <3>1. CASE i \in DOMAIN messages
      <4>1. messages'[i] = messages[i] /\ messages \in Seq(Message)
        BY <1>0, <1>1, <3>1, MessagesStay DEF TypeOK
      <4>2. messages[i].turn \in Turns /\ pc[messages[i].turn] # "idle"
        <5>1. messages[i] \in Message
          BY <3>1, <4>1
        <5> QED
          BY <3>1, <5>1 DEF ClockInv, Message
      <4> QED
        BY <1>0, <1>1, <4>1, <4>2, TimeKept
    <3>2. CASE i \notin DOMAIN messages
      <4>1. messages'[i].turn = t
        BY <1>0, <1>1, <2>2, <3>2, MessagesStay
      <4> QED
        BY <1>0, <1>1, <4>1, ActsFrom
    <3> QED
      BY <3>1, <3>2
  <2>3. /\ \A u \in Turns : pc'[u] \notin {"idle", "ask", "failed"} => Asked(u)'
        /\ \A r \in history' : r.at = startedAt'[r.turn] /\ Asked(r.turn)'
    BY <1>0, <1>1, AskedStep
  <2>4. ASSUME ~Concurrent
        PROVE  /\ \A v, u \in Turns : Running(v)' /\ pc'[u] # "idle" => startedAt'[u] <= startedAt'[v]
               /\ \A i, j \in DOMAIN messages' :
                     i <= j => startedAt'[messages'[i].turn] <= startedAt'[messages'[j].turn]
               /\ CompletedInOrder'
    BY <1>0, <1>1, <2>4, MessagesFollow, OrderStep
  <2> QED
    BY <2>1, <2>2, <2>3, <2>4 DEF ClockInv
<1>2. CASE UNCHANGED <<contextFull, pc, turnVars, viewVars, storeVars>> /\ clock' \in {clock, clock + 1}
  <2>1. ASSUME NEW u \in Turns PROVE startedAt'[u] <= clock'
    <3>1. startedAt'[u] = startedAt[u] /\ startedAt[u] <= clock /\ startedAt[u] \in Nat /\ clock \in Nat
      BY <1>0, <1>2, BoundsAssumption DEF ClockInv, TypeOK, turnVars
    <3> QED
      BY <1>2, <3>1
  <2>2. UNCHANGED <<pc, startedAt, messages, history, context>>
    BY <1>2 DEF turnVars, viewVars, storeVars
  <2>3. CompletedInOrder <=> CompletedInOrder'
    BY <2>2 DEF CompletedInOrder
  <2> QED
    BY <2>1, <2>2, <2>3 DEF ClockInv, Running, Asked
<1> QED
  BY <1>1, <1>2 DEF Next, Acts, Tick, Quiet, vars, ambientVars

\* When turns do not overlap, the completed turns of a context follow the clock, be
\* they summarised or shown in full: a lean context takes them from the history rows,
\* a hybrid one puts the last turns behind them, and those were asked last.
THEOREM ContextOrderCorrect == Spec => [](~Concurrent => CompletedInOrder)
<1>1. Init => ContextInv /\ ClockInv
  BY ContextInit, ClockInit
<1>2. ContextInv /\ ClockInv /\ [Next]_vars => (ContextInv /\ ClockInv)'
  BY ContextStep, ClockStep
<1>3. ContextInv /\ ClockInv => (~Concurrent => CompletedInOrder)
  BY DEF ClockInv
<1> QED
  BY <1>1, <1>2, <1>3, PTL DEF Spec

----
\* What the store makes of a conversation, and the requests made of it.

\* The stored messages of the turns of D, and the calls of t's last response that
\* have no stored result.
Kept(D) == appendDetailedMessages(messages, D)
Rest(t) == SubSeq(reply[t].calls, done[t] + 1, Len(reply[t].calls))

\* The messages kept for D are a dialogue that owes what turn t is working on.
Owing(D, t) ==
    /\ Working(t) => Owes(Kept(D), CallId, Rest(t))
    /\ ~Working(t) => Owes(Kept(D), CallId, <<>>)

\* Turn t may be answered: there is a message, and it is not a response.
Awaited(D, t) ==
    pc[t] \in {"read", "history", "complete", "reply"} =>
        Kept(D) # <<>> /\ Last(Kept(D)).role # "assistant"

\* When turns do not overlap, the stored messages of any turns that have not failed are
\* a dialogue that owes the calls under way.
KeptInv ==
    ~Concurrent =>
        \A D \in SUBSET Turns : (\A u \in D : pc[u] # "failed") =>
            /\ \A t \in D : Working(t) => Owes(Kept(D), CallId, Rest(t))
            /\ (\A t \in D : ~Working(t)) => Owes(Kept(D), CallId, <<>>)
            /\ \A t \in D : Awaited(D, t)

\* The contexts of which RequestAccepted speaks are dialogues that owe nothing.
AcceptInv ==
    ~Concurrent =>
        \A t \in Turns :
            /\ pc[t] = "complete" /\ ~Blind(t)
            /\ (contextFull = 0 /\ Selected(t)) \/ (\A u \in Turns : pc[u] # "failed")
            => Owes(context[t], CallId, <<>>)

\* Whatever others do, the stored messages of a turn that has not failed are a dialogue.
OwnInv == \A t \in Turns : pc[t] # "failed" => Owing({t}, t) /\ Awaited({t}, t)

\* Without an incomplete turn a lean context is one too, even when turns overlap.
LeanInv ==
    \A t \in Turns :
        /\ pc[t] = "complete" /\ contextFull = 0 /\ Selected(t)
        /\ \A r \in history : r.status = "complete"
        => Owes(context[t], CallId, <<>>)

\* Messages speak of calls.
LEMMA CallsAreCalls == SpeakOf(Message, CallId)
  BY DEF SpeakOf, Message

\* What is kept are messages.
LEMMA KeptType == ASSUME TypeOK, NEW D PROVE Kept(D) \in Seq(Message)
<1>1. messages \in Seq(Message)
  BY DEF TypeOK
<1> QED
  BY <1>1, DetailedPart DEF Kept

\* A message is kept with those of its turn.
LEMMA KeptStored ==
    ASSUME TypeOK, NEW D, NEW m \in Message, messages' = Append(messages, m)
    PROVE  /\ m.turn \in D => Kept(D)' = Append(Kept(D), m) /\ Kept(D)' # <<>> /\ Last(Kept(D)') = m
           /\ m.turn \notin D => Kept(D)' = Kept(D)
<1>1. messages \in Seq(Message) /\ Kept(D) \in Seq(Message)
  BY KeptType DEF TypeOK
<1>2. m.turn # NoTurn
  BY TurnsAssumption DEF Message
<1>3. appendDetailedMessages(Append(messages, m), D) =
          IF m.turn = NoTurn \/ m.turn \in D
          THEN Append(appendDetailedMessages(messages, D), m) ELSE appendDetailedMessages(messages, D)
  BY <1>1, DetailedAppend
<1>4. Kept(D)' = IF m.turn \in D THEN Append(Kept(D), m) ELSE Kept(D)
  BY <1>2, <1>3 DEF Kept
<1>5. PICK c \in Seq(Message) : c = Kept(D)
  BY <1>1
<1>6. Append(c, m) # <<>> /\ Len(Append(c, m)) = Len(c) + 1 /\ Append(c, m)[Len(c) + 1] = m
  BY AppendProperties
<1> QED
  BY <1>4, <1>5, <1>6 DEF Last

\* The calls left: all of them behind the response, one less behind each result.
LEMMA RestOf ==
    ASSUME NEW calls \in Seq(CallId), NEW k \in Nat, k < Len(calls)
    PROVE  LET rest == SubSeq(calls, k + 1, Len(calls))
           IN  /\ rest \in Seq(CallId) /\ rest # <<>>
               /\ Head(rest) = calls[k + 1]
               /\ Tail(rest) = SubSeq(calls, k + 1 + 1, Len(calls))
<1> DEFINE n == Len(calls)
           rest == SubSeq(calls, k + 1, n)
<1>1. n \in Nat /\ k + 1 \in 1 .. n /\ n \in k + 1 .. n /\ k + 1 \in Int /\ n \in Int
  OBVIOUS
<1>2. \A i \in k + 1 .. n : calls[i] \in CallId
  OBVIOUS
<1> HIDE DEF n
<1>3. rest \in Seq(CallId) /\ Len(rest) = IF k + 1 <= n THEN n - (k + 1) + 1 ELSE 0
  BY <1>1, <1>2, SubSeqProperties
<1>4. Len(rest) # 0
  BY <1>1, <1>3
<1>5. Head(rest) = calls[k + 1] /\ Tail(rest) = SubSeq(calls, k + 1 + 1, n)
  BY <1>1, HeadTailOfSubSeq DEF n
<1>6. rest # <<>>
  <2> HIDE DEF rest
  <2> QED
    BY <1>4
<1> QED
  BY <1>3, <1>5, <1>6 DEF n

\* A step that stores nothing, from a label that says as much as the one it goes to.
LEMMA OwingKept ==
    ASSUME NEW D, NEW t, Owing(D, t), Awaited(D, t), UNCHANGED messages,
           Working(t)' => Working(t) /\ Rest(t)' = Rest(t),
           ~Working(t)' => ~Working(t),
           pc'[t] \in {"read", "history", "complete", "reply"} =>
               pc[t] \in {"read", "history", "complete", "reply"}
    PROVE  Owing(D, t)' /\ Awaited(D, t)'
<1>1. Kept(D)' = Kept(D)
  BY DEF Kept
<1> QED
  BY <1>1 DEF Owing, Awaited

\* A step of turn t keeps what the messages of its turns owe in step with it.
LEMMA OwingStep ==
    ASSUME IInv, NEW D, NEW t \in Turns, t \in D, Owing(D, t), Awaited(D, t),
           Acts(t), pc'[t] # "failed"
    PROVE  Owing(D, t)' /\ Awaited(D, t)'
<1>0. TypeOK /\ LocalsInv(t) /\ StoreInv(t) /\ Kept(D) \in Seq(Message) /\ SpeakOf(Message, CallId)
  BY KeptType, CallsAreCalls DEF IInv
<1>1. CASE Begin(t) \/ FailPrompt(t)
  <2>1. /\ pc[t] = "idle" /\ pc'[t] = "ask" /\ UNCHANGED messages
    BY <1>0, <1>1 DEF Begin, FailPrompt, Idle, Goto, TypeOK, storeVars
  <2> QED
    BY <2>1, OwingKept DEF Working
<1>2. CASE ReadMessages(t) \/ ReadHistory(t) \/ Complete(t) \/ FailComplete(t)
  <2>1. /\ pc[t] \in {"read", "history", "complete"} /\ pc'[t] \in {"history", "complete", "reply"}
        /\ UNCHANGED messages
    BY <1>0, <1>2 DEF ReadMessages, ReadHistory, Complete, FailComplete, Goto, TypeOK, storeVars
  <2> QED
    BY <2>1, OwingKept DEF Working
<1>3. CASE Execute(t) \/ FailExecute(t)
  <2>1. pc[t] = "execute" /\ pc'[t] = "results" /\ UNCHANGED <<messages, reply, done>>
    BY <1>0, <1>3 DEF Execute, FailExecute, Goto, TypeOK, turnVars, storeVars
  <2>2. Rest(t)' = Rest(t)
    BY <2>1 DEF Rest
  <2> QED
    BY <2>1, <2>2, OwingKept DEF Working
<1>4. CASE Finish(t) \/ Exhaust(t)
  <2>1. /\ pc[t] \in {"finish", "exhaust"} /\ pc'[t] \in {"answered", "exhausted"}
        /\ UNCHANGED messages
    BY <1>0, <1>4 DEF Finish, Exhaust, Goto, TypeOK
  <2> QED
    BY <2>1, OwingKept DEF Working
<1>5. CASE StoreQuestion(t)
  <2> DEFINE m == UserMessage(t)
  <2>1. pc[t] = "ask" /\ pc'[t] = "read" /\ Store(m)
    BY <1>0, <1>5 DEF StoreQuestion, Goto, TypeOK
  <2>2. m \in Message /\ m.turn = t /\ m.role = "user"
    BY UserMessageType DEF UserMessage
  <2>3. messages' = Append(messages, m)
    BY <2>1, <2>2 DEF Store
  <2> HIDE DEF m
  <2>4. Kept(D)' = Append(Kept(D), m) /\ Kept(D)' # <<>> /\ Last(Kept(D)') = m
    BY <1>0, <2>2, <2>3, KeptStored
  <2>5. Owes(Kept(D), CallId, <<>>)
    BY <2>1 DEF Owing, Working
  <2>6. Owes(Append(Kept(D), m), CallId, <<>>)
    BY <1>0, <2>2, <2>5, OwesQuestion
  <2> QED
    BY <2>1, <2>2, <2>4, <2>6 DEF Owing, Awaited, Working
<1>6. CASE StoreReply(t)
  <2> DEFINE m == AssistantMessage(t, reply[t].calls)
  <2>1. pc[t] = "reply" /\ Store(m) /\ UNCHANGED <<reply, done>>
        /\ pc'[t] = IF reply[t].calls = <<>> THEN "finish" ELSE "execute"
    BY <1>0, <1>6 DEF StoreReply, Goto, TypeOK, turnVars
  <2>2. m \in Message /\ m.turn = t /\ m.role = "assistant" /\ m.calls = reply[t].calls
    BY <1>0 DEF TypeOK, AssistantMessage, Message
  <2>3. messages' = Append(messages, m)
    BY <1>0, <2>1, <2>2 DEF Store, StoreInv
  <2> HIDE DEF m
  <2>4. Kept(D)' = Append(Kept(D), m)
    BY <1>0, <2>2, <2>3, KeptStored
  <2>5. Owes(Kept(D), CallId, <<>>) /\ Kept(D) # <<>> /\ Last(Kept(D)).role # "assistant"
    BY <2>1 DEF Owing, Awaited, Working
  <2>6. Owes(Append(Kept(D), m), CallId, m.calls)
    BY <1>0, <2>2, <2>5, OwesResponse
  <2>7. Rest(t)' = m.calls
    <3>1. done'[t] = 0 /\ reply'[t].calls = m.calls
      BY <1>0, <2>1, <2>2 DEF LocalsInv
    <3>2. m.calls \in Seq(CallId)
      BY <2>2 DEF Message
    <3>3. SubSeq(m.calls, 1, Len(m.calls)) = m.calls
      BY <3>2, SubSeqFull
    <3> QED
      BY <3>1, <3>3 DEF Rest
  <2> QED
    BY <2>1, <2>2, <2>4, <2>6, <2>7 DEF Owing, Awaited, Working
<1>7. CASE StoreResult(t)
  <2> DEFINE calls == reply[t].calls
             k == done[t] + 1
             m == ToolMessage(t, calls[k])
  <2>1. /\ pc[t] = "results" /\ Store(m) /\ reply' = reply /\ done' = [done EXCEPT ![t] = k]
        /\ pc'[t] = AfterResult(t, k)
    BY <1>0, <1>7 DEF StoreResult, Goto, TypeOK
  <2>2. /\ calls \in Seq(CallId) /\ Len(calls) \in Nat /\ done[t] \in Nat /\ done[t] < Len(calls)
        /\ done'[t] = k /\ k \in 1 .. Len(calls)
    BY <1>0, <2>1, BoundsAssumption DEF LocalsInv, Working, TypeOK
  <2>3. m \in Message /\ m.turn = t /\ m.role = "tool" /\ m.calls = <<calls[k]>>
    BY <2>2, MessageTypes DEF ToolMessage
  <2>4. messages' = Append(messages, m)
    BY <1>0, <2>1, <2>3 DEF Store, StoreInv
  <2> HIDE DEF m
  <2>5. Kept(D)' = Append(Kept(D), m) /\ Kept(D)' # <<>> /\ Last(Kept(D)') = m
    BY <1>0, <2>3, <2>4, KeptStored
  <2>6. /\ Rest(t) \in Seq(CallId) /\ Rest(t) # <<>> /\ Head(Rest(t)) = calls[k]
        /\ Tail(Rest(t)) = SubSeq(calls, k + 1, Len(calls))
    <3> HIDE DEF calls
    <3> QED
      BY <2>2, RestOf DEF Rest, calls
  <2>7. Owes(Kept(D), CallId, Rest(t))
    BY <2>1 DEF Owing, Working
  <2>8. m.calls = <<Head(Rest(t))>>
    BY <2>3, <2>6
  <2>9. Owes(Append(Kept(D), m), CallId, Tail(Rest(t)))
    <3>1. Rest(t) \in Seq(CallId) /\ Rest(t) # <<>>
      BY <2>6
    <3> QED
      BY <1>0, <2>3, <2>7, <2>8, <3>1, OwesResult
  <2>10. Rest(t)' = Tail(Rest(t))
    BY <2>1, <2>2, <2>6 DEF Rest
  <2>11. Owes(Kept(D)', CallId, Rest(t)')
    BY <2>5, <2>9, <2>10
  <2>12. CASE k < Len(calls)
    <3>1. pc'[t] = "results"
      BY <2>1, <2>12 DEF AfterResult
    <3> QED
      BY <2>11, <3>1 DEF Owing, Awaited, Working
  <2>13. CASE ~(k < Len(calls))
    <3>1. pc'[t] \in {"read", "exhaust"}
      BY <2>1, <2>13 DEF AfterResult
    <3>2. Rest(t)' = <<>>
      <4>1. k + 1 \in Int /\ Len(calls) \in Int /\ Len(calls) < k + 1
        BY <2>2, <2>13
      <4> QED
        BY <2>6, <2>10, <4>1, SubSeqEmpty
    <3> QED
      BY <2>3, <2>5, <2>11, <3>1, <3>2 DEF Owing, Awaited, Working
  <2> QED
    BY <2>12, <2>13
<1> QED
  BY <1>1, <1>2, <1>3, <1>4, <1>5, <1>6, <1>7 DEF Acts, Chat

\* So every step keeps the dialogues.
LEMMA KeptStep ==
    ASSUME IInv, SerialInv, KeptInv, NEW t \in Turns, Acts(t)
    PROVE  KeptInv'
<1> SUFFICES ASSUME ~Concurrent, NEW D \in SUBSET Turns, \A u \in D : pc'[u] # "failed"
             PROVE  /\ \A u \in D : Working(u)' => Owes(Kept(D)', CallId, Rest(u)')
                    /\ (\A u \in D : ~Working(u)') => Owes(Kept(D)', CallId, <<>>)
                    /\ \A u \in D : Awaited(D, u)'
  BY DEF KeptInv
<1>0. TypeOK /\ LocalsInv(t) /\ \A u \in Turns : LocalsInv(u)
  BY DEF IInv
<1>1. \A u \in D : u # t => ~Working(u)' /\ Awaited(D, u)' /\ ~Working(u) /\ pc'[u] = pc[u]
  <2> SUFFICES ASSUME NEW u \in D, u # t
               PROVE  ~Working(u)' /\ Awaited(D, u)' /\ ~Working(u) /\ pc'[u] = pc[u]
    OBVIOUS
  <2>1. pc'[u] = pc[u]
    BY <1>0, OthersUndisturbed DEF Undisturbed
  <2>2. ~Running(u)'
    BY AloneStep
  <2> QED
    BY <2>1, <2>2 DEF Running, Ended, Working, Awaited
<1>2. pc[t] # "failed"
  BY <1>0, ActsFrom DEF Idle, Running, Ended
<1>3. \A u \in D : pc[u] # "failed"
  BY <1>1, <1>2
<1>4. /\ \A u \in D : Working(u) => Owes(Kept(D), CallId, Rest(u))
      /\ (\A u \in D : ~Working(u)) => Owes(Kept(D), CallId, <<>>)
      /\ \A u \in D : Awaited(D, u)
  BY <1>3 DEF KeptInv
<1>5. CASE t \in D
  <2>1. Owing(D, t) /\ Awaited(D, t)
    BY <1>1, <1>4, <1>5 DEF Owing
  <2>2. Owing(D, t)' /\ Awaited(D, t)'
    BY <1>5, <2>1, OwingStep
  <2> QED
    BY <1>1, <1>5, <2>2 DEF Owing
<1>6. CASE t \notin D
  <2>1. Kept(D)' = Kept(D)
    <3>1. CASE messages' = messages
      BY <3>1 DEF Kept
    <3>2. ASSUME NEW m \in Message, m.turn = t, messages' = Append(messages, m)
          PROVE  Kept(D)' = Kept(D)
      BY <1>0, <1>6, <3>2, KeptStored
    <3> QED
      BY <1>0, <3>1, <3>2, OwnMessages
  <2> QED
    BY <1>1, <1>4, <1>6, <2>1
<1> QED
  BY <1>5, <1>6

\* When no turn has failed and t is reading, the store is a dialogue that owes nothing;
\* so are, whatever failed, the messages of turns that have not.
LEMMA ReadsDialogue ==
    ASSUME IInv, SerialInv, KeptInv, ~Concurrent, NEW t \in Turns, pc[t] \in {"read", "history"}
    PROVE  /\ (\A u \in Turns : pc[u] # "failed") => Owes(messages, CallId, <<>>)
           /\ \A D \in SUBSET Turns :
                 (\A u \in D : pc[u] # "failed") => Owes(Kept(D), CallId, <<>>)
<1>1. \A u \in Turns : ~Working(u)
  BY DEF SerialInv, Running, Ended, Working
<1>2. \A D \in SUBSET Turns : (\A u \in D : pc[u] # "failed") => Owes(Kept(D), CallId, <<>>)
  BY <1>1 DEF KeptInv
<1>3. Kept(Turns) = messages
  <2>1. messages \in Seq(Message)
    BY DEF IInv, TypeOK
  <2>2. \A i \in DOMAIN messages : messages[i].turn \in Turns
    <3> TAKE i \in DOMAIN messages
    <3>1. messages[i] \in Message
      BY <2>1
    <3> QED
      BY <3>1 DEF Message
  <2> QED
    BY <2>1, <2>2, DetailedAll DEF Kept
<1> QED
  BY <1>2, <1>3

\* Whatever is selected is of turns of the session, and a lean context selects none
\* that has failed.
LEMMA DetailedTurns ==
    ASSUME IInv, HistoryInv, NEW t \in Turns, pc[t] # "failed", NEW rows \in HistoryTurns
    PROVE  LET D == selectDetailedTurnIDs(messages, rows, t, contextFull)
           IN  D \in SUBSET Turns /\ (contextFull = 0 => \A u \in D : pc[u] # "failed")
<1> DEFINE N == lastNTurnIDs(messages, t, contextFull)
           I == {r.turn : r \in {s \in ToSet(rows) : s.status = "incomplete"}}
           D == selectDetailedTurnIDs(messages, rows, t, contextFull)
<1>0. TypeOK
  BY DEF IInv
<1>1. D = {t} \cup (IF contextFull > 0 THEN N ELSE {}) \cup I
  BY DEF selectDetailedTurnIDs
<1>2. N \subseteq Turns
  <2>1. \A i \in DOMAIN messages : messages[i].turn \in Turns
    <3> TAKE i \in DOMAIN messages
    <3>1. messages \in Seq(Message) /\ messages[i] \in Message
      BY <1>0 DEF TypeOK
    <3> QED
      BY <3>1 DEF Message
  <2> QED
    BY <2>1 DEF lastNTurnIDs
<1>3. \A u \in I : u \in Turns /\ pc[u] # "failed"
  <2> SUFFICES ASSUME NEW r \in ToSet(rows), r.status = "incomplete"
               PROVE  r.turn \in Turns /\ pc[r.turn] # "failed"
    OBVIOUS
  <2>1. r \in history
    BY <1>0, ReadRows DEF ToSet
  <2>2. r.turn \in Turns
    BY <1>0, <2>1 DEF TypeOK, Row
  <2>3. RowsInv(r.turn)
    BY <2>2 DEF IInv
  <2> QED
    BY <2>1, <2>2, <2>3 DEF RowsInv
<1> HIDE DEF N, I, D
<1>4. D \in SUBSET Turns
  BY <1>1, <1>2, <1>3
<1>5. contextFull = 0 => D = {t} \cup I
  BY <1>1
<1> QED
  BY <1>3, <1>4, <1>5 DEF D

\* A context is made of such a dialogue, and of summaries that owe nothing.
LEMMA AcceptStep ==
    ASSUME ContextInv, KeptInv, AcceptInv, NEW t \in Turns, Acts(t)
    PROVE  AcceptInv'
<1>0. IInv /\ TypeOK /\ HistoryInv /\ SerialInv /\ DOMAIN context = Turns /\ ViewInv(t)
  BY DEF ContextInv, IInv, TypeOK
<1> SUFFICES ASSUME ~Concurrent, NEW u \in Turns, pc'[u] = "complete", context'[u] # <<>>,
                    (contextFull' = 0 /\ snapshot'[u] = <<>>) \/ \A v \in Turns : pc'[v] # "failed"
             PROVE  Owes(context'[u], CallId, <<>>)
  BY DEF AcceptInv, Blind, Selected
<1>1. u = t
  BY <1>0, AloneStep DEF Running, Ended
<1>2. ReadMessages(t) \/ ReadHistory(t)
  BY <1>0, <1>1, ReadsOf
<1>3. /\ pc[t] \in {"read", "history"} /\ contextFull' = contextFull
      /\ \A v \in Turns : v # t => pc'[v] = pc[v]
  BY <1>0, <1>2 DEF ReadMessages, ReadHistory, ambientVars, Goto, TypeOK
<1>4. (\A v \in Turns : pc'[v] # "failed") => Owes(messages, CallId, <<>>)
  <2>1. (\A v \in Turns : pc'[v] # "failed") => \A v \in Turns : pc[v] # "failed"
    BY <1>3
  <2> QED
    BY <1>0, <1>3, <2>1, ReadsDialogue
<1>5. CASE ReadMessages(t)
  <2>1. pc[t] = "read" /\ context[t] = <<>>
    BY <1>0, <1>5 DEF ReadMessages, ViewInv
  <2>2. contextFull < 0 /\ context'[t] = messages
    BY <1>0, <1>1, <1>5, <2>1 DEF ReadMessages, Goto, TypeOK, viewVars
  <2>3. ~(contextFull' = 0)
    BY <1>3, <2>2
  <2> QED
    BY <1>1, <1>4, <2>2, <2>3
<1>6. CASE ReadHistory(t)
  <2>1. pc[t] = "history" /\ snapshot[t] = messages /\ messages \in Seq(Message)
    BY <1>0, <1>6 DEF SerialInv, ReadHistory, TypeOK
  <2>2. CASE context' = [context EXCEPT ![t] = snapshot[t]] /\ UNCHANGED snapshot
    <3>1. context'[t] = messages /\ snapshot'[t] = messages
      BY <1>0, <2>1, <2>2
    <3> QED
      BY <1>1, <1>4, <3>1
  <2>3. ASSUME NEW rows \in HistoryTurns,
               NEW c \in BuildContextMessages(snapshot[t], rows, t, contextFull),
               context' = [context EXCEPT ![t] = c]
        PROVE  Owes(context'[u], CallId, <<>>)
    <3>1. context'[u] = c
      BY <1>0, <1>1, <2>3
    <3>2. CASE contextFull < 0
      <4>1. c = messages /\ ~(contextFull' = 0)
        BY <1>3, <2>1, <2>3, <3>2 DEF BuildContextMessages
      <4> QED
        BY <1>4, <3>1, <4>1
    <3>3. CASE ~(contextFull < 0)
      <4> DEFINE D == selectDetailedTurnIDs(messages, rows, t, contextFull)
      <4>1. D \in SUBSET Turns /\ (contextFull = 0 => \A v \in D : pc[v] # "failed")
        BY <1>0, <1>3, DetailedTurns
      <4>2. rows \in Seq(Row)
        BY <1>0, ReadRows
      <4> HIDE DEF D
      <4>3. \A v \in D : pc[v] # "failed"
        BY <1>3, <4>1
      <4>4. Owes(Kept(D), CallId, <<>>)
        BY <1>0, <1>3, <4>1, <4>3, ReadsDialogue
      <4>5. Owes(appendDetailedMessages(messages, D), CallId, <<>>)
        BY <4>4 DEF Kept
      <4>6. c \in BuildContextMessages(messages, rows, t, contextFull)
        BY <2>1, <2>3
      <4>7. Owes(c, CallId, <<>>)
        BY <2>1, <3>3, <4>2, <4>5, <4>6, CallsAreCalls, SummariesAreMessages, ContextOwes DEF D
      <4> QED
        BY <3>1, <4>7
    <3> QED
      BY <3>2, <3>3
  <2> QED
    BY <1>6, <2>2, <2>3 DEF ReadHistory
<1> QED
  BY <1>2, <1>5, <1>6

\* A step of one turn leaves the messages of every other as they are.
LEMMA OwnStep ==
    ASSUME IInv, OwnInv, NEW t \in Turns, Acts(t)
    PROVE  OwnInv'
<1>0. TypeOK /\ \A u \in Turns : LocalsInv(u)
  BY DEF IInv
<1> SUFFICES ASSUME NEW u \in Turns, pc'[u] # "failed"
             PROVE  Owing({u}, u)' /\ Awaited({u}, u)'
  BY DEF OwnInv
<1>1. CASE u = t
  <2>1. pc[t] # "failed"
    BY <1>0, ActsFrom DEF Idle, Running, Ended
  <2> QED
    BY <1>1, <2>1, OwingStep DEF OwnInv
<1>2. CASE u # t
  <2>1. Undisturbed(u)
    BY <1>0, <1>2, OthersUndisturbed
  <2>2. Kept({u})' = Kept({u})
    <3>1. CASE messages' = messages
      BY <3>1 DEF Kept
    <3>2. ASSUME NEW m \in Message, m.turn # u, messages' = Append(messages, m)
          PROVE  Kept({u})' = Kept({u})
      BY <1>0, <3>2, KeptStored
    <3> QED
      BY <2>1, <3>1, <3>2 DEF Undisturbed
  <2>3. Owing({u}, u) /\ Awaited({u}, u)
    BY <2>1 DEF OwnInv, Undisturbed
  <2>4. pc'[u] = pc[u] /\ Rest(u)' = Rest(u)
    BY <2>1 DEF Undisturbed, Rest
  <2> QED
    BY <2>2, <2>3, <2>4 DEF Owing, Awaited, Working
<1> QED
  BY <1>1, <1>2

\* An incomplete row stays: its turn takes no further step.
LEMMA IncompleteStays ==
    ASSUME IInv, NEW t \in Turns, Acts(t), \A r \in history' : r.status = "complete"
    PROVE  \A r \in history : r.status = "complete"
<1>0. TypeOK /\ \A u \in Turns : LocalsInv(u) /\ RowsInv(u)
  BY DEF IInv
<1> SUFFICES ASSUME NEW r \in history, r.status # "complete" PROVE FALSE
  OBVIOUS
<1>1. r.turn \in Turns /\ r.status = "incomplete"
  BY <1>0 DEF TypeOK, Row
<1>2. pc[r.turn] = "exhausted"
  BY <1>0, <1>1 DEF RowsInv
<1>3. r.turn # t
  BY <1>0, <1>2, ActsFrom DEF Idle, Running, Ended
<1>4. r \in history'
  BY <1>0, <1>1, <1>3, OthersUndisturbed DEF Undisturbed
<1> QED
  BY <1>4

\* The messages kept for one turn are its own.
LEMMA KeptOfOne ==
    ASSUME NEW s \in Seq(Message), NEW t \in Turns
    PROVE  appendDetailedMessages(s, {t}) = OfTurn(s, t)
<1>1. \A i \in DOMAIN s : s[i].turn # NoTurn
  <2> TAKE i \in DOMAIN s
  <2>1. s[i] \in Message
    OBVIOUS
  <2> QED
    BY <2>1, TurnsAssumption DEF Message
<1> DEFINE kept == [i \in DOMAIN s |->
                       IF s[i].turn = NoTurn \/ s[i].turn \in {t} THEN <<s[i]>> ELSE <<>>]
           own == [i \in DOMAIN s |-> IF s[i].turn = t THEN <<s[i]>> ELSE <<>>]
<1>2. kept = own
  BY <1>1
<1>3. appendDetailedMessages(s, {t}) = FlattenSeq(kept) /\ OfTurn(s, t) = FlattenSeq(own)
  BY DEF appendDetailedMessages, OfTurn, Where
<1> HIDE DEF kept, own
<1> QED
  BY <1>2, <1>3

\* A lean context is made of the turn's own messages and of summaries, if no turn is
\* incomplete.
LEMMA LeanStep ==
    ASSUME ContextInv, OwnInv, LeanInv, NEW t \in Turns, Acts(t)
    PROVE  LeanInv'
<1>0. IInv /\ TypeOK /\ HistoryInv /\ DOMAIN context = Turns /\ ViewInv(t)
      /\ \A u \in Turns : LocalsInv(u)
  BY DEF ContextInv, IInv, TypeOK
<1> SUFFICES ASSUME NEW u \in Turns, pc'[u] = "complete", contextFull' = 0,
                    snapshot'[u] = <<>>, context'[u] # <<>>,
                    \A r \in history' : r.status = "complete"
             PROVE  Owes(context'[u], CallId, <<>>)
  BY DEF LeanInv, Blind, Selected
<1>1. contextFull = 0
  BY ModeKept
<1>2. \A r \in history : r.status = "complete"
  BY <1>0, IncompleteStays
<1>3. CASE u # t
  <2>1. pc'[u] = pc[u] /\ snapshot'[u] = snapshot[u] /\ context'[u] = context[u]
    BY <1>0, <1>3, ViewKept
  <2> QED
    BY <1>1, <1>2, <2>1 DEF LeanInv, Blind, Selected
<1>4. CASE u = t
  <2>1. ReadMessages(t) \/ ReadHistory(t)
    BY <1>0, <1>4, ReadsOf
  <2>2. ~ReadMessages(t)
    BY <1>0, <1>1, <1>4 DEF ReadMessages, ViewInv, viewVars, Goto, TypeOK
  <2>3. /\ pc[t] = "history"
        /\ \E rows \in HistoryTurns :
              \E c \in BuildContextMessages(snapshot[t], rows, t, contextFull) :
                  context' = [context EXCEPT ![t] = c]
    BY <1>0, <1>4, <2>1, <2>2 DEF ReadHistory
  <2>4. PICK rows \in HistoryTurns :
            \E c \in BuildContextMessages(snapshot[t], rows, t, contextFull) :
                context' = [context EXCEPT ![t] = c]
    BY <2>3
  <2>5. PICK c \in BuildContextMessages(snapshot[t], rows, t, contextFull) :
             context' = [context EXCEPT ![t] = c]
    BY <2>4
  <2>6. context'[u] = c
    BY <1>0, <1>4, <2>5
  <2> DEFINE read == snapshot[t]
             D == selectDetailedTurnIDs(read, rows, t, contextFull)
  <2>7. rows \in Seq(Row) /\ read \in Seq(Message)
    BY <1>0, ReadRows DEF TypeOK
  <2>8. D = {t}
    <3>1. \A s \in ToSet(rows) : s.status # "incomplete"
      BY <1>0, <1>2, ReadRows DEF ToSet
    <3> QED
      BY <1>1, <3>1 DEF selectDetailedTurnIDs
  <2>9. appendDetailedMessages(read, {t}) = Kept({t})
    <3>1. OfTurn(read, t) = OfTurn(messages, t)
      BY <1>0, <2>3 DEF ViewInv
    <3>2. messages \in Seq(Message)
      BY <1>0 DEF TypeOK
    <3> HIDE DEF read
    <3> QED
      BY <2>7, <3>1, <3>2, KeptOfOne DEF Kept
  <2>10. Owes(Kept({t}), CallId, <<>>)
    BY <2>3 DEF OwnInv, Owing, Working
  <2>11. c \in BuildContextMessages(read, rows, t, contextFull) /\ ~(contextFull < 0)
    BY <1>1, <2>5
  <2> HIDE DEF read
  <2>12. Owes(appendDetailedMessages(read, D), CallId, <<>>)
    BY <2>8, <2>9, <2>10
  <2>13. Owes(c, CallId, <<>>)
    BY <2>7, <2>11, <2>12, CallsAreCalls, SummariesAreMessages, ContextOwes
  <2> QED
    BY <2>6, <2>13
<1> QED
  BY <1>3, <1>4

RequestInv == KeptInv /\ AcceptInv /\ OwnInv /\ LeanInv

LEMMA RequestStep ==
    ASSUME ContextInv, RequestInv, [Next]_vars
    PROVE  RequestInv'
<1>0. IInv /\ SerialInv /\ KeptInv /\ AcceptInv /\ OwnInv /\ LeanInv
  BY DEF ContextInv, RequestInv
<1>1. ASSUME NEW t \in Turns, Acts(t) PROVE RequestInv'
  BY <1>0, <1>1, KeptStep, AcceptStep, OwnStep, LeanStep DEF RequestInv
<1>2. CASE UNCHANGED <<contextFull, pc, turnVars, viewVars, storeVars>>
  <2>1. UNCHANGED <<contextFull, pc, reply, done, snapshot, context, messages, history>>
    BY <1>2 DEF turnVars, viewVars, storeVars
  <2>2. KeptInv'
    BY <1>0, <2>1 DEF KeptInv, Kept, Rest, Working, Awaited
  <2>3. AcceptInv'
    BY <1>0, <2>1 DEF AcceptInv, Blind, Selected
  <2>4. OwnInv'
    BY <1>0, <2>1 DEF OwnInv, Owing, Kept, Rest, Working, Awaited
  <2>5. LeanInv'
    BY <1>0, <2>1 DEF LeanInv, Blind, Selected
  <2> QED
    BY <2>2, <2>3, <2>4, <2>5 DEF RequestInv
<1> QED
  BY <1>1, <1>2 DEF Next, Acts, Tick, Quiet, vars, ambientVars

LEMMA RequestInit == Init => RequestInv
<1> SUFFICES ASSUME Init PROVE RequestInv
  OBVIOUS
<1>1. messages = <<>> /\ \A t \in Turns : pc[t] = "idle"
  BY DEF Init
<1>2. ASSUME NEW D PROVE Kept(D) = <<>>
  <2>1. appendDetailedMessages(messages, D) = messages
    <3>1. messages \in Seq(Message) /\ DOMAIN messages = {}
      BY <1>1
    <3>2. \A i \in DOMAIN messages : messages[i].turn \in D
      BY <3>1
    <3> QED
      BY <3>1, <3>2, DetailedAll
  <2> QED
    BY <1>1, <2>1 DEF Kept
<1>3. KeptInv
  BY <1>1, <1>2, OwesNothing DEF KeptInv, Working, Awaited
<1>4. AcceptInv /\ LeanInv
  BY <1>1 DEF AcceptInv, LeanInv
<1>5. OwnInv
  BY <1>1, <1>2, OwesNothing DEF OwnInv, Owing, Working, Awaited
<1> QED
  BY <1>3, <1>4, <1>5 DEF RequestInv

\* In every reachable state the stored messages of a turn that has not failed are a
\* dialogue that owes the results under way, and if turns do not overlap those of any
\* such turns are; so what Chat sends owes nothing.
THEOREM DialogueInvariant == Spec => [](ContextInv /\ RequestInv)
<1>1. Init => ContextInv /\ RequestInv
  BY ContextInit, RequestInit
<1>2. ContextInv /\ RequestInv /\ [Next]_vars => (ContextInv /\ RequestInv)'
  BY ContextStep, RequestStep
<1> QED
  BY <1>1, <1>2, PTL DEF Spec

\* Both clients make a request of a context that its API accepts: roles alternate, and
\* the results of a response's calls are all there, right behind it.  It takes a context
\* selected in lean mode (if turns overlap, with no incomplete turn on record), or turns
\* that do not overlap and none of which has failed.
THEOREM RequestsCorrect == Spec => []RequestAccepted
<1>1. ContextInv /\ RequestInv => RequestAccepted
  <2> SUFFICES ASSUME ContextInv, RequestInv PROVE RequestAccepted
    OBVIOUS
  <2>1. ASSUME NEW t \in Turns, pc[t] = "complete", ~Blind(t),
               \/ /\ contextFull = 0 /\ Selected(t)
                  /\ Concurrent => \A r \in history : r.status = "complete"
               \/ ~Concurrent /\ \A u \in Turns : pc[u] # "failed"
        PROVE  /\ OpenAIAccepts(toOpenAIMessages(context[t]))
               /\ \A empty \in SUBSET Wordless(context[t]) :
                     AnthropicAccepts(toAnthropicMessages(context[t], empty))
    <3>1. Owes(context[t], CallId, <<>>)
      <4>1. CASE Concurrent
        BY <2>1, <4>1 DEF RequestInv, LeanInv
      <4>2. CASE ~Concurrent
        BY <2>1, <4>2 DEF RequestInv, AcceptInv
      <4> QED
        BY <4>1, <4>2
    <3>2. context[t] \in Seq(Message) /\ context[t] # <<>>
      BY <2>1 DEF ContextInv, ViewInv, Blind
    <3>3. OpenAIAccepts(toOpenAIMessages(context[t]))
      BY <3>1, <3>2, CallsAreCalls, DialogueForOpenAI
    <3>4. ASSUME NEW empty PROVE AnthropicAccepts(toAnthropicMessages(context[t], empty))
      BY <3>1, <3>2, CallsAreCalls, DialogueForAnthropic
    <3> QED
      BY <3>3, <3>4
  <2> QED
    BY <2>1, RegistryServed DEF RequestAccepted
<1> QED
  BY <1>1, DialogueInvariant, PTL
====
