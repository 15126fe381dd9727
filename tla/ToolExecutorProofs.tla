---- MODULE ToolExecutorProofs ----
(***************************************************************************)
(* Proofs about ToolExecutor, for any number of calls, any limit (also     *)
(* zero and less), any tools and any choice of handlers: the type          *)
(* invariant, the bound on the concurrency, what Execute returns when it   *)
(* succeeds and when it fails, that nothing of a batch runs on after it,   *)
(* and the step simulation of ToolBatch.                                   *)
(***************************************************************************)
EXTENDS ToolExecutor, FiniteSetTheorems, TLAPS

----
\* The inductive invariant.

Working == {"start", "lookup", "run", "end"}

\* The calls that hold a slot of the semaphore, in a parallel batch.
Holding == {i \in Call : pc[i] \in Working \cup {"release"}}

\* The semaphore has one send for each call that holds a slot.
SlotsInv ==
    IF Sequential
    THEN slots = 0 /\ \A i \in Call : pc[i] # "release"
    ELSE slots = Cardinality(Holding) /\ slots <= limit

\* A loop takes its calls in order, and goes on from a success only.
LoopInv ==
    Sequential =>
        \A i \in Call : pc[i] # "queued" =>
            \A j \in 1..(i - 1) : pc[j] = "done" /\ ~errs[j]

\* What the place of a call says about its slots and its events.
CallInv(i) ==
    /\ pc[i] \in {"queued"} \cup Working => ~errs[i]
    /\ pc[i] \in {"lookup", "run", "end"} => i \in started
    /\ pc[i] = "end" => executions[i].call = i
    /\ errs[i] <=> i \in refused
    /\ pc[i] \in {"release", "done"} /\ ~errs[i] =>
          executions[i].call = i /\ i \in started /\ i \in ended

\* What Execute's return says about the calls.
ReturnInv ==
    /\ outcome = "called" => \A i \in Call : pc[i] = "queued"
    /\ outcome \in {"ok", "error"} => \A i \in Call : pc[i] \in {"queued", "done"}
    /\ outcome = "ok" =>
          /\ \A i \in Call : pc[i] = "done" /\ ~errs[i]
          /\ returned = executions
    /\ outcome = "error" =>
          \/ registered = {} /\ \A i \in Call : pc[i] = "queued"
          \/ \E i \in Call : pc[i] = "done" /\ errs[i]

IInv ==
    /\ TypeOK
    /\ SlotsInv
    /\ LoopInv
    /\ \A i \in Call : CallInv(i)
    /\ ReturnInv

----
\* What a step of one call leaves alone.

LEMMA ResultTypes ==
    ASSUME TypeOK, NEW i \in Call, NEW kind \in Kind
    PROVE  /\ [call |-> i, kind |-> kind] \in [call : 0..MaxCalls, kind : Kind]
           /\ None \in [call : 0..MaxCalls, kind : Kind]
<1>1. MaxCalls \in Nat \ {0} /\ i \in 0..MaxCalls
  BY MaxCallsAssumption DEF TypeOK, Call
<1> QED
  BY <1>1 DEF None, Kind

LEMMA BatchKept ==
    ASSUME Next \/ UNCHANGED vars
    PROVE  /\ calls' = calls /\ toolOf' = toolOf /\ limit' = limit
           /\ Call' = Call
           /\ Sequential' = Sequential
<1>1. UNCHANGED batchVars
  BY DEF Next, vars, Enter, Single, StartNext, Acquire, HandleStart, Lookup, Run, HandleEnd,
         Release, Return, ToolsChange, Returned
<1> QED
  BY <1>1 DEF batchVars, Call, Sequential

LEMMA Frame ==
    ASSUME TypeOK, NEW i \in Call, Single(i)
    PROVE  /\ UNCHANGED <<registered, outcome, returned>>
           /\ \A j \in Call : j # i =>
                 /\ pc'[j] = pc[j]
                 /\ errs'[j] = errs[j]
                 /\ executions'[j] = executions[j]
           /\ started' \in {started, started \cup {i}}
           /\ ended' \in {ended, ended \cup {i}}
           /\ refused' \in {refused, refused \cup {i}}
<1> USE DEF TypeOK, Goto, Deliver, slotVars, eventVars
<1>1. CASE StartNext(i)
  BY <1>1 DEF StartNext
<1>2. CASE Acquire(i)
  BY <1>2 DEF Acquire
<1>3. CASE HandleStart(i)
  BY <1>3 DEF HandleStart
<1>4. CASE Lookup(i)
  BY <1>4 DEF Lookup
<1>5. CASE Run(i)
  BY <1>5 DEF Run
<1>6. CASE HandleEnd(i)
  BY <1>6 DEF HandleEnd
<1>7. CASE Release(i)
  BY <1>7 DEF Release
<1> QED
  BY <1>1, <1>2, <1>3, <1>4, <1>5, <1>6, <1>7 DEF Single

----
\* Types.

LEMMA InitInv == Init => IInv
<1> SUFFICES ASSUME Init PROVE IInv
  OBVIOUS
<1>1. MaxCalls \in Nat \ {0} /\ calls \in 1..MaxCalls /\ calls \in Nat
  BY MaxCallsAssumption DEF Init
<1>2. None \in [call : 0..MaxCalls, kind : Kind]
  BY <1>1 DEF None, Kind
<1>3. TypeOK
  BY <1>1, <1>2 DEF Init, TypeOK, Label
<1>4. \A i \in Call : pc[i] = "queued" /\ ~errs[i] /\ executions[i] = None
  BY DEF Init
<1>5. SlotsInv
  <2>1. Holding = {} /\ Cardinality({}) = 0
    BY <1>4, FS_EmptySet DEF Holding, Working
  <2>2. slots = 0 /\ limit \in Int
    BY LimitsAssumption DEF Init
  <2> QED
    BY <1>4, <2>1, <2>2 DEF SlotsInv, Sequential
<1> QED
  BY <1>3, <1>4, <1>5 DEF Init, IInv, LoopInv, CallInv, ReturnInv, Working

LEMMA HoldingFinite == ASSUME TypeOK PROVE IsFiniteSet(Holding)
<1>1. calls \in Int
  BY MaxCallsAssumption DEF TypeOK
<1>2. IsFiniteSet(Call)
  BY <1>1, FS_Interval DEF Call
<1>3. Holding \in SUBSET Call
  BY DEF Holding
<1> QED
  BY <1>2, <1>3, FS_Subset

LEMMA DeliverType ==
    ASSUME TypeOK, NEW i \in Call, NEW result \in [call : 0..MaxCalls, kind : Kind],
           NEW err \in BOOLEAN, Deliver(i, result, err)
    PROVE  /\ executions' \in [Call -> [call : 0..MaxCalls, kind : Kind]]
           /\ errs' \in [Call -> BOOLEAN]
           /\ pc' \in [Call -> Label]
  BY DEF Deliver, Goto, TypeOK, Label

LEMMA SingleType ==
    ASSUME TypeOK, SlotsInv, NEW i \in Call, Single(i)
    PROVE  TypeOK'
<1> USE DEF TypeOK, Goto, batchVars, slotVars, eventVars, Label
<1>0. Call' = Call
  BY BatchKept DEF Next
<1>1. CASE StartNext(i)
  BY <1>0, <1>1 DEF StartNext
<1>2. CASE Acquire(i)
  BY <1>0, <1>2 DEF Acquire
<1>3. CASE HandleStart(i)
  <2>1. UNCHANGED <<batchVars, registered, outcome, returned, slots, ended>>
    BY <1>3 DEF HandleStart
  <2>2. CASE Goto(i, "lookup") /\ started' = started \cup {i} /\ UNCHANGED <<slotVars, refused>>
    BY <1>0, <2>1, <2>2
  <2>3. CASE /\ Deliver(i, None, TRUE) /\ started' \in {started, started \cup {i}}
             /\ refused' = refused \cup {i}
    <3>1. None \in [call : 0..MaxCalls, kind : Kind]
      BY ResultTypes DEF Kind
    <3> QED
      BY <1>0, <2>1, <2>3, <3>1, DeliverType
  <2> QED
    BY <1>3, <2>2, <2>3 DEF HandleStart
<1>4. CASE Lookup(i)
  <2>1. [call |-> i, kind |-> "error"] \in [call : 0..MaxCalls, kind : Kind]
    BY ResultTypes DEF Kind
  <2>2. executions' \in [Call -> [call : 0..MaxCalls, kind : Kind]]
    BY <1>4, <2>1 DEF Lookup
  <2>3. pc' \in [Call -> Label]
    <3>1. \E label \in {"run", "end"} : pc' = [pc EXCEPT ![i] = label]
      BY <1>4 DEF Lookup
    <3> QED
      BY <3>1
  <2> QED
    BY <1>0, <1>4, <2>2, <2>3 DEF Lookup
<1>5. CASE Run(i)
  <2>1. PICK kind \in {"output", "error"} :
           executions' = [executions EXCEPT ![i] = [call |-> i, kind |-> kind]]
    BY <1>5 DEF Run
  <2>2. [call |-> i, kind |-> kind] \in [call : 0..MaxCalls, kind : Kind]
    BY ResultTypes DEF Kind
  <2> QED
    BY <1>0, <1>5, <2>1, <2>2 DEF Run
<1>6. CASE HandleEnd(i)
  <2>1. /\ UNCHANGED <<batchVars, registered, outcome, returned, slots, started>>
        /\ ended' \in {ended, ended \cup {i}}
        /\ refused' \in {refused, refused \cup {i}}
    BY <1>6 DEF HandleEnd
  <2>2. PICK result \in {executions[i], None}, err \in BOOLEAN : Deliver(i, result, err)
    BY <1>6 DEF HandleEnd
  <2>3. result \in [call : 0..MaxCalls, kind : Kind]
    BY ResultTypes DEF Kind
  <2> QED
    BY <1>0, <2>1, <2>2, <2>3, DeliverType
<1>7. CASE Release(i)
  <2>1. pc[i] = "release"
    BY <1>7 DEF Release
  <2>2. i \in Holding /\ ~Sequential /\ slots = Cardinality(Holding)
    BY <2>1 DEF SlotsInv, Holding
  <2>3. IsFiniteSet(Holding)
    BY HoldingFinite
  <2>4. slots # 0
    BY <2>2, <2>3, FS_EmptySet
  <2> QED
    BY <1>0, <1>7, <2>4 DEF Release
<1> QED
  BY <1>1, <1>2, <1>3, <1>4, <1>5, <1>6, <1>7 DEF Single

----
\* The semaphore.

LEMMA SingleSlots ==
    ASSUME TypeOK, SlotsInv, NEW i \in Call, Single(i)
    PROVE  SlotsInv'
<1> USE DEF TypeOK, Goto
<1>0. Call' = Call /\ limit' = limit /\ Sequential' = Sequential
  BY BatchKept DEF Next
<1>1. \A j \in Call : j # i => pc'[j] = pc[j]
  BY Frame
<1>2. limit \in Int
  BY LimitsAssumption
<1>3. IsFiniteSet(Holding)
  BY HoldingFinite
<1>4. CASE Sequential
  BY <1>0, <1>4
     DEF SlotsInv, Single, StartNext, Acquire, HandleStart, Lookup, Run, HandleEnd, Release,
         Deliver, Working
<1>5. CASE ~Sequential /\ Acquire(i)
  <2>1. pc[i] = "queued" /\ slots' = slots + 1 /\ slots < limit /\ pc' = [pc EXCEPT ![i] = "start"]
    BY <1>5 DEF Acquire
  <2>2. i \notin Holding /\ Holding' = Holding \cup {i}
    BY <1>0, <1>1, <2>1 DEF Holding, Working
  <2>3. Cardinality(Holding') = Cardinality(Holding) + 1
    BY <1>3, <2>2, FS_AddElement
  <2> QED
    BY <1>0, <1>2, <1>5, <2>1, <2>3 DEF SlotsInv
<1>6. CASE ~Sequential /\ Release(i)
  <2>1. pc[i] = "release" /\ slots' = slots - 1 /\ pc' = [pc EXCEPT ![i] = "done"]
    BY <1>6 DEF Release
  <2>2. i \in Holding /\ Holding' = Holding \ {i}
    BY <1>0, <1>1, <2>1 DEF Holding, Working
  <2>3. Cardinality(Holding') = Cardinality(Holding) - 1
    BY <1>3, <2>2, FS_RemoveElement
  <2> QED
    BY <1>0, <1>2, <1>6, <2>1, <2>3 DEF SlotsInv
<1>7. CASE ~Sequential /\ (HandleStart(i) \/ Lookup(i) \/ Run(i) \/ HandleEnd(i))
  <2>1. slots' = slots /\ pc[i] \in Working /\ pc'[i] \in Working \cup {"release"}
    BY <1>7 DEF HandleStart, Lookup, Run, HandleEnd, Deliver, Working
  <2>2. Holding' = Holding
    BY <1>0, <1>1, <2>1 DEF Holding, Working
  <2> QED
    BY <1>0, <1>7, <2>1, <2>2 DEF SlotsInv
<1> QED
  BY <1>4, <1>5, <1>6, <1>7 DEF Single, StartNext

----
\* The loop, the calls, and the return.

LEMMA SingleLoop ==
    ASSUME TypeOK, SlotsInv, LoopInv, \A j \in Call : CallInv(j),
           NEW i \in Call, Single(i)
    PROVE  LoopInv'
<1> SUFFICES ASSUME Sequential
             PROVE  \A k \in Call : pc'[k] # "queued" =>
                        \A j \in 1..(k - 1) : pc'[j] = "done" /\ ~errs'[j]
  BY BatchKept DEF Next, LoopInv
<1>1. calls \in Nat /\ Call = 1..calls
  BY MaxCallsAssumption DEF TypeOK, Call
<1>2. \A j \in Call : j # i => pc'[j] = pc[j] /\ errs'[j] = errs[j]
  BY Frame
<1>3. \A j \in 1..(i - 1) : pc[j] = "done" /\ ~errs[j]
  BY DEF Single, StartNext, Acquire, HandleStart, Lookup, Run, HandleEnd, Release, LoopInv
<1>4. pc[i] # "done"
  BY DEF Single, StartNext, Acquire, HandleStart, Lookup, Run, HandleEnd, Release
<1> SUFFICES ASSUME NEW k \in Call, pc'[k] # "queued", NEW j \in 1..(k - 1)
             PROVE  pc'[j] = "done" /\ ~errs'[j]
  OBVIOUS
<1>5. j \in Call /\ j # k
  BY <1>1
<1>6. CASE k = i
  BY <1>2, <1>3, <1>5, <1>6
<1>7. CASE k # i
  <2>1. pc[j] = "done" /\ ~errs[j]
    BY <1>2, <1>7 DEF LoopInv
  <2> QED
    BY <1>2, <1>4, <1>5, <2>1
<1> QED
  BY <1>6, <1>7

LEMMA SingleCalls ==
    ASSUME TypeOK, \A j \in Call : CallInv(j), NEW i \in Call, Single(i)
    PROVE  \A j \in Call : CallInv(j)'
<1> USE DEF TypeOK, Goto, Working
<1>1. /\ \A j \in Call : j # i =>
              pc'[j] = pc[j] /\ errs'[j] = errs[j] /\ executions'[j] = executions[j]
      /\ started' \in {started, started \cup {i}}
      /\ ended' \in {ended, ended \cup {i}}
      /\ refused' \in {refused, refused \cup {i}}
  BY Frame
<1>2. ASSUME NEW j \in Call, j # i PROVE CallInv(j)'
  BY <1>1, <1>2 DEF CallInv
<1>3. CallInv(i)
  OBVIOUS
<1>4. ASSUME StartNext(i) \/ Acquire(i) \/ Release(i) PROVE CallInv(i)'
  BY <1>3, <1>4 DEF StartNext, Acquire, Release, CallInv, slotVars, eventVars
<1>5. ASSUME HandleStart(i) PROVE CallInv(i)'
  BY <1>3, <1>5 DEF HandleStart, Deliver, CallInv, slotVars
<1>6. ASSUME Lookup(i) PROVE CallInv(i)'
  BY <1>3, <1>6 DEF Lookup, CallInv, slotVars, eventVars
<1>7. ASSUME Run(i) PROVE CallInv(i)'
  BY <1>3, <1>7 DEF Run, CallInv, eventVars
<1>8. ASSUME HandleEnd(i) PROVE CallInv(i)'
  <2>1. pc[i] = "end" /\ i \in started /\ executions[i].call = i
    BY <1>3, <1>8 DEF HandleEnd, CallInv
  <2>2. started' = started /\ pc'[i] \in {"release", "done"}
    BY <1>8 DEF HandleEnd, Deliver
  <2>3. \/ i \in ended' /\ executions'[i] = executions[i] /\ ~errs'[i] /\ refused' = refused
        \/ errs'[i] /\ i \in refused'
    BY <1>8 DEF HandleEnd, Deliver
  <2>4. i \notin refused
    BY <1>3, <2>1 DEF CallInv
  <2> QED
    BY <2>1, <2>2, <2>3, <2>4 DEF CallInv
<1>9. CallInv(i)'
  BY <1>4, <1>5, <1>6, <1>7, <1>8 DEF Single
<1> QED
  BY <1>2, <1>9

\* While a call is worked on Execute has not returned.
LEMMA SingleRunning ==
    ASSUME TypeOK, ReturnInv, NEW i \in Call, Single(i)
    PROVE  outcome = "running"
  BY DEF TypeOK, ReturnInv, Single, StartNext, Acquire, HandleStart, Lookup, Run, HandleEnd, Release

LEMMA SingleStep ==
    ASSUME IInv, NEW i \in Call, Single(i)
    PROVE  IInv'
<1>1. TypeOK' /\ SlotsInv' /\ LoopInv'
  BY SingleType, SingleSlots, SingleLoop DEF IInv
<1>2. Call' = Call
  BY BatchKept DEF Next
<1>3. \A j \in Call' : CallInv(j)'
  BY <1>2, SingleCalls DEF IInv
<1>4. outcome' = "running"
  BY SingleRunning, Frame DEF IInv
<1> QED
  BY <1>1, <1>3, <1>4 DEF IInv, ReturnInv

\* The steps of Execute itself, and of the registry, move no call.
LEMMA BatchStep ==
    ASSUME IInv, Enter \/ Return \/ ToolsChange \/ UNCHANGED vars
    PROVE  IInv'
<1> USE DEF batchVars, slotVars, eventVars
<1>1. UNCHANGED <<batchVars, pc, slots, slotVars, eventVars>>
  BY DEF Enter, Return, ToolsChange, vars
<1>2. Call' = Call /\ Sequential' = Sequential /\ Holding' = Holding
  BY <1>1 DEF Call, Sequential, Holding
<1>3. SlotsInv' /\ LoopInv' /\ \A i \in Call' : CallInv(i)'
  BY <1>1, <1>2 DEF IInv, SlotsInv, LoopInv, CallInv
<1>4. TypeOK'
  BY <1>1, <1>2 DEF IInv, TypeOK, Enter, Return, ToolsChange, vars
<1>5. ReturnInv'
  <2>1. CASE Enter
    BY <1>1, <1>2, <2>1 DEF IInv, ReturnInv, Enter
  <2>2. CASE Return
    <3>1. CASE /\ \A i \in Call : pc[i] = "done" /\ ~errs[i]
               /\ outcome' = "ok" /\ returned' = executions
      BY <1>1, <1>2, <3>1 DEF ReturnInv
    <3>2. CASE /\ \E i \in Call : pc[i] = "done" /\ errs[i]
               /\ Sequential \/ \A i \in Call : pc[i] = "done"
               /\ outcome' = "error"
      <4>1. PICK i \in Call : pc[i] = "done" /\ errs[i]
        BY <3>2
      <4>2. ASSUME NEW j \in Call PROVE pc[j] \in {"queued", "done"}
        <5>1. Call \subseteq Int
          BY DEF Call
        <5>2. j < i => j \in 1..(i - 1)
          BY DEF Call
        <5>3. j > i => i \in 1..(j - 1)
          BY DEF Call
        <5> QED
          BY <3>2, <4>1, <5>1, <5>2, <5>3 DEF IInv, LoopInv
      <4> QED
        BY <1>1, <1>2, <3>2, <4>1, <4>2 DEF ReturnInv
    <3> QED
      BY <2>2, <3>1, <3>2 DEF Return
  <2>3. CASE ToolsChange \/ UNCHANGED vars
    BY <1>1, <1>2, <2>3 DEF IInv, ReturnInv, ToolsChange, vars
  <2> QED
    BY <2>1, <2>2, <2>3
<1> QED
  BY <1>3, <1>4, <1>5 DEF IInv

LEMMA InvStep == IInv /\ [Next]_vars => IInv'
  BY SingleStep, BatchStep DEF Next, Returned

----
\* The theorems.

\* The inductive invariant: Execute's semaphore, its loop, the slots of its
\* calls and its outcome agree in every reachable state.
THEOREM Invariant == Spec => []IInv
  BY InitInv, InvStep, PTL DEF Spec

\* Every variable of the executor keeps its type.
THEOREM TypeCorrect == Spec => []TypeOK
<1>1. IInv => TypeOK
  BY DEF IInv
<1> QED
  BY <1>1, Invariant, PTL

\* However many calls a batch has, no more of them are worked on at once than
\* TOOLS_MAX_CONCURRENT says, and one at a time when it says less than two.
THEOREM ConcurrencyCorrect == Spec => []ConcurrencyBounded
<1>1. IInv => ConcurrencyBounded
  <2> SUFFICES ASSUME IInv PROVE ConcurrencyBounded
    OBVIOUS
  <2> USE DEF IInv
  <2>1. Active \in SUBSET Holding /\ IsFiniteSet(Holding) /\ limit \in Int
    BY HoldingFinite, LimitsAssumption DEF Active, Holding, Working, TypeOK
  <2>2. IsFiniteSet(Active) /\ Cardinality(Active) <= Cardinality(Holding)
    BY <2>1, FS_Subset
  <2>3. CASE ~Sequential
    BY <2>1, <2>2, <2>3, FS_CardinalityType DEF SlotsInv, ConcurrencyBounded, Sequential
  <2>4. CASE Sequential
    <3>1. Call \subseteq Int /\ \A i, j \in Call : j < i => j \in 1..(i - 1)
      BY DEF Call
    <3>2. \A i, j \in Active : i = j
      BY <2>4, <3>1 DEF Active, LoopInv
    <3>3. Active = {} \/ \E i \in Active : Active = {i}
      BY <3>2
    <3>4. Cardinality(Active) \in {0, 1}
      BY <3>3, FS_EmptySet, FS_Singleton
    <3> QED
      BY <2>1, <3>4 DEF ConcurrencyBounded
  <2> QED
    BY <2>3, <2>4
<1> QED
  BY <1>1, Invariant, PTL

\* A batch that succeeds has the result of every call at that call's place, and
\* both events of each call were delivered.
THEOREM ResultsCorrect == Spec => []ResultsMatchCalls
<1>1. IInv => ResultsMatchCalls
  BY DEF IInv, TypeOK, ReturnInv, CallInv, ResultsMatchCalls
<1> QED
  BY <1>1, Invariant, PTL

\* However many calls a batch has, it fails only when a handler refused an event of
\* one of them, or when there was no tool at all and none of them began; and it does
\* not succeed when a handler refused. What a tool does, or that it is gone, never
\* fails the batch.
THEOREM FailureCorrect == Spec => []OnlyHandlersFail
<1>1. IInv => OnlyHandlersFail
  BY DEF IInv, TypeOK, ReturnInv, CallInv, OnlyHandlersFail
<1> QED
  BY <1>1, Invariant, PTL

\* After Execute has returned, with results or with an error, no call of the
\* batch takes another step and no event of it is delivered.
THEOREM QuietAfterReturn == Spec => NothingRunsOn
<1>1. IInv /\ [Next]_vars => [(outcome \in {"ok", "error"}) => (UNCHANGED <<pc, eventVars>>)]_vars
  <2> SUFFICES ASSUME IInv, Next, outcome \in {"ok", "error"}
               PROVE  UNCHANGED <<pc, eventVars>>
    BY DEF vars
  <2>1. ~ \E i \in Call : Single(i)
    BY SingleRunning DEF IInv
  <2> QED
    BY <2>1 DEF Next, Enter, Return, ToolsChange, Returned, vars
<1> QED
  BY <1>1, Invariant, PTL DEF Spec, NothingRunsOn

\* Step by step, a batch is the one step Chat takes it for: pending until it
\* returns every answer in the order of the calls, or an error and no answer.
THEOREM BatchSimulated == Spec => Batch!Init /\ [][Batch!Return]_(Batch!vars)
<1>1. Init => Batch!Init
  BY DEF Init, Batch!Init
<1>2. IInv /\ IInv' /\ [Next]_vars => [Batch!Return]_(Batch!vars)
  <2> SUFFICES ASSUME IInv, IInv', [Next]_vars, ~UNCHANGED Batch!vars
               PROVE  Batch!Return
    OBVIOUS
  <2>0. calls' = calls /\ Call' = Call
    BY BatchKept
  <2>1. ASSUME outcome' = outcome, returned' = returned PROVE FALSE
    BY <2>0, <2>1 DEF Batch!vars
  <2>2. CASE Enter
    <3>1. registered = {}
      BY <2>0, <2>2 DEF Enter, Batch!vars
    <3> QED
      BY <2>0, <2>2, <3>1 DEF Enter, Batch!Return
  <2>3. CASE Return
    <3>1. CASE outcome' = "error"
      BY <2>0, <2>3, <3>1 DEF Return, Batch!Return
    <3>2. CASE outcome' = "ok" /\ returned' = executions /\ \A i \in Call : pc[i] = "done" /\ ~errs[i]
      <4>1. \A i \in Call : returned'[i].call = i
        BY <3>2 DEF IInv, CallInv
      <4>2. [i \in Call' |-> returned'[i].call] = [i \in 1..calls |-> i]
        BY <2>0, <4>1 DEF Call
      <4> QED
        BY <2>0, <2>3, <3>2, <4>2 DEF Return, Batch!Return
    <3> QED
      BY <2>3, <3>1, <3>2 DEF Return
  <2>4. CASE \E i \in Call : Single(i)
    BY <2>1, <2>4, Frame DEF IInv
  <2>5. CASE ToolsChange \/ Returned \/ UNCHANGED vars
    BY <2>1, <2>5 DEF ToolsChange, Returned, vars
  <2> QED
    BY <2>2, <2>3, <2>4, <2>5 DEF Next
<1> QED
  BY <1>1, <1>2, Invariant, PTL DEF Spec

----
\* What a result says to whom.

LEMMA Decoded ==
    ASSUME NEW text
    PROVE  /\ decodeToolText(text) = Nil => text = <<"null">>
           /\ JSON(decodeToolText(text)) # Empty
<1>1. \A a, b : <<a, b>> # <<>> /\ <<a>> # <<>>
  OBVIOUS
<1> QED
  BY <1>1 DEF decodeToolText, Object, Wrap, Nil, JSON, Empty

\* Two payloads, or one where they agree: each role gets what was addressed to it.
LEMMA OutputAddressed ==
    ASSUME NEW content, NEW call
    PROVE  Addressed(content, Result(call, Output(content)))
<1> DEFINE model == textForAudience(content, "assistant")
           client == textForAudience(content, "user")
           output == Output(content)
           result == Result(call, output)
<1>1. /\ output.Model = decodeToolText(model)
      /\ output.Client = IF client # model THEN decodeToolText(client) ELSE Nil
  BY DEF Output
<1>2. /\ result.Content = JSON(output.Model)
      /\ result.ClientContent = IF output.Client # Nil THEN JSON(output.Client) ELSE Empty
  BY DEF Result
<1> HIDE DEF output, result
<1>3. ASSUME client # <<"null">> PROVE ClientPayload(result) = JSON(decodeToolText(client))
  <2>1. CASE client = model
    BY <1>1, <1>2, <2>1 DEF ClientPayload
  <2>2. CASE client # model
    <3>1. output.Client = decodeToolText(client) /\ output.Client # Nil
      BY <1>1, <1>3, <2>2, Decoded
    <3>2. result.ClientContent = JSON(decodeToolText(client)) /\ result.ClientContent # Empty
      BY <1>2, <3>1, Decoded
    <3> QED
      BY <3>2 DEF ClientPayload
  <2> QED
    BY <2>1, <2>2
<1> QED
  BY <1>1, <1>2, <1>3 DEF Addressed, output, result

\* A message whose result is that of its call survives the store.
LEMMA ToolRowRead ==
    ASSUME NEW id, NEW name, NEW input, NEW content, NEW clientContent
    PROVE  LET m == ToolMessage([ID |-> id, Name |-> name, Input |-> input],
                                [ToolCallID |-> id, Content |-> content, ClientContent |-> clientContent])
           IN  RowOf(m).role = "tool" /\ buildToolMessage(RowOf(m).fields) = m
  BY DEF ToolMessage, RowOf, buildToolRoleFields, buildToolMessage

\* So does one that makes calls, or none.
LEMMA AssistantRowRead ==
    ASSUME NEW calling
    PROVE  LET row == RowOf([role |-> "assistant", ToolCalls |-> calling])
           IN  /\ row.role = "assistant"
               /\ calling = IF row.fields = Empty THEN <<>> ELSE Head(row.fields)
<1>1. <<calling>> # <<>> /\ Head(<<calling>>) = calling
  OBVIOUS
<1> QED
  BY <1>1 DEF RowOf, buildAssistantToolInput, JSON, Empty

\* Whatever the tools say, however many calls there are: provider and client are
\* told what was addressed to them, and the turn is read back as it was.
THEOREM AudienceCorrect == Spec => []AudienceKept
<1>1. IInv => AudienceKept
  <2> SUFFICES ASSUME IInv, outcome = "ok", NEW content \in SeqOf(Block, 2)
               PROVE  LET messages == <<[role |-> "user"],
                                        [role |-> "assistant", ToolCalls |-> [i \in Call |-> CallOf(i)]]>>
                                      \o [i \in Call |-> MessageOf(i, content)]
                          read == AllMessages([n \in DOMAIN messages |-> RowOf(messages[n])])
                      IN  /\ read = messages
                          /\ \A i \in Call : returned[i].kind = "output" =>
                                 Addressed(content, read[i + 2].ToolResults[1])
    BY DEF AudienceKept
  <2> DEFINE question == [role |-> "user"]
             response == [role |-> "assistant", ToolCalls |-> [i \in Call |-> CallOf(i)]]
             results == [i \in Call |-> MessageOf(i, content)]
             messages == <<question, response>> \o results
             rows == [n \in DOMAIN messages |-> RowOf(messages[n])]
             read == AllMessages(rows)
  <2>1. /\ DOMAIN messages = 1..(calls + 2) /\ calls \in Nat
        /\ messages[1] = question /\ messages[2] = response
        /\ \A i \in Call : messages[i + 2] = MessageOf(i, content)
    <3>1. calls \in Nat
      BY MaxCallsAssumption DEF IInv, TypeOK
    <3>2. results \in Seq({MessageOf(i, content) : i \in Call}) /\ Len(results) = calls
      BY <3>1 DEF Call
    <3>3. \A i \in Call : results[i] = MessageOf(i, content)
      OBVIOUS
    <3>4. <<question, response>> \in Seq({question, response}) /\ Len(<<question, response>>) = 2
      OBVIOUS
    <3> DEFINE S == {question, response} \cup {MessageOf(i, content) : i \in Call}
    <3>5. <<question, response>> \in Seq(S) /\ results \in Seq(S)
      BY <3>2, <3>4
    <3> HIDE DEF results, question, response, S
    <3>6. /\ DOMAIN messages = 1..(2 + calls)
          /\ messages[1] = <<question, response>>[1] /\ messages[2] = <<question, response>>[2]
          /\ \A i \in 1..calls : messages[i + 2] = results[i]
      BY <3>1, <3>2, <3>4, <3>5
    <3>7. 2 + calls = calls + 2
      BY <3>1
    <3> QED
      BY <3>1, <3>3, <3>6, <3>7 DEF Call
  <2> HIDE DEF messages
  <2>2. ASSUME NEW i \in Call
        PROVE  \E result :
                  /\ messages[i + 2] = ToolMessage(CallOf(i), result)
                  /\ \E c, d : result = [ToolCallID |-> i, Content |-> c, ClientContent |-> d]
                  /\ returned[i].kind = "output" => result = Result(i, Output(content))
    <3>1. returned[i].call = i
      BY DEF IInv, TypeOK, ReturnInv, CallInv
    <3>2. CASE returned[i].kind = "output"
      <4>1. messages[i + 2] = ToolMessage(CallOf(i), Result(i, Output(content)))
        BY <2>1, <3>1, <3>2 DEF MessageOf
      <4> QED
        BY <4>1 DEF Result
    <3>3. CASE returned[i].kind # "output"
      <4>1. messages[i + 2] = ToolMessage(CallOf(i), ErrorResult(i))
        BY <2>1, <3>1, <3>3 DEF MessageOf
      <4> QED
        BY <3>3, <4>1 DEF ErrorResult
    <3> QED
      BY <3>2, <3>3
  <2>3. ASSUME NEW n \in DOMAIN messages PROVE read[n] = messages[n]
    <3>1. /\ rows[n] = RowOf(messages[n])
          /\ read[n] = CASE rows[n].role = "tool" -> buildToolMessage(rows[n].fields)
                         [] rows[n].role = "assistant" ->
                               [role |-> "assistant",
                                ToolCalls |-> IF rows[n].fields = Empty THEN <<>> ELSE Head(rows[n].fields)]
                         [] OTHER -> [role |-> "user"]
      BY DEF AllMessages
    <3> HIDE DEF rows, read
    <3>2. CASE n = 1
      <4>1. messages[n] = question /\ rows[n].role = "user"
        BY <2>1, <3>1, <3>2 DEF RowOf
      <4> QED
        BY <3>1, <4>1
    <3>3. CASE n = 2
      <4> DEFINE calling == [i \in Call |-> CallOf(i)]
      <4>1. messages[n] = [role |-> "assistant", ToolCalls |-> calling]
        BY <2>1, <3>3
      <4> HIDE DEF calling
      <4>2. /\ rows[n].role = "assistant"
            /\ calling = IF rows[n].fields = Empty THEN <<>> ELSE Head(rows[n].fields)
        BY <3>1, <4>1, AssistantRowRead
      <4>3. read[n] = [role |-> "assistant",
                       ToolCalls |-> IF rows[n].fields = Empty THEN <<>> ELSE Head(rows[n].fields)]
        BY <3>1, <4>2
      <4> QED
        BY <4>1, <4>2, <4>3
    <3>4. ASSUME n # 1, n # 2 PROVE read[n] = messages[n]
      <4>1. n - 2 \in Call /\ (n - 2) + 2 = n
        BY <2>1, <3>4 DEF Call
      <4>2. PICK result : /\ messages[n] = ToolMessage(CallOf(n - 2), result)
                          /\ \E c, d : result = [ToolCallID |-> n - 2, Content |-> c, ClientContent |-> d]
        BY <2>2, <4>1
      <4>3. rows[n].role = "tool" /\ buildToolMessage(rows[n].fields) = messages[n]
        BY <3>1, <4>2, ToolRowRead DEF CallOf
      <4> QED
        BY <3>1, <4>3
    <3> QED
      BY <3>2, <3>3, <3>4
  <2>4. read = messages
    <3>1. DOMAIN read = DOMAIN messages
      BY DEF AllMessages
    <3>2. read = [n \in DOMAIN read |-> read[n]]
      BY DEF AllMessages
    <3>3. messages = [n \in DOMAIN messages |-> messages[n]]
      BY DEF messages
    <3> HIDE DEF read
    <3> QED
      BY <2>3, <3>1, <3>2, <3>3
  <2>5. ASSUME NEW i \in Call, returned[i].kind = "output"
        PROVE  Addressed(content, read[i + 2].ToolResults[1])
    <3>1. messages[i + 2] = ToolMessage(CallOf(i), Result(i, Output(content)))
      BY <2>2, <2>5
    <3>2. messages[i + 2].ToolResults[1] = Result(i, Output(content))
      BY <3>1 DEF ToolMessage
    <3> QED
      BY <2>4, <3>2, OutputAddressed
  <2> QED
    BY <2>4, <2>5 DEF messages
<1> QED
  BY <1>1, Invariant, PTL
====
