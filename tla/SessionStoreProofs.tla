---- MODULE SessionStoreProofs ----
(***************************************************************************)
(* Proofs about SessionStore, for any number of CLIs, of requests and of   *)
(* restarts, any session ids and any columns: the five safety invariants   *)
(* of the tables that several processes share.                             *)
(***************************************************************************)
EXTENDS SessionStore, WellFoundedInduction, TLAPS

----
\* The inductive invariant.

Label == {"idle", "between", "create", "insert", "switch", "remove"}

TypeOK ==
    /\ columns \subseteq Columns
    /\ creator \in [Ids -> Processes \cup {NoProcess}]
    /\ messages \subseteq Row
    /\ history \subseteq [session : Ids, turn : Turns]
    /\ phase \in [Processes -> {"down", "migrating", "up"}]
    /\ existing \in [Processes -> SUBSET Columns]
    /\ drawn \subseteq Ids
    /\ begun \in 0..MaxTurns
    /\ pc \in [Actors -> Label]
    /\ DOMAIN chat = Actors
    /\ scope \in [Clis -> Ids]
    /\ listed \in [Clis -> SUBSET Ids]
    /\ acked \subseteq Row

\* What the place of an actor says about its Chat: whose row it wants to create
\* is not there, or another process's, and the session a later message goes to
\* is there unless it was removed.
ChatInv(a) ==
    /\ pc[a] \in Chatting => chat[a] \in [session : Ids, turn : Turns, n : 0..MaxMessages]
    /\ pc[a] = "create" => chat[a].n = 1 /\ creator[chat[a].session] # Process(a)
    /\ pc[a] = "insert" => chat[a].n >= 1
    /\ pc[a] = "insert" \/ (pc[a] = "between" /\ chat[a].n >= 1) =>
          chat[a].session \in Sessions \/ chat[a].turn \in overtaken

\* db.mu: one actor of a process is between two statements.
MutexInv ==
    \A a, b \in Actors :
        Process(a) = Process(b) /\ pc[a] \in {"create", "insert"} /\ pc[b] \in {"create", "insert"}
            => a = b

\* What a migrating process has seen, or added, is there.
MigrationInv ==
    \A p \in Processes :
        /\ phase[p] = "migrating" => existing[p] \subseteq columns
        /\ phase[p] = "up" => columns = Columns

IInv ==
    /\ TypeOK
    /\ \A a \in Actors : ChatInv(a)
    /\ MutexInv
    /\ MigrationInv
    /\ NothingLost
    /\ OrphansOnlyOvertaken
    /\ SessionsHaveQuestion

----
\* Types.

USE DEF tables, openVars, chatVars, cliVars, boundVars, ghostVars

LEMMA InitInv == Init => IInv
<1> SUFFICES ASSUME Init PROVE IInv
  OBVIOUS
<1>1. 0 \in 0..MaxTurns
  BY StoreBoundsAssumption
<1>2. TypeOK
  BY <1>1, ThreadsAssumption DEF Init, TypeOK, Label
<1>3. \A a \in Actors : pc[a] = "idle"
  BY DEF Init
<1>4. MigrationInv
  BY DEF Init, MigrationInv
<1>5. Sessions = {} /\ messages = {} /\ history = {} /\ acked = {}
  BY DEF Init, Sessions
<1> QED
  BY <1>2, <1>3, <1>4, <1>5
     DEF IInv, ChatInv, MutexInv, NothingLost, OrphansOnlyOvertaken, SessionsHaveQuestion, Chatting

\* The migration takes the first of the columns that are missing.
LEMMA NextColumn ==
    ASSUME NEW p \in Processes, Missing(p) # {}
    PROVE  (CHOOSE c \in Missing(p) : \A d \in Missing(p) : c <= d) \in Columns
<1>1. Missing(p) \subseteq Nat /\ Missing(p) \subseteq Columns
  BY ColumnsAssumption DEF Missing
<1>2. PICK c \in Missing(p) : \A d \in Missing(p) : <<d, c>> \notin OpToRel(<, Nat)
  BY <1>1, NatLessThanWellFounded, WFMin
<1>3. OpToRel(<, Nat) = {ss \in Nat \X Nat : ss[1] < ss[2]}
  BY DEF OpToRel
<1>4. ASSUME NEW d \in Missing(p) PROVE c <= d
  <2>1. <<d, c>> \notin {ss \in Nat \X Nat : ss[1] < ss[2]}
    BY <1>2, <1>3
  <2>2. d \in Nat /\ c \in Nat /\ ~(d < c)
    BY <1>1, <2>1
  <2> QED
    BY <2>2
<1> QED
  BY <1>1, <1>4

\* What the three statements of a Chat write.
LEMMA CreateRowType ==
    ASSUME TypeOK, NEW a \in Actors, ChatInv(a), CreateRow(a)
    PROVE  /\ creator' \in [Ids -> Processes \cup {NoProcess}]
           /\ chat[a].session \in Ids
           /\ UNCHANGED <<columns, messages, history>>
<1>1. chat[a].session \in Ids /\ Process(a) \in Processes
  BY DEF CreateRow, ChatInv, Chatting, Actors, Process, Processes
<1> QED
  BY <1>1 DEF CreateRow, TypeOK

LEMMA InsertRowType ==
    ASSUME TypeOK, NEW a \in Actors, ChatInv(a), InsertRow(a)
    PROVE  /\ messages' \subseteq Row
           /\ chat[a] \in Row
           /\ UNCHANGED <<columns, creator, history>>
<1>1. chat[a] \in Row
  BY StoreBoundsAssumption DEF InsertRow, ChatInv, Chatting, Row
<1> QED
  BY <1>1 DEF InsertRow, TypeOK

LEMMA RecordRowType ==
    ASSUME TypeOK, NEW a \in Actors, ChatInv(a), RecordRow(a)
    PROVE  /\ history' \subseteq [session : Ids, turn : Turns]
           /\ UNCHANGED <<columns, creator, messages>>
<1>1. [session |-> chat[a].session, turn |-> chat[a].turn] \in [session : Ids, turn : Turns]
  BY DEF RecordRow, ChatInv, Chatting
<1> QED
  BY <1>1 DEF RecordRow, TypeOK

LEMMA TypeStep ==
    ASSUME TypeOK, \A a \in Actors : ChatInv(a), Next
    PROVE  TypeOK'
<1> USE DEF TypeOK, Label
<1>0. Clis \subseteq Actors /\ MaxTurns \in Nat /\ MaxMessages \in Nat /\ \A a \in Actors : Process(a) \in Processes
  BY StoreBoundsAssumption DEF Actors, Process, Processes
<1>1. ASSUME NEW p \in Processes, Open(p) PROVE TypeOK'
  BY <1>1 DEF Open
<1>2. ASSUME NEW p \in Processes, Migrate(p) PROVE TypeOK'
  <2> DEFINE column == CHOOSE c \in Missing(p) : \A d \in Missing(p) : c <= d
  <2>1. columns' \in {columns, columns \cup {column}}
    BY <1>2 DEF Migrate
  <2>2. phase' \in {phase, [phase EXCEPT ![p] = "down"]}
    BY <1>2 DEF Migrate
  <2>3. existing' \in {existing, [existing EXCEPT ![p] = @ \cup {column}]}
    BY <1>2 DEF Migrate
  <2>4. column \in Columns
    BY <1>2, NextColumn DEF Migrate
  <2> HIDE DEF column
  <2>5. /\ columns' \subseteq Columns /\ existing' \in [Processes -> SUBSET Columns]
        /\ phase' \in [Processes -> {"down", "migrating", "up"}]
    BY <2>1, <2>2, <2>3, <2>4
  <2> QED
    BY <1>2, <2>5 DEF Migrate
<1>3. ASSUME NEW p \in Processes, Start(p) PROVE TypeOK'
  BY <1>3 DEF Start
<1>4. ASSUME NEW p \in Processes, Exit(p) PROVE TypeOK'
  BY <1>4 DEF Exit
<1>5. ASSUME NEW a \in Actors, Ask(a) PROVE TypeOK'
  <2>1. begun + 1 \in 0..MaxTurns
    BY <1>0, <1>5 DEF Ask
  <2> QED
    BY <1>5, <2>1 DEF Ask
<1>6. ASSUME NEW a \in Actors, Check(a) PROVE TypeOK'
  <2>1. NextStatement(a) \in Label
    BY DEF NextStatement
  <2>2. pc' \in [Actors -> Label] /\ DOMAIN chat' = Actors
    BY <1>6, <2>1 DEF Check
  <2>3. chat'[a] \in Row
    BY <1>0, <1>6 DEF Check, ChatInv, Chatting, Row
  <2>4. acked' \subseteq Row
    BY <1>6, <2>3 DEF Check
  <2> QED
    BY <1>6, <2>2, <2>4 DEF Check
<1>7. ASSUME NEW a \in Actors, Create(a) PROVE TypeOK'
  <2>1. /\ creator' \in [Ids -> Processes \cup {NoProcess}]
        /\ UNCHANGED <<columns, messages, history>>
    BY <1>7, CreateRowType DEF Create
  <2> QED
    BY <1>7, <2>1 DEF Create
<1>8. ASSUME NEW a \in Actors, Insert(a) PROVE TypeOK'
  <2>1. messages' \subseteq Row /\ chat[a] \in Row /\ UNCHANGED <<columns, creator, history>>
    BY <1>8, InsertRowType DEF Insert
  <2> QED
    BY <1>8, <2>1 DEF Insert
<1>9. ASSUME NEW a \in Actors, Record(a) PROVE TypeOK'
  <2>1. /\ history' \subseteq [session : Ids, turn : Turns]
        /\ UNCHANGED <<columns, creator, messages>>
    BY <1>9, RecordRowType DEF Record
  <2> QED
    BY <1>9, <2>1 DEF Record, Leave
<1>10. ASSUME NEW a \in Actors, Fail(a) PROVE TypeOK'
  <2>1. UNCHANGED tables \/ CreateRow(a) \/ InsertRow(a) \/ RecordRow(a)
    BY <1>10 DEF Fail
  <2>2. /\ columns' = columns /\ creator' \in [Ids -> Processes \cup {NoProcess}]
        /\ messages' \subseteq Row /\ history' \subseteq [session : Ids, turn : Turns]
    BY <2>1, CreateRowType, InsertRowType, RecordRowType
  <2> QED
    BY <1>10, <2>2 DEF Fail, Leave
<1>11. ASSUME NEW c \in Clis, NewSession(c) PROVE TypeOK'
  BY <1>11 DEF NewSession
<1>12. ASSUME NEW c \in Clis, List(c) PROVE TypeOK'
  BY <1>0, <1>12 DEF List, Sessions
<1>13. ASSUME NEW c \in Clis, Switch(c) PROVE TypeOK'
  BY <1>0, <1>13 DEF Switch, Chosen
<1>14. ASSUME NEW c \in Clis, Cancel(c) PROVE TypeOK'
  BY <1>0, <1>14 DEF Cancel, Chosen
<1>15. ASSUME NEW c \in Clis, Remove(c) PROVE TypeOK'
  <2>1. PICK s \in listed[c] : Delete(s)
    BY <1>15 DEF Remove
  <2>2. s \in Ids
    BY <2>1
  <2>3. /\ messages' \subseteq messages /\ history' \subseteq history
        /\ creator' \in [Ids -> Processes \cup {NoProcess}]
    BY <2>1, <2>2 DEF Delete
  <2> QED
    BY <1>0, <1>15, <2>3 DEF Remove, Chosen
<1> QED
  BY <1>1, <1>2, <1>3, <1>4, <1>5, <1>6, <1>7, <1>8, <1>9, <1>10, <1>11, <1>12, <1>13, <1>14, <1>15
     DEF Next, ProcessStep, ChatStep, CommandStep

----
\* The migration, and db.mu.

LEMMA MigrationStep ==
    ASSUME TypeOK, MigrationInv, Next
    PROVE  MigrationInv'
<1> USE DEF TypeOK, MigrationInv
<1>1. CASE UNCHANGED <<columns, phase, existing>>
  BY <1>1
<1>2. ASSUME NEW p \in Processes, Open(p) PROVE MigrationInv'
  BY <1>2 DEF Open
<1>3. ASSUME NEW p \in Processes, Migrate(p) PROVE MigrationInv'
  <2> DEFINE column == CHOOSE c \in Missing(p) : \A d \in Missing(p) : c <= d
  <2>1. column \in Columns
    BY <1>3, NextColumn DEF Migrate
  <2>2. CASE /\ phase' = [phase EXCEPT ![p] = "down"]
             /\ UNCHANGED <<columns, existing>>
    BY <2>2
  <2>3. CASE /\ columns' = columns \cup {column}
             /\ existing' = [existing EXCEPT ![p] = @ \cup {column}]
             /\ UNCHANGED phase
    <3> HIDE DEF column
    <3> QED
      BY <2>1, <2>3
  <2> QED
    BY <1>3, <2>2, <2>3 DEF Migrate
<1>4. ASSUME NEW p \in Processes, Start(p) PROVE MigrationInv'
  BY <1>4 DEF Start, Missing
<1>5. ASSUME NEW p \in Processes, Exit(p) PROVE MigrationInv'
  BY <1>5 DEF Exit
<1> QED
  BY <1>1, <1>2, <1>3, <1>4, <1>5
     DEF Next, ProcessStep, ChatStep, CommandStep, Ask, Check, Create, Insert, Record, Fail,
         CreateRow, InsertRow, RecordRow, NewSession, List, Switch, Cancel, Remove

LEMMA MutexStep ==
    ASSUME TypeOK, MutexInv, Next
    PROVE  MutexInv'
<1> USE DEF TypeOK, MutexInv
<1> DEFINE Critical(a) == pc[a] \in {"create", "insert"}
<1>1. Clis \subseteq Actors
  BY DEF Actors
<1>2. ASSUME \A a \in Actors : Critical(a)' => Critical(a) PROVE MutexInv'
  BY <1>2
<1>3. ASSUME NEW a \in Actors, Check(a) PROVE MutexInv'
  <2>1. \A b \in Actors : b # a /\ Process(b) = Process(a) => ~Critical(b)
    BY <1>3 DEF Check, Locked
  <2>2. \A b \in Actors : b # a => pc'[b] = pc[b]
    BY <1>3 DEF Check
  <2> QED
    BY <2>1, <2>2
<1>4. ASSUME NEW p \in Processes, ProcessStep(p) PROVE \A a \in Actors : Critical(a)' => Critical(a)
  BY <1>4 DEF ProcessStep, Open, Migrate, Start, Exit
<1>5. ASSUME NEW a \in Actors, ChatStep(a), ~Check(a)
      PROVE  \A b \in Actors : Critical(b)' => Critical(b)
  <2>1. CASE Ask(a)
    BY <2>1 DEF Ask
  <2>2. CASE Create(a)
    BY <2>2 DEF Create, CreateRow
  <2>3. CASE Insert(a)
    BY <2>3 DEF Insert
  <2>4. CASE Record(a) \/ Fail(a)
    BY <2>4 DEF Record, Fail, Leave
  <2> QED
    BY <1>5, <2>1, <2>2, <2>3, <2>4 DEF ChatStep
<1>6. ASSUME NEW c \in Clis, CommandStep(c) PROVE \A a \in Actors : Critical(a)' => Critical(a)
  BY <1>1, <1>6 DEF CommandStep, NewSession, List, Switch, Cancel, Remove, Chosen
<1> QED
  BY <1>2, <1>3, <1>4, <1>5, <1>6 DEF Next

----
\* Chats under way.

LEMMA ProcessHasName == \A a \in Actors : Process(a) \in Processes /\ Process(a) # NoProcess
  BY ActorsAssumption DEF Actors, Process, Processes

\* What a step does that leaves the tables of sessions and of ghosts alone.
LEMMA ChatKept ==
    ASSUME TypeOK, NEW a \in Actors, ChatInv(a),
           pc'[a] = pc[a], chat'[a] = chat[a],
           UNCHANGED creator, overtaken \subseteq overtaken'
    PROVE  ChatInv(a)'
  BY DEF ChatInv, Chatting, Sessions

\* An actor that is not in a Chat promises nothing of it.
LEMMA ChatLeft ==
    ASSUME NEW a \in Actors, pc'[a] \notin Chatting
    PROVE  ChatInv(a)'
  BY DEF ChatInv, Chatting

LEMMA ChatsStep ==
    ASSUME TypeOK, \A a \in Actors : ChatInv(a), MutexInv, Next
    PROVE  \A a \in Actors : ChatInv(a)'
<1> SUFFICES ASSUME NEW b \in Actors PROVE ChatInv(b)'
  OBVIOUS
<1> USE DEF TypeOK
<1>0. Clis \subseteq Actors
  BY DEF Actors
<1>1. ASSUME NEW p \in Processes, ProcessStep(p) PROVE ChatInv(b)'
  <2>1. UNCHANGED <<creator, overtaken>>
    BY <1>1 DEF ProcessStep, Open, Migrate, Start, Exit
  <2>2. \/ pc'[b] = pc[b] /\ chat'[b] = chat[b]
        \/ pc'[b] = "idle"
    BY <1>1 DEF ProcessStep, Open, Migrate, Start, Exit
  <2> QED
    BY <2>1, <2>2, ChatKept, ChatLeft DEF Chatting
<1>2. ASSUME NEW a \in Actors, ChatStep(a), a # b PROVE ChatInv(b)'
  <2>1. overtaken' = overtaken /\ pc'[b] = pc[b] /\ chat'[b] = chat[b]
    BY <1>2 DEF ChatStep, Ask, Check, Create, Insert, Record, Fail, Leave
  <2>2. creator' = creator \/ CreateRow(a)
    BY <1>2 DEF ChatStep, Ask, Check, Create, Insert, InsertRow, Record, RecordRow, Fail
  <2>3. CASE creator' = creator
    BY <2>1, <2>3, ChatKept
  <2>4. CASE CreateRow(a)
    <3> DEFINE s == chat[a].session
    <3>1. /\ s \in Ids /\ Process(a) # NoProcess
          /\ creator' = [creator EXCEPT ![s] = Process(a)] /\ pc[a] = "create"
      BY <2>4, ProcessHasName, CreateRowType DEF CreateRow
    <3>2. Sessions \subseteq Sessions'
      BY <3>1 DEF Sessions
    <3>3. pc[b] = "create" => Process(b) # Process(a)
      BY <1>2, <3>1 DEF MutexInv
    <3>4. pc[b] = "create" => creator'[chat[b].session] # Process(b)
      BY <3>1, <3>3 DEF ChatInv
    <3> QED
      BY <2>1, <3>2, <3>4 DEF ChatInv, Chatting
  <2> QED
    BY <2>2, <2>3, <2>4
<1>3. ASSUME Ask(b) PROVE ChatInv(b)'
  <2>1. pc'[b] = "between" /\ chat'[b].n = 0
    BY <1>3 DEF Ask
  <2>2. PICK s \in Ids : chat'[b] = [session |-> s, turn |-> begun + 1, n |-> 0]
    BY <1>3, ThreadsAssumption DEF Ask
  <2>3. begun + 1 \in Turns /\ 0 \in 0..MaxMessages
    BY <1>3, StoreBoundsAssumption DEF Ask, Turns
  <2> QED
    BY <2>1, <2>2, <2>3 DEF ChatInv, Chatting
<1>4. ASSUME Check(b) PROVE ChatInv(b)'
  <2> DEFINE r == chat[b]
             s == r.session
  <2>1. /\ r \in [session : Ids, turn : Turns, n : 0..MaxMessages]
        /\ r.n < MaxMessages /\ pc[b] = "between"
    BY <1>4 DEF Check, ChatInv, Chatting
  <2>2. chat'[b] = [r EXCEPT !.n = @ + 1] /\ pc'[b] = NextStatement(b)
    BY <1>4 DEF Check
  <2>3. UNCHANGED <<creator, overtaken>> /\ Sessions' = Sessions
    BY <1>4 DEF Check, Sessions
  <2>4. /\ chat'[b] \in [session : Ids, turn : Turns, n : 0..MaxMessages]
        /\ chat'[b].session = s /\ chat'[b].turn = r.turn /\ chat'[b].n = r.n + 1
        /\ r.n + 1 >= 1
    <3>1. r.n \in 0..MaxMessages /\ r.n + 1 \in 0..MaxMessages /\ r.n + 1 >= 1
      BY <2>1, StoreBoundsAssumption
    <3> HIDE DEF r
    <3> QED
      BY <2>1, <2>2, <3>1
  <2>5. CASE s \in Sessions
    <3>1. pc'[b] = "insert"
      BY <2>2, <2>5 DEF NextStatement
    <3> QED
      BY <2>3, <2>4, <2>5, <3>1 DEF ChatInv, Chatting
  <2>6. CASE s \notin Sessions /\ r.n = 0
    <3>1. creator[s] = NoProcess /\ Process(b) # NoProcess
      BY <2>1, <2>6, ProcessHasName DEF Sessions
    <3>2. pc'[b] = "create"
      BY <2>2, <2>6 DEF NextStatement
    <3> QED
      BY <2>3, <2>4, <2>6, <3>1, <3>2 DEF ChatInv, Chatting
  <2>7. CASE s \notin Sessions /\ r.n # 0
    <3>1. r.n >= 1 /\ r.turn \in overtaken
      BY <2>1, <2>7 DEF ChatInv
    <3>2. pc'[b] = "between"
      BY <2>2, <2>7 DEF NextStatement
    <3> QED
      BY <2>3, <2>4, <2>7, <3>1, <3>2 DEF ChatInv, Chatting
  <2> QED
    BY <2>5, <2>6, <2>7
<1>5. ASSUME Create(b) PROVE ChatInv(b)'
  <2> DEFINE s == chat[b].session
  <2>1. /\ s \in Ids /\ Process(b) # NoProcess
        /\ creator' = [creator EXCEPT ![s] = Process(b)]
        /\ pc' = [pc EXCEPT ![b] = "insert"] /\ pc[b] = "create"
        /\ UNCHANGED <<chat, overtaken>>
    BY <1>5, ProcessHasName, CreateRowType DEF Create, CreateRow
  <2>2. s \in Sessions'
    BY <2>1 DEF Sessions
  <2> QED
    BY <2>1, <2>2 DEF ChatInv, Chatting
<1>6. ASSUME Insert(b) PROVE ChatInv(b)'
  BY <1>6 DEF Insert, InsertRow, ChatInv, Chatting, Sessions
<1>7. ASSUME Record(b) \/ Fail(b) PROVE ChatInv(b)'
  <2>1. pc'[b] = "idle"
    BY <1>7 DEF Record, Fail, Leave
  <2> QED
    BY <2>1, ChatLeft DEF Chatting
<1>8. ASSUME NEW c \in Clis, CommandStep(c) PROVE ChatInv(b)'
  <2>1. CASE b = c
    <3>1. pc'[b] \in {"idle", "switch", "remove"}
      BY <1>0, <1>8, <2>1 DEF CommandStep, NewSession, List, Switch, Cancel, Remove, Chosen, Idle
    <3> QED
      BY <3>1, ChatLeft DEF Chatting
  <2>2. CASE b # c
    <3>1. pc'[b] = pc[b] /\ chat' = chat
      BY <1>0, <1>8, <2>2 DEF CommandStep, NewSession, List, Switch, Cancel, Remove, Chosen
    <3>2. CASE ~Remove(c)
      <4>1. UNCHANGED <<creator, overtaken>>
        BY <1>8, <3>2 DEF CommandStep, NewSession, List, Switch, Cancel
      <4> QED
        BY <3>1, <4>1, ChatKept
    <3>3. CASE Remove(c)
      <4>1. PICK s \in listed[c] : Delete(s) /\ overtaken' = overtaken \cup RunningIn(s)
        BY <3>3 DEF Remove
      <4>2. creator' = [creator EXCEPT ![s] = NoProcess] /\ overtaken \subseteq overtaken'
        BY <4>1 DEF Delete
      <4>3. \A u \in Ids : u # s /\ u \in Sessions => u \in Sessions'
        BY <4>2 DEF Sessions
      <4>4. pc[b] \in Chatting /\ chat[b].session = s => chat[b].turn \in overtaken'
        BY <4>1 DEF RunningIn
      <4>5. pc[b] = "create" => creator'[chat[b].session] # Process(b)
        BY <4>2, ProcessHasName DEF ChatInv, Chatting
      <4> QED
        BY <3>1, <4>2, <4>3, <4>4, <4>5 DEF ChatInv, Chatting
    <3> QED
      BY <3>2, <3>3
  <2> QED
    BY <2>1, <2>2
<1> QED
  BY <1>1, <1>2, <1>3, <1>4, <1>5, <1>6, <1>7, <1>8 DEF Next, ChatStep

----
\* The rows and what was acknowledged.

LEMMA NothingLostStep ==
    ASSUME TypeOK, \A a \in Actors : ChatInv(a), NothingLost, Next
    PROVE  NothingLost'
<1> USE DEF NothingLost
<1>1. CASE /\ acked' = acked /\ messages \subseteq messages'
           /\ overtaken \subseteq overtaken' /\ buried \subseteq buried'
  BY <1>1
<1>2. ASSUME NEW a \in Actors, Check(a) PROVE NothingLost'
  <2>1. UNCHANGED <<messages, overtaken, buried>>
    BY <1>2 DEF Check
  <2>2. CASE NextStatement(a) # "between"
    BY <1>2, <2>1, <2>2 DEF Check
  <2>3. CASE NextStatement(a) = "between"
    <3>1. acked' = acked \cup {chat'[a]} /\ chat'[a].turn = chat[a].turn
      BY <1>2, <2>3 DEF Check, TypeOK
    <3>2. chat[a].session \notin Sessions /\ chat[a].n # 0
      BY <2>3 DEF NextStatement
    <3>3. pc[a] = "between" /\ chat[a].n \in 0..MaxMessages
      BY <1>2 DEF Check, ChatInv, Chatting
    <3>4. chat[a].n >= 1
      BY <3>2, <3>3, StoreBoundsAssumption
    <3>5. chat[a].turn \in overtaken
      BY <3>2, <3>3, <3>4 DEF ChatInv
    <3> QED
      BY <2>1, <3>1, <3>5
  <2> QED
    BY <2>2, <2>3
<1>3. ASSUME NEW a \in Actors, Insert(a) \/ Fail(a) PROVE NothingLost'
  <2>1. messages \subseteq messages' /\ UNCHANGED <<overtaken, buried>>
    BY <1>3 DEF Insert, Fail, InsertRow, CreateRow, RecordRow
  <2>2. acked' \subseteq acked \cup messages'
    BY <1>3 DEF Insert, Fail, InsertRow
  <2> QED
    BY <2>1, <2>2
<1>4. ASSUME NEW c \in Clis, Remove(c) PROVE NothingLost'
  <2>1. PICK s \in listed[c] :
           /\ Delete(s)
           /\ overtaken' = overtaken \cup RunningIn(s)
           /\ buried' = buried \cup ({r.turn : r \in RowsOf(s)} \ RunningIn(s))
    BY <1>4 DEF Remove
  <2>2. \A r \in messages : r \in messages' \/ r \in RowsOf(s)
    BY <2>1 DEF Delete
  <2>3. \A r \in RowsOf(s) : r.turn \in overtaken' \cup buried'
    BY <2>1
  <2> QED
    BY <1>4, <2>1, <2>2, <2>3 DEF Remove
<1> QED
  BY <1>1, <1>2, <1>3, <1>4
     DEF Next, ProcessStep, ChatStep, CommandStep, Open, Migrate, Start, Exit, Ask, Create,
         CreateRow, Record, RecordRow, NewSession, List, Switch, Cancel

LEMMA OrphansStep ==
    ASSUME TypeOK, \A a \in Actors : ChatInv(a), OrphansOnlyOvertaken, Next
    PROVE  OrphansOnlyOvertaken'
<1> USE DEF OrphansOnlyOvertaken
<1>1. CASE UNCHANGED <<messages, history, creator>> /\ overtaken \subseteq overtaken'
  BY <1>1 DEF Sessions
<1>2. ASSUME NEW a \in Actors, CreateRow(a), overtaken' = overtaken
      PROVE  OrphansOnlyOvertaken'
  <2>1. Sessions \subseteq Sessions'
    BY <1>2, ProcessHasName DEF CreateRow, Sessions, TypeOK
  <2> QED
    BY <1>2, <2>1 DEF CreateRow
<1>3. ASSUME NEW a \in Actors, InsertRow(a), overtaken' = overtaken
      PROVE  OrphansOnlyOvertaken'
  <2>1. chat[a].session \in Sessions \/ chat[a].turn \in overtaken
    BY <1>3 DEF InsertRow, ChatInv
  <2> QED
    BY <1>3, <2>1 DEF InsertRow, Sessions
<1>4. ASSUME NEW a \in Actors, RecordRow(a), overtaken' = overtaken
      PROVE  OrphansOnlyOvertaken'
  <2>1. chat[a].n >= 1
    BY <1>4 DEF RecordRow, ChatInv, Chatting
  <2>2. chat[a].session \in Sessions \/ chat[a].turn \in overtaken
    BY <1>4, <2>1 DEF RecordRow, ChatInv
  <2> QED
    BY <1>4, <2>2 DEF RecordRow, Sessions
<1>5. ASSUME NEW c \in Clis, Remove(c) PROVE OrphansOnlyOvertaken'
  <2>1. PICK s \in listed[c] : Delete(s) /\ overtaken' = overtaken \cup RunningIn(s)
    BY <1>5 DEF Remove
  <2>2. \A r \in messages' \cup history' : r \in messages \cup history /\ r.session # s
    BY <2>1 DEF Delete, RowsOf
  <2>3. \A u \in Sessions : u # s => u \in Sessions'
    BY <2>1 DEF Delete, Sessions, TypeOK
  <2> QED
    BY <2>1, <2>2, <2>3
<1>6. ASSUME NEW a \in Actors, Create(a) \/ Insert(a) \/ Record(a) \/ Fail(a)
      PROVE  OrphansOnlyOvertaken'
  <2>1. overtaken' = overtaken
    BY <1>6 DEF Create, Insert, Record, Fail
  <2>2. UNCHANGED tables \/ CreateRow(a) \/ InsertRow(a) \/ RecordRow(a)
    BY <1>6 DEF Create, Insert, Record, Fail
  <2> QED
    BY <1>1, <1>2, <1>3, <1>4, <2>1, <2>2
<1> QED
  BY <1>1, <1>5, <1>6
     DEF Next, ProcessStep, ChatStep, CommandStep, Open, Migrate, Start, Exit, Ask, Check,
         NewSession, List, Switch, Cancel

\* A session's row has its question, or an actor is about to insert it, or the
\* attempt is remembered, until the row itself is removed.
LEMMA QuestionsStep ==
    ASSUME TypeOK, \A a \in Actors : ChatInv(a), SessionsHaveQuestion, Next
    PROVE  SessionsHaveQuestion'
<1> DEFINE Asking(a, s) == pc[a] = "insert" /\ chat[a].session = s /\ chat[a].n = 1
<1> USE DEF SessionsHaveQuestion
<1>0. Clis \subseteq Actors
  BY DEF Actors
\* What it takes of a step.
<1>1. ASSUME NEW s \in Sessions', s \in Sessions,
             Asked(s) => Asked(s)', s \in spoiled => s \in spoiled',
             \A a \in Actors : Asking(a, s) => Asking(a, s)' \/ Asked(s)' \/ s \in spoiled'
      PROVE  Asked(s)' \/ s \in spoiled' \/ \E a \in Actors : Asking(a, s)'
  BY <1>1
<1>2. ASSUME NEW a \in Actors, NEW s, Asking(a, s), ~Asked(s), s \in Sessions
      PROVE  s \in Spoiled(a)
  BY <1>2 DEF Spoiled
<1>3. ASSUME NEW p \in Processes, ProcessStep(p) PROVE SessionsHaveQuestion'
  <2>1. CASE ~Exit(p)
    <3>1. UNCHANGED <<creator, messages, spoiled, pc, chat>>
      BY <1>3, <2>1 DEF ProcessStep, Open, Migrate, Start
    <3> QED
      BY <3>1 DEF Sessions, Asked
  <2>2. CASE Exit(p)
    <3>1. UNCHANGED <<creator, messages>>
      BY <2>2 DEF Exit
    <3>2. Sessions' = Sessions /\ \A s \in Sessions : Asked(s)' = Asked(s)
      BY <3>1 DEF Sessions, Asked
    <3>3. spoiled' = spoiled \cup UNION {Spoiled(a) : a \in {b \in Actors : Process(b) = p}}
      BY <2>2 DEF Exit
    <3>4. ASSUME NEW a \in Actors, NEW s \in Sessions, Asking(a, s), ~Asked(s)
          PROVE  Asking(a, s)' \/ s \in spoiled'
      <4>1. CASE Process(a) = p
        BY <1>2, <3>3, <3>4, <4>1
      <4>2. CASE Process(a) # p
        BY <2>2, <3>4, <4>2 DEF Exit
      <4> QED
        BY <4>1, <4>2
    <3> QED
      BY <1>1, <3>2, <3>3, <3>4
  <2> QED
    BY <2>1, <2>2
<1>4. ASSUME NEW a \in Actors, Ask(a) \/ Check(a) \/ Record(a) PROVE SessionsHaveQuestion'
  <2>1. UNCHANGED <<creator, messages, spoiled>> /\ pc[a] # "insert"
    BY <1>4 DEF Ask, Check, Record, RecordRow, Idle
  <2>2. Sessions' = Sessions /\ \A s \in Sessions : Asked(s)' = Asked(s)
    BY <2>1 DEF Sessions, Asked
  <2>3. \A b \in Actors : b # a => pc'[b] = pc[b] /\ chat'[b] = chat[b]
    BY <1>4 DEF TypeOK, Ask, Check, Record, Leave
  <2> QED
    BY <1>1, <2>1, <2>2, <2>3
<1>5. ASSUME NEW a \in Actors, Create(a) PROVE SessionsHaveQuestion'
  <2> DEFINE t == chat[a].session
  <2>1. /\ creator' = [creator EXCEPT ![t] = Process(a)]
        /\ pc' = [pc EXCEPT ![a] = "insert"] /\ pc[a] = "create"
        /\ UNCHANGED <<chat, messages, spoiled>>
    BY <1>5 DEF Create, CreateRow
  <2>2. Asking(a, t)'
    BY <1>5, <2>1 DEF TypeOK, ChatInv
  <2>3. \A s \in Sessions' : s = t \/ s \in Sessions
    BY <2>1 DEF TypeOK, Sessions
  <2>4. \A b \in Actors, s \in Sessions : Asking(b, s) => Asking(b, s)'
    BY <2>1 DEF TypeOK
  <2>5. \A s \in Sessions : Asked(s) => Asked(s)'
    BY <2>1 DEF Asked
  <2> HIDE DEF Asking
  <2>6. ASSUME NEW s \in Sessions'
        PROVE  Asked(s)' \/ s \in spoiled' \/ \E b \in Actors : Asking(b, s)'
    BY <1>1, <2>1, <2>2, <2>3, <2>4, <2>5
  <2> QED
    BY <2>6 DEF Asking
<1>6. ASSUME NEW a \in Actors, Insert(a) PROVE SessionsHaveQuestion'
  <2>1. /\ messages' = messages \cup {chat[a]} /\ UNCHANGED <<creator, chat, spoiled>>
        /\ pc' = [pc EXCEPT ![a] = "between"]
    BY <1>6 DEF Insert, InsertRow
  <2>2. Sessions' = Sessions /\ \A s \in Sessions : Asked(s) => Asked(s)'
    BY <2>1 DEF Sessions, Asked
  <2>3. \A b \in Actors, s \in Sessions : Asking(b, s) => Asking(b, s)' \/ Asked(s)'
    BY <2>1 DEF TypeOK, Asked
  <2> QED
    BY <1>1, <2>1, <2>2, <2>3
<1>7. ASSUME NEW a \in Actors, Fail(a) PROVE SessionsHaveQuestion'
  <2> DEFINE t == chat[a].session
  <2>1. /\ messages \subseteq messages' /\ spoiled \subseteq spoiled'
        /\ \A b \in Actors : b # a => pc'[b] = pc[b] /\ chat'[b] = chat[b]
    BY <1>7 DEF TypeOK, Fail, Leave, CreateRow, InsertRow, RecordRow
  <2>2. \A s \in Sessions : Asked(s) => Asked(s)'
    BY <2>1 DEF Asked
  <2>3. ASSUME NEW s \in Sessions' PROVE s \in Sessions \/ s \in spoiled'
    <3>1. CASE creator' = creator
      BY <3>1 DEF Sessions
    <3>2. CASE CreateRow(a) /\ spoiled' = spoiled \cup {t}
      BY <2>3, <3>2 DEF TypeOK, CreateRow, Sessions
    <3> QED
      BY <1>7, <3>1, <3>2 DEF Fail, InsertRow, RecordRow
  <2>4. ASSUME NEW s \in Sessions, Asking(a, s), ~Asked(s) PROVE s \in spoiled' \/ Asked(s)'
    <3>1. CASE spoiled' = spoiled \cup Spoiled(a)
      BY <1>2, <2>4, <3>1
    <3>2. CASE InsertRow(a)
      BY <2>4, <3>2 DEF InsertRow, Asked
    <3> QED
      BY <1>7, <2>4, <3>1, <3>2 DEF Fail, CreateRow, RecordRow
  <2>5. ASSUME NEW s \in Sessions', s \in Sessions, NEW b \in Actors, Asking(b, s)
        PROVE  Asking(b, s)' \/ Asked(s)' \/ s \in spoiled'
    BY <2>1, <2>2, <2>4, <2>5
  <2> HIDE DEF Asking
  <2>6. ASSUME NEW s \in Sessions'
        PROVE  Asked(s)' \/ s \in spoiled' \/ \E b \in Actors : Asking(b, s)'
    BY <1>1, <2>1, <2>2, <2>3, <2>5
  <2> QED
    BY <2>6 DEF Asking
<1>8. ASSUME NEW c \in Clis, CommandStep(c) PROVE SessionsHaveQuestion'
  <2>1. /\ UNCHANGED chat
        /\ \A a \in Actors : pc[a] = "insert" => pc'[a] = "insert"
    BY <1>0, <1>8
       DEF TypeOK, CommandStep, NewSession, List, Switch, Cancel, Remove, Chosen, Idle
  <2>2. \A s \in Sessions' :
            s \in Sessions /\ (Asked(s) => Asked(s)') /\ (s \in spoiled => s \in spoiled')
    <3>1. CASE UNCHANGED <<creator, messages, spoiled>>
      BY <3>1 DEF Sessions, Asked
    <3>2. CASE Remove(c)
      <4>1. PICK s \in listed[c] : Delete(s) /\ spoiled' = spoiled \ {s}
        BY <3>2 DEF Remove
      <4>2. \A r \in messages : r.session # s => r \in messages'
        BY <4>1 DEF Delete, RowsOf
      <4>3. \A u \in Sessions' : u \in Sessions /\ u # s
        BY <1>8, <4>1 DEF TypeOK, Delete, Sessions
      <4> QED
        BY <4>1, <4>2, <4>3 DEF Asked
    <3> QED
      BY <1>8, <3>1, <3>2 DEF CommandStep, NewSession, List, Switch, Cancel
  <2> QED
    BY <1>1, <2>1, <2>2
<1> QED
  BY <1>3, <1>4, <1>5, <1>6, <1>7, <1>8 DEF Next, ChatStep

LEMMA InvStep == IInv /\ [Next]_vars => IInv'
<1>1. CASE Next
  BY <1>1, TypeStep, ChatsStep, MutexStep, MigrationStep, NothingLostStep, OrphansStep, QuestionsStep
     DEF IInv
<1>2. CASE UNCHANGED vars
  BY <1>2
     DEF IInv, vars, TypeOK, ChatInv, MutexInv, MigrationInv, NothingLost, OrphansOnlyOvertaken,
         SessionsHaveQuestion, Sessions, Asked
<1> QED
  BY <1>1, <1>2

----
\* The theorems.

\* The inductive invariant: the mutex of each process, the two steps of a first
\* message and the steps of the migration against every other process.
THEOREM Invariant == Spec => []IInv
  BY InitInv, InvStep, PTL DEF Spec

\* Every variable of the store keeps its type.
THEOREM TypeCorrect == Spec => []TypeOK
<1>1. IInv => TypeOK
  BY DEF IInv
<1> QED
  BY <1>1, Invariant, PTL

\* A message that HandleMessageEvent reported stored stays in its table until
\* its session is removed; it was dropped only if that overtook its turn.
THEOREM MessagesKept == Spec => []NothingLost
<1>1. IInv => NothingLost
  BY DEF IInv
<1> QED
  BY <1>1, Invariant, PTL

\* Only a turn overtaken by the removal of its session leaves a row without one.
THEOREM OrphansCorrect == Spec => []OrphansOnlyOvertaken
<1>1. IInv => OrphansOnlyOvertaken
  BY DEF IInv
<1> QED
  BY <1>1, Invariant, PTL

\* A session row without a question is being created, or its creation was cut short:
\* the process stopped between the two statements, the second one failed, or the
\* first took effect although it reported an error.
THEOREM QuestionsCorrect == Spec => []SessionsHaveQuestion
<1>1. IInv => SessionsHaveQuestion
  BY DEF IInv
<1> QED
  BY <1>1, Invariant, PTL

\* db.mu suffices inside a process: whoever finds its session row taken was
\* overtaken by another process.
THEOREM CreationCorrect == Spec => []CreateConflictsForeign
<1>1. IInv => CreateConflictsForeign
  BY DEF IInv, ChatInv, CreateConflictsForeign
<1> QED
  BY <1>1, Invariant, PTL

\* However many processes migrate the table at once, fail or stop half-way, one
\* that gets to work finds every column.
THEOREM MigrationCorrect == Spec => []OpenedMigrated
<1>1. IInv => OpenedMigrated
  BY DEF IInv, MigrationInv, OpenedMigrated
<1> QED
  BY <1>1, Invariant, PTL
====
