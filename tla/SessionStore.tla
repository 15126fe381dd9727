---- MODULE SessionStore ----
(***************************************************************************)
(* The session store (talk/internal/memory/sqlite/store.go), one database  *)
(* file shared by every process of the user: talk-cli sessions, each with  *)
(* one chat and the /session commands (talk/cmd/cli/cmd_session.go), and   *)
(* the AG-UI server with its concurrent requests.                          *)
(*                                                                         *)
(* A process serialises its own calls with db.mu; across processes only a  *)
(* SQL statement, or DeleteSession's transaction, is atomic.  Foreign keys *)
(* are declared but not enforced: no connection turns them on.  What a row *)
(* says is left out: only the session, the turn and the place of a message *)
(* in its turn matter here.  Any statement may fail (SQLITE_BUSY while     *)
(* another process writes, a cancelled request context), and a process may *)
(* stop between two statements.                                            *)
(***************************************************************************)
EXTENDS Integers, FiniteSets

CONSTANTS
    Clis,         \* talk-cli processes, each with its one chat at a time
    Requests,     \* chat requests of the one server process
    Server,       \* that process
    Ids,          \* session ids
    Threads,      \* those the server's clients send as thread ids
    NoProcess,    \* not a process
    Columns,      \* the columns a legacy history_turns may lack, in migration order
    MaxTurns,     \* bound: turns ever begun
    MaxMessages,  \* bound: messages of one turn
    MaxExits      \* bound: processes that stop

Processes == Clis \cup {Server}
Actors == Clis \cup Requests
Turns == 1..MaxTurns

ASSUME ActorsAssumption ==
    /\ Clis \cap Requests = {} /\ Server \notin Clis /\ NoProcess \notin Processes
ASSUME ThreadsAssumption == Threads \subseteq Ids
ASSUME ColumnsAssumption == Columns \subseteq Nat
ASSUME StoreBoundsAssumption ==
    MaxTurns \in Nat /\ MaxMessages \in Nat /\ MaxExits \in Nat

VARIABLES
    columns,    \* columns history_turns has, of those in Columns
    creator,    \* the sessions table: which process inserted the row, if there is one
    messages,   \* the messages table
    history,    \* the history_turns table
    phase,      \* of each process: "down", "migrating" or "up"
    existing,   \* the columns a migrating process has read or added
    drawn,      \* ids a process drew, or a client may send
    begun,      \* turns begun so far
    exits,      \* processes that stopped so far
    pc,         \* where each actor is
    chat,       \* the session, turn and message of each actor's current Chat
    scope,      \* App.Scope: the current session of each CLI
    listed,     \* the sessions a /session command showed
    acked,      \* messages HandleMessageEvent reported stored
    overtaken,  \* turns whose session was removed while they ran
    buried,     \* turns that had ended when their session was removed
    spoiled     \* sessions whose row's creation was cut short before its question

tables == <<columns, creator, messages, history>>
openVars == <<phase, existing>>
chatVars == <<pc, chat>>
cliVars == <<scope, listed, drawn>>
boundVars == <<begun, exits>>
ghostVars == <<acked, overtaken, buried, spoiled>>
vars == <<tables, openVars, chatVars, cliVars, boundVars, ghostVars>>

Row == [session : Ids, turn : Turns, n : 1..MaxMessages]
Sessions == {s \in Ids : creator[s] # NoProcess}
Process(a) == IF a \in Clis THEN a ELSE Server
Chatting == {"between", "create", "insert"}
Asked(s) == \E r \in messages : r.session = s /\ r.n = 1
NoChat == CHOOSE c \in [session : Ids, turn : {0}, n : {0}] : TRUE

\* Mutant of Locked: no db.mu.
Unlocked(a) == FALSE

\* db.mu is held by another actor of the process, between two statements.
Locked(a) ==
    \E b \in Actors \ {a} : Process(b) = Process(a) /\ pc[b] \in {"create", "insert"}

Init ==
    /\ columns \in SUBSET Columns
    /\ creator = [s \in Ids |-> NoProcess]
    /\ messages = {} /\ history = {}
    /\ phase = [p \in Processes |-> "down"]
    /\ existing = [p \in Processes |-> {}]
    /\ drawn = Threads
    /\ begun = 0 /\ exits = 0
    /\ pc = [a \in Actors |-> "idle"]
    /\ chat = [a \in Actors |-> NoChat]
    /\ scope \in [Clis -> Threads]
    /\ listed = [c \in Clis |-> {}]
    /\ acked = {} /\ overtaken = {} /\ buried = {} /\ spoiled = {}

----
\* Opening the store, and stopping.

\* New: the schema is there; migrateHistoryTurns reads table_info.
Open(p) ==
    /\ phase[p] = "down"
    /\ phase' = [phase EXCEPT ![p] = "migrating"]
    /\ existing' = [existing EXCEPT ![p] = columns]
    /\ UNCHANGED <<tables, chatVars, cliVars, boundVars, ghostVars>>

\* Mutant of Missing: a table with one of the columns is taken to have them all.
MissingAll(p) == IF existing[p] = {} THEN Columns ELSE {}

\* The columns the loop still has to add.
Missing(p) == Columns \ existing[p]

\* ALTER TABLE, which fails when another process has added the column since:
\* then New fails and the process ends.
Migrate(p) ==
    /\ phase[p] = "migrating" /\ Missing(p) # {}
    /\ LET column == CHOOSE c \in Missing(p) : \A d \in Missing(p) : c <= d
       IN IF column \in columns
          THEN /\ phase' = [phase EXCEPT ![p] = "down"]
               /\ UNCHANGED <<columns, existing>>
          ELSE /\ columns' = columns \cup {column}
               /\ existing' = [existing EXCEPT ![p] = @ \cup {column}]
               /\ UNCHANGED phase
    /\ UNCHANGED <<creator, messages, history, chatVars, cliVars, boundVars, ghostVars>>

\* New returns; a CLI starts on a session id of its own (GenerateSessionID).
Start(p) ==
    /\ phase[p] = "migrating" /\ Missing(p) = {}
    /\ phase' = [phase EXCEPT ![p] = "up"]
    /\ IF p \in Clis
       THEN \E s \in Ids \ drawn :
                scope' = [scope EXCEPT ![p] = s] /\ drawn' = drawn \cup {s}
       ELSE UNCHANGED <<scope, drawn>>
    /\ UNCHANGED <<tables, existing, listed, chatVars, boundVars, ghostVars>>

\* A session row without its first message: what stopping a at "insert" leaves.
Spoiled(a) ==
    {s \in Sessions : /\ pc[a] = "insert" /\ chat[a].session = s
                      /\ chat[a].n = 1 /\ ~Asked(s)}

\* The process ends, between any two statements of its actors.
Exit(p) ==
    /\ phase[p] # "down" /\ exits < MaxExits
    /\ exits' = exits + 1
    /\ phase' = [phase EXCEPT ![p] = "down"]
    /\ pc' = [a \in Actors |-> IF Process(a) = p THEN "idle" ELSE pc[a]]
    /\ chat' = [a \in Actors |-> IF Process(a) = p THEN NoChat ELSE chat[a]]
    /\ spoiled' = spoiled \cup UNION {Spoiled(a) : a \in {b \in Actors : Process(b) = p}}
    /\ UNCHANGED <<tables, existing, cliVars, begun, acked, overtaken, buried>>

----
\* A turn: its messages, one HandleMessageEvent each, then its turn event.

Idle(a) == phase[Process(a)] = "up" /\ pc[a] = "idle"

\* Chat is called: by the REPL in its current session, by a request in the
\* thread it names.
Ask(a) ==
    /\ Idle(a) /\ begun < MaxTurns
    /\ \E s \in IF a \in Clis THEN {scope[a]} ELSE Threads :
           chat' = [chat EXCEPT ![a] = [session |-> s, turn |-> begun + 1, n |-> 0]]
    /\ pc' = [pc EXCEPT ![a] = "between"]
    /\ begun' = begun + 1
    /\ UNCHANGED <<tables, openVars, cliVars, exits, ghostVars>>

\* Mutant of NextStatement: any message creates the session.
CreateForAny(a) == IF chat[a].session \in Sessions THEN "insert" ELSE "create"

\* What the next message event does once isSessionMaterialized has answered:
\* only a user message (the turn's first) creates the session, and another
\* message of a session that is gone is dropped, with no error.
NextStatement(a) ==
    IF chat[a].session \in Sessions THEN "insert"
    ELSE IF chat[a].n = 0 THEN "create" ELSE "between"

\* HandleMessageEvent up to isSessionMaterialized, under db.mu.
Check(a) ==
    /\ pc[a] = "between" /\ ~Locked(a) /\ chat[a].n < MaxMessages
    /\ chat' = [chat EXCEPT ![a].n = @ + 1]
    /\ pc' = [pc EXCEPT ![a] = NextStatement(a)]
    /\ acked' = IF NextStatement(a) = "between" THEN acked \cup {chat'[a]} ELSE acked
    /\ UNCHANGED <<tables, openVars, cliVars, boundVars, overtaken, buried, spoiled>>

\* The INSERT INTO sessions.
CreateRow(a) ==
    /\ pc[a] = "create" /\ chat[a].session \notin Sessions
    /\ creator' = [creator EXCEPT ![chat[a].session] = Process(a)]
    /\ UNCHANGED <<columns, messages, history>>

\* materializeSession, which fails when the row is there by now (Fail).
Create(a) ==
    /\ CreateRow(a)
    /\ pc' = [pc EXCEPT ![a] = "insert"]
    /\ UNCHANGED <<openVars, chat, cliVars, boundVars, ghostVars>>

\* Mutant of Insert: its error is logged instead of returned.
InsertUnchecked(a) ==
    /\ pc[a] = "insert"
    /\ messages' \in {messages, messages \cup {chat[a]}}
    /\ acked' = acked \cup {chat[a]}
    /\ pc' = [pc EXCEPT ![a] = "between"]
    /\ UNCHANGED <<columns, creator, history, openVars, chat, cliVars, boundVars,
                   overtaken, buried, spoiled>>

\* The INSERT INTO messages.
InsertRow(a) ==
    /\ pc[a] = "insert"
    /\ messages' = messages \cup {chat[a]}
    /\ UNCHANGED <<columns, creator, history>>

\* It succeeds, and HandleMessageEvent returns.
Insert(a) ==
    /\ InsertRow(a)
    /\ acked' = acked \cup {chat[a]}
    /\ pc' = [pc EXCEPT ![a] = "between"]
    /\ UNCHANGED <<openVars, chat, cliVars, boundVars, overtaken, buried, spoiled>>

\* HandleTurnEvent's upsert, which does not ask whether the session is there.
RecordRow(a) ==
    /\ pc[a] = "between" /\ chat[a].n >= 2 /\ ~Locked(a)
    /\ history' = history \cup {[session |-> chat[a].session, turn |-> chat[a].turn]}
    /\ UNCHANGED <<columns, creator, messages>>

\* Chat is over.
Leave(a) ==
    /\ pc' = [pc EXCEPT ![a] = "idle"]
    /\ chat' = [chat EXCEPT ![a] = NoChat]

\* Its end: the turn event.
Record(a) ==
    /\ RecordRow(a)
    /\ Leave(a)
    /\ UNCHANGED <<openVars, cliVars, boundVars, ghostVars>>

\* A statement, or another call of Chat, fails, and Chat returns the error.  A
\* statement whose context is cancelled may have taken effect all the same.
Fail(a) ==
    /\ pc[a] \in Chatting
    /\ Leave(a)
    /\ \/ spoiled' = spoiled \cup Spoiled(a) /\ UNCHANGED tables
       \/ spoiled' = spoiled \cup {chat[a].session} /\ CreateRow(a)
       \/ UNCHANGED spoiled /\ (InsertRow(a) \/ RecordRow(a))
    /\ UNCHANGED <<openVars, cliVars, boundVars, acked, overtaken, buried>>

----
\* The /session commands of a CLI at its prompt.

\* cmdSessionNew.
NewSession(c) ==
    /\ Idle(c)
    /\ \E s \in Ids \ drawn :
           scope' = [scope EXCEPT ![c] = s] /\ drawn' = drawn \cup {s}
    /\ UNCHANGED <<tables, openVars, chatVars, listed, boundVars, ghostVars>>

\* cmdSessionList and cmdSessionRemove up to their ReadLine: ListSessions
\* returns the rows of the moment, and the user is shown them.
List(c) ==
    /\ Idle(c) /\ Sessions # {}
    /\ listed' = [listed EXCEPT ![c] = Sessions]
    /\ \E command \in {"switch", "remove"} : pc' = [pc EXCEPT ![c] = command]
    /\ UNCHANGED <<tables, openVars, chat, scope, drawn, boundVars, ghostVars>>

Chosen(c) ==
    /\ pc' = [pc EXCEPT ![c] = "idle"]
    /\ listed' = [listed EXCEPT ![c] = {}]

\* The user's choice is what was shown, still there or not.
Switch(c) ==
    /\ pc[c] = "switch"
    /\ \E s \in listed[c] : scope' = [scope EXCEPT ![c] = s]
    /\ Chosen(c)
    /\ UNCHANGED <<tables, openVars, chat, drawn, boundVars, ghostVars>>

\* Enter, an invalid choice, the CLI's own session, or an error of DeleteSession.
Cancel(c) ==
    /\ pc[c] \in {"switch", "remove"}
    /\ Chosen(c)
    /\ UNCHANGED <<tables, openVars, chat, scope, drawn, boundVars, ghostVars>>

RunningIn(s) == {chat[a].turn : a \in {b \in Actors : pc[b] \in Chatting /\ chat[b].session = s}}
RowsOf(s) == {r \in messages \cup history : r.session = s}

\* Mutant of Delete: a table the transaction forgets.
DeleteKeepsHistory(s) ==
    /\ messages' = messages \ RowsOf(s)
    /\ creator' = [creator EXCEPT ![s] = NoProcess]
    /\ UNCHANGED history

\* DeleteSession's transaction: all three tables or none.
Delete(s) ==
    /\ messages' = messages \ RowsOf(s)
    /\ history' = history \ RowsOf(s)
    /\ creator' = [creator EXCEPT ![s] = NoProcess]

\* cmdSessionRemove refuses the CLI's own session, no other process's.
Remove(c) ==
    /\ pc[c] = "remove"
    /\ \E s \in listed[c] \ {scope[c]} :
           /\ Delete(s)
           /\ overtaken' = overtaken \cup RunningIn(s)
           /\ buried' = buried \cup ({r.turn : r \in RowsOf(s)} \ RunningIn(s))
           /\ spoiled' = spoiled \ {s}
    /\ Chosen(c)
    /\ UNCHANGED <<columns, openVars, chat, scope, drawn, boundVars, acked>>

----
ProcessStep(p) == Open(p) \/ Migrate(p) \/ Start(p) \/ Exit(p)
ChatStep(a) == Ask(a) \/ Check(a) \/ Create(a) \/ Insert(a) \/ Record(a) \/ Fail(a)
CommandStep(c) == NewSession(c) \/ List(c) \/ Switch(c) \/ Cancel(c) \/ Remove(c)

Next ==
    \/ \E p \in Processes : ProcessStep(p)
    \/ \E a \in Actors : ChatStep(a)
    \/ \E c \in Clis : CommandStep(c)

Spec == Init /\ [][Next]_vars

----
\* Every message the store reported stored is in its table, unless its session
\* was removed: a message is dropped without an error only for a turn that
\* DeleteSession overtook, whatever the other processes, failures and restarts.
NothingLost ==
    \A r \in acked : r \in messages \/ r.turn \in overtaken \cup buried

\* A row whose session row is missing belongs to a turn that was running when
\* its session was removed: between isSessionMaterialized and its INSERT, or at
\* its turn event.  No crash, failed statement or concurrent creation leaves one.
OrphansOnlyOvertaken ==
    \A r \in messages \cup history : r.session \in Sessions \/ r.turn \in overtaken

\* A session row has a question: it is without one only while its creator is
\* between the two statements, or when the creation of this very row was cut short,
\* by a process that stopped between the two, by an error of the second, or by one
\* that the first reported although it took effect.  No other message, request,
\* process or removal leaves or creates a session without one.
SessionsHaveQuestion ==
    \A s \in Sessions :
        \/ Asked(s)
        \/ s \in spoiled
        \/ \E a \in Actors : pc[a] = "insert" /\ chat[a].session = s /\ chat[a].n = 1

\* Two requests of one process never collide on the creation of a session: a
\* primary key conflict comes from a row that another process inserted.
CreateConflictsForeign ==
    \A a \in Actors :
        pc[a] = "create" => creator[chat[a].session] # Process(a)

\* A process works on the store only once history_turns has all its columns,
\* however many processes migrated a legacy database at the same time or
\* stopped half-way.
OpenedMigrated ==
    \A p \in Processes : phase[p] = "up" => columns = Columns
====
