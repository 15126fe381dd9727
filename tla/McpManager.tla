---- MODULE McpManager ----
(***************************************************************************)
(* mcp.Manager (talk/internal/mcp/manager.go) and the tool calls that go   *)
(* through it (mcpToolAdapter.Execute): the sessions of the registered MCP *)
(* servers, their loss and the shared reconnection.                        *)
(*                                                                         *)
(* Tool calls run concurrently: those of a batch, and in the AG-UI server  *)
(* those of several requests.  ConnectAll runs before the REPL or the HTTP *)
(* server, and a /mcp command only while no tool call is under way, so for *)
(* these one step stands for the whole operation.  Close, at shutdown, and *)
(* another process that removes a server from the registry come at any     *)
(* time.                                                                   *)
(***************************************************************************)
EXTENDS Integers, FiniteSets

CONSTANTS
    Servers,      \* server ids
    Calls,        \* tool calls
    NoCall,       \* not a call
    MaxSessions,  \* bound: sessions ever dialled
    MaxLosses,    \* bound: sessions lost
    Faults        \* what may go wrong or interfere: dialling, listing, calling;
                  \* /mcp commands, another process, shutdown

FaultKinds == {"dial", "list", "call", "commands", "foreign", "shutdown"}

ASSUME NoCallAssumption == NoCall \notin Calls
ASSUME McpBoundsAssumption == MaxSessions \in Nat /\ MaxLosses \in Nat
ASSUME McpFaultsAssumption == Faults \subseteq FaultKinds

VARIABLES
    registered,  \* the servers the registry (mcp_servers) holds
    starting,    \* those ConnectAll has still to connect to
    closed,      \* was Close called?
    sessionOf,   \* m.sessions: the session of each server, 0 for none
    status,      \* m.statuses: "none", "up", "down" (not Connected), or "stale":
                 \* Connected, but with the error of a listing
    tools,       \* m.tools: the servers whose tools are in the catalogue
    condition,   \* of each session: "unused", "open", "lost" or "closed"
    losses,      \* sessions lost so far
    leader,      \* the call that runs each server's singleflight function
    pc,          \* where Execute is for each call
    server,      \* the server a call goes to
    held,        \* the session a call has in hand, 0 for none
    displaced,   \* the session a leader has to close, 0 for none
    retried      \* is the call past its first attempt?

managerVars == <<sessionOf, status, tools>>
callVars == <<pc, server, held, displaced, retried>>
lifeVars == <<registered, starting, closed>>
vars == <<lifeVars, managerVars, condition, losses, leader, callVars>>

Session == 1..MaxSessions
Unused == {k \in Session : condition[k] = "unused"}
Fresh == CHOOSE k \in Unused : \A l \in Unused : k <= l
Ended == {"answered", "failed"}

\* The REPL is at its prompt: started, not shut down, no tool call under way.
AtPrompt ==
    /\ "commands" \in Faults
    /\ starting = {} /\ ~closed
    /\ \A c \in Calls : pc[c] \in {"idle"} \cup Ended

Init ==
    /\ registered \in SUBSET Servers
    /\ starting = registered
    /\ closed = FALSE
    /\ sessionOf = [s \in Servers |-> 0]
    /\ status = [s \in Servers |-> "none"]
    /\ tools = {}
    /\ condition = [k \in Session |-> "unused"]
    /\ losses = 0
    /\ leader = [s \in Servers |-> NoCall]
    /\ pc = [c \in Calls |-> "idle"]
    /\ server \in [Calls -> Servers]
    /\ held = [c \in Calls |-> 0]
    /\ displaced = [c \in Calls |-> 0]
    /\ retried = [c \in Calls |-> FALSE]

----
\* Start, commands and shutdown.

\* storeConnectionState with a new session.
StoreSession(s, k) ==
    /\ sessionOf' = [sessionOf EXCEPT ![s] = k]
    /\ status' = [status EXCEPT ![s] = "up"]
    /\ tools' = tools \cup {s}

\* connectServer succeeds: the server is dialled and its tools are listed.
Connected(s) ==
    /\ Unused # {}
    /\ condition' = [condition EXCEPT ![Fresh] = "open"]
    /\ StoreSession(s, Fresh)

\* One round of ConnectAll's loop; a server that fails gets a status only (and a
\* session that cannot list its tools is closed before anybody has it).
ConnectNext(s) ==
    /\ s \in starting
    /\ starting' = starting \ {s}
    /\ \/ Connected(s)
       \/ /\ \/ "dial" \in Faults /\ status' = [status EXCEPT ![s] = "down"]
             \/ "list" \in Faults /\ status' = [status EXCEPT ![s] = "stale"]
          /\ UNCHANGED <<sessionOf, tools, condition>>
    /\ UNCHANGED <<registered, closed, losses, leader, callVars>>

\* /mcp add, once the test connection succeeded: Connect, then Registry.Add,
\* which may fail.
Add(s) ==
    /\ AtPrompt /\ s \notin registered /\ status[s] = "none"
    /\ Connected(s)
    /\ registered' \in {registered, registered \cup {s}}
    /\ UNCHANGED <<starting, closed, losses, leader, callVars>>

\* Disconnect: session, status and tools of the server go.
Disconnect(s) ==
    /\ condition' = [k \in Session |-> IF k = sessionOf[s] THEN "closed" ELSE condition[k]]
    /\ sessionOf' = [sessionOf EXCEPT ![s] = 0]
    /\ status' = [status EXCEPT ![s] = "none"]
    /\ tools' = tools \ {s}

\* /mcp remove: Registry.Remove, then Disconnect.
Remove(s) ==
    /\ AtPrompt /\ s \in registered
    /\ registered' = registered \ {s}
    /\ Disconnect(s)
    /\ UNCHANGED <<starting, closed, losses, leader, callVars>>

\* Mutant of Refresh: a server it cannot list keeps its status.
RefreshKeepingStatus ==
    /\ AtPrompt
    /\ tools' = {s \in Servers : sessionOf[s] # 0 /\ condition[sessionOf[s]] = "open"}
    /\ UNCHANGED <<lifeVars, sessionOf, status, condition, losses, leader, callVars>>

\* /mcp refresh: the servers that are Connected, with an error or without, are
\* listed over the map's session; the tools of those that answer replace those of
\* every server with a status.
Refresh ==
    LET asked == {s \in Servers : status[s] \in {"up", "stale"} /\ sessionOf[s] # 0}
    IN  /\ AtPrompt
        /\ \E listed \in SUBSET {s \in asked : condition[sessionOf[s]] = "open"} :
              /\ "list" \in Faults \/ \A s \in asked \ listed : condition[sessionOf[s]] # "open"
              /\ status' = [s \in Servers |->
                              IF s \in listed THEN "up"
                              ELSE IF s \in asked THEN "stale" ELSE status[s]]
              /\ tools' = {s \in tools : status[s] = "none"} \cup listed
        /\ UNCHANGED <<lifeVars, sessionOf, condition, losses, leader, callVars>>

\* Close: every session of the map is closed; what calls under way hold is not
\* looked at, and the catalogue stays.
Close ==
    /\ "shutdown" \in Faults
    /\ starting = {} /\ ~closed
    /\ closed' = TRUE
    /\ condition' = [k \in Session |->
                       IF \E s \in Servers : sessionOf[s] = k THEN "closed" ELSE condition[k]]
    /\ sessionOf' = [s \in Servers |-> 0]
    /\ UNCHANGED <<registered, starting, status, tools, losses, leader, callVars>>

\* Another process removes a server.
Unregister(s) ==
    /\ "foreign" \in Faults
    /\ s \in registered
    /\ registered' = registered \ {s}
    /\ UNCHANGED <<starting, closed, managerVars, condition, losses, leader, callVars>>

\* A server restarts or its connection breaks.
Lose(k) ==
    /\ losses < MaxLosses
    /\ condition[k] = "open"
    /\ condition' = [condition EXCEPT ![k] = "lost"]
    /\ losses' = losses + 1
    /\ UNCHANGED <<lifeVars, managerVars, leader, callVars>>

----
\* Execute, for one tool call.

Goto(c, label) == pc' = [pc EXCEPT ![c] = label]

\* The calls in D return what they have; their locals are gone.
Return(D, label) ==
    /\ pc' = [c \in Calls |-> IF c \in D THEN label ELSE pc[c]]
    /\ held' = [c \in Calls |-> IF c \in D THEN 0 ELSE held[c]]
    /\ retried' = [c \in Calls |-> retried[c] /\ c \notin D]

\* The executor finds the tool's adapter in the catalogue.
Start(c) ==
    /\ pc[c] = "idle" /\ starting = {}
    /\ server[c] \in tools
    /\ Goto(c, "ensure")
    /\ UNCHANGED <<lifeVars, managerVars, condition, losses, leader, server, held, displaced, retried>>

\* EnsureConnected: whatever session the map holds is taken for an active one.
EnsureConnected(c) ==
    LET k == sessionOf[server[c]]
    IN  /\ pc[c] = "ensure"
        /\ IF server[c] \notin registered THEN Return({c}, "failed")
           ELSE /\ IF k = 0 THEN Goto(c, "join") ELSE Goto(c, "call")
                /\ held' = [held EXCEPT ![c] = k]
                /\ UNCHANGED retried
        /\ UNCHANGED <<lifeVars, managerVars, condition, losses, leader, server, displaced>>

\* Does a call on session k fail with an error that a new session would mend?
isReconnectableCallError(k) == condition[k] # "open"

\* CallTool, first attempt.
CallTool(c) ==
    /\ pc[c] = "call"
    /\ \/ condition[held[c]] = "open" /\ Return({c}, "answered")
       \/ isReconnectableCallError(held[c]) /\ Goto(c, "renew") /\ UNCHANGED <<held, retried>>
       \/ "call" \in Faults /\ Return({c}, "failed")
    /\ UNCHANGED <<lifeVars, managerVars, condition, losses, leader, server, displaced>>

\* Reconnect looks the server up in the registry again.
Reconnect(c) ==
    /\ pc[c] = "renew"
    /\ IF server[c] \notin registered THEN Return({c}, "failed")
       ELSE /\ Goto(c, "join")
            /\ held' = [held EXCEPT ![c] = 0]
            /\ retried' = [retried EXCEPT ![c] = TRUE]
    /\ UNCHANGED <<lifeVars, managerVars, condition, losses, leader, server, displaced>>

\* Mutant of Join: no singleflight.
JoinAlone(c) ==
    /\ pc[c] = "join"
    /\ Goto(c, "dial") /\ leader' = [leader EXCEPT ![server[c]] = c]
    /\ UNCHANGED <<lifeVars, managerVars, condition, losses, server, held, displaced, retried>>

\* reconnectGroup.Do: the first caller runs the function, the others wait for it.
Join(c) ==
    /\ pc[c] = "join"
    /\ IF leader[server[c]] = NoCall
       THEN Goto(c, "dial") /\ leader' = [leader EXCEPT ![server[c]] = c]
       ELSE Goto(c, "wait") /\ UNCHANGED leader
    /\ UNCHANGED <<lifeVars, managerVars, condition, losses, server, held, displaced, retried>>

\* The calls that get what the singleflight function of leader c returns.
Joined(c) == {c} \cup {d \in Calls : pc[d] = "wait" /\ server[d] = server[c]}

\* Mutant of Fail: those who wait are forgotten.
FailAlone(c, shown) ==
    /\ status' = [status EXCEPT ![server[c]] = IF @ = "none" THEN "none" ELSE shown]
    /\ leader' = [leader EXCEPT ![server[c]] = NoCall]
    /\ Return({c}, "failed")

\* applyReconnectFailure: map and catalogue stay, the status, if there is one,
\* becomes that of the attempt; everyone who joined gets the error.
Fail(c, shown) ==
    /\ status' = [status EXCEPT ![server[c]] = IF @ = "none" THEN "none" ELSE shown]
    /\ leader' = [leader EXCEPT ![server[c]] = NoCall]
    /\ Return(Joined(c), "failed")

\* connectServer's first half, with the context of the leader's request.
Dial(c) ==
    /\ pc[c] = "dial"
    /\ \/ /\ Unused # {}
          /\ condition' = [condition EXCEPT ![Fresh] = "open"]
          /\ held' = [held EXCEPT ![c] = Fresh]
          /\ Goto(c, "list")
          /\ UNCHANGED <<status, leader, retried>>
       \/ /\ "dial" \in Faults \/ Unused = {}
          /\ Fail(c, "down")
          /\ UNCHANGED condition
    /\ UNCHANGED <<lifeVars, sessionOf, tools, losses, server, displaced>>

\* Its second half: tools/list; a session that cannot list its tools is closed,
\* and its server stays Connected, with the error.
List(c) ==
    /\ pc[c] = "list"
    /\ \/ /\ condition[held[c]] = "open"
          /\ Goto(c, "store")
          /\ UNCHANGED <<status, condition, leader, held, retried>>
       \/ /\ "list" \in Faults \/ condition[held[c]] # "open"
          /\ condition' = [condition EXCEPT ![held[c]] = "closed"]
          /\ Fail(c, "stale")
    /\ UNCHANGED <<lifeVars, sessionOf, tools, losses, server, displaced>>

\* Mutant of Store: the displaced session is forgotten.
StoreForgetting(c) ==
    /\ pc[c] = "store"
    /\ StoreSession(server[c], held[c])
    /\ Goto(c, "close")
    /\ UNCHANGED <<lifeVars, condition, losses, leader, server, held, displaced, retried>>

\* storeConnectionState, under the lock.
Store(c) ==
    /\ pc[c] = "store"
    /\ StoreSession(server[c], held[c])
    /\ displaced' = [displaced EXCEPT ![c] = sessionOf[server[c]]]
    /\ Goto(c, "close")
    /\ UNCHANGED <<lifeVars, condition, losses, leader, server, held, retried>>

\* Mutant of CloseDisplaced: the session is closed by its server's entry.
CloseCurrent(c) ==
    /\ pc[c] = "close"
    /\ condition' = [k \in Session |->
                       IF k = sessionOf[server[c]] /\ displaced[c] # 0 THEN "closed" ELSE condition[k]]
    /\ held' = [d \in Calls |-> IF d \in Joined(c) THEN held[c] ELSE held[d]]
    /\ pc' = [d \in Calls |->
                IF d \in Joined(c) THEN IF retried[d] THEN "recall" ELSE "call" ELSE pc[d]]
    /\ displaced' = [displaced EXCEPT ![c] = 0]
    /\ leader' = [leader EXCEPT ![server[c]] = NoCall]
    /\ UNCHANGED <<lifeVars, managerVars, losses, server, retried>>

\* After the lock: the displaced session is closed, and everyone who joined gets
\* the new one.
CloseDisplaced(c) ==
    /\ pc[c] = "close"
    /\ condition' = [k \in Session |-> IF k = displaced[c] THEN "closed" ELSE condition[k]]
    /\ held' = [d \in Calls |-> IF d \in Joined(c) THEN held[c] ELSE held[d]]
    /\ pc' = [d \in Calls |->
                IF d \in Joined(c) THEN IF retried[d] THEN "recall" ELSE "call" ELSE pc[d]]
    /\ displaced' = [displaced EXCEPT ![c] = 0]
    /\ leader' = [leader EXCEPT ![server[c]] = NoCall]
    /\ UNCHANGED <<lifeVars, managerVars, losses, server, retried>>

\* CallTool after the reconnection: there is no third attempt.
CallAgain(c) ==
    /\ pc[c] = "recall"
    /\ \/ condition[held[c]] = "open" /\ Return({c}, "answered")
       \/ condition[held[c]] # "open" /\ Return({c}, "failed")
       \/ "call" \in Faults /\ Return({c}, "failed")
    /\ UNCHANGED <<lifeVars, managerVars, condition, losses, leader, server, displaced>>

Execute(c) ==
    \/ EnsureConnected(c) \/ CallTool(c) \/ Reconnect(c) \/ Join(c) \/ Dial(c)
    \/ List(c) \/ Store(c) \/ CloseDisplaced(c) \/ CallAgain(c)

\* Nothing is under way.
Quiet == (\A c \in Calls : pc[c] \in {"idle"} \cup Ended) /\ UNCHANGED vars

Next ==
    \/ \E s \in Servers : ConnectNext(s) \/ Add(s) \/ Remove(s) \/ Unregister(s)
    \/ Refresh
    \/ Close
    \/ \E k \in Session : Lose(k)
    \/ \E c \in Calls : Start(c) \/ Execute(c)
    \/ Quiet

\* Goroutines are scheduled; dialling ends by connectTimeout, and a server that is
\* asked for its tools or called answers, or its connection breaks.
Fairness == \A c \in Calls : WF_vars(Execute(c))

Spec == Init /\ [][Next]_vars /\ Fairness

----
\* Properties.

Label == {"idle", "ensure", "call", "renew", "join", "wait", "dial", "list", "store",
          "close", "recall"} \cup Ended

\* Every variable has its type, and a call that uses a session has one.
TypeOK ==
    /\ registered \subseteq Servers /\ starting \subseteq Servers /\ closed \in BOOLEAN
    /\ sessionOf \in [Servers -> 0..MaxSessions]
    /\ status \in [Servers -> {"none", "up", "down", "stale"}]
    /\ tools \subseteq Servers
    /\ condition \in [Session -> {"unused", "open", "lost", "closed"}]
    /\ losses \in 0..MaxLosses
    /\ leader \in [Servers -> Calls \cup {NoCall}]
    /\ pc \in [Calls -> Label]
    /\ server \in [Calls -> Servers]
    /\ held \in [Calls -> 0..MaxSessions]
    /\ displaced \in [Calls -> 0..MaxSessions]
    /\ retried \in [Calls -> BOOLEAN]
    /\ \A c \in Calls : pc[c] \in {"call", "list", "store", "close", "recall"} => held[c] # 0

\* The calls that run the singleflight function of a server.
Reconnecting(s) == {c \in Calls : server[c] = s /\ pc[c] \in {"dial", "list", "store", "close"}}

\* Reconnections of one server never overlap (docs/mcp-protocol.md: singleflight
\* prevents duplicate concurrent reconnection attempts), and no call waits for one
\* that nobody runs.
OneReconnection ==
    \A s \in Servers :
        /\ Cardinality(Reconnecting(s)) <= 1
        /\ (\E c \in Calls : pc[c] = "wait" /\ server[c] = s) => Reconnecting(s) # {}

\* Sessions are closed once and none leaks: whatever interrupts a reconnection, an
\* open session is in the map, or in the hands of a call that will store or close
\* it; and neither the map, nor a call that will store or close one, has a session
\* the manager has closed already.  So what EnsureConnected hands out may be lost,
\* but has not been given up, and what a reconnection displaces is closed by it alone.
NoSessionLeak ==
    /\ \A k \in Session : condition[k] = "open" =>
           \/ \E s \in Servers : sessionOf[s] = k
           \/ \E c \in Calls : held[c] = k /\ pc[c] \in {"list", "store"}
           \/ \E c \in Calls : displaced[c] = k /\ pc[c] = "close"
    /\ \A s \in Servers : sessionOf[s] # 0 => condition[sessionOf[s]] # "closed"
    /\ \A c \in Calls :
           /\ pc[c] \in {"list", "store"} => condition[held[c]] # "closed"
           /\ displaced[c] # 0 => condition[displaced[c]] # "closed"

\* The map, the statuses and the catalogue, which reconnections, /mcp commands and
\* shutdown write apart, agree.  Until shutdown a server whose tools the LLM is told
\* of has a session, which is what makes its loss noticed.  A server with a session is
\* in /mcp list, and unless it is shown there with an error, the LLM is told of its
\* tools: no server loses them unseen, whatever reconnection or refresh fails.
CatalogueMatches ==
    \A s \in Servers :
        /\ s \in tools => sessionOf[s] # 0 \/ closed
        /\ sessionOf[s] # 0 => status[s] # "none"
        /\ status[s] = "up" => s \in tools

\* A retry whose session the manager closed under its hands was overtaken: by a
\* later reconnection, or by shutdown.
RetryOnlyOvertaken ==
    \A c \in Calls : pc[c] = "recall" /\ condition[held[c]] = "closed" =>
        closed \/ sessionOf[server[c]] \notin {0, held[c]}

\* Does the map hold a session of server s that is not lost, or none?
Renewed(s) == sessionOf[s] = 0 \/ condition[sessionOf[s]] # "lost"

\* Every tool call ends, whatever happens to its session or to the call that
\* reconnects on its behalf; and one that EnsureConnected gave a lost session does
\* not end well and leave that session in the map for the next.
CallsEnd ==
    \A c \in Calls :
        /\ pc[c] = "ensure" ~> pc[c] \in Ended
        /\ pc[c] = "call" /\ condition[held[c]] = "lost" ~> pc[c] = "failed" \/ Renewed(server[c])

\* docs/mcp-protocol.md:336: a lost session is reconnected when a tool of the
\* server is next called, without duplicate attempts; so while the server is
\* registered and answers, a tool call is answered.
HealthyServerAnswers ==
    \A c \in Calls : pc[c] = "failed" => server[c] \notin registered
====
