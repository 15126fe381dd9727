---- MODULE McpManagerProofs ----
(***************************************************************************)
(* Proofs about McpManager, for any number of servers, tool calls and      *)
(* sessions and every set of faults: reconnections of a server never       *)
(* overlap, no session leaks, the catalogue, the map and the statuses      *)
(* agree, and a retry loses its session to an overtaking step only.        *)
(***************************************************************************)
EXTENDS McpManager, FiniteSetTheorems, WellFoundedInduction, TLAPS

----
\* The inductive invariant.

\* What ConnectAll has still to connect to is as Init left it, and the map has
\* nothing of a server without a status.
StartInv ==
    /\ starting # {} => ~closed /\ \A c \in Calls : pc[c] = "idle"
    /\ \A s \in starting : status[s] = "none"
    /\ \A s \in Servers : status[s] = "none" => sessionOf[s] = 0

Leading == {"dial", "list", "store", "close"}

\* The singleflight group: whoever runs a server's function is its leader, and
\* whoever waits for it waits for one.
LeaderInv ==
    /\ \A c \in Calls : pc[c] \in Leading => leader[server[c]] = c
    /\ \A s \in Servers : leader[s] # NoCall => pc[leader[s]] \in Leading /\ server[leader[s]] = s
    /\ \A c \in Calls : pc[c] = "wait" => leader[server[c]] # NoCall

InHand(c) == pc[c] \in {"list", "store"}

\* Each session is one server's, or one call's before it is stored, or one that
\* was displaced; until it is given up it has not been closed.
SessionInv ==
    /\ \A s \in Servers : sessionOf[s] # 0 =>
          /\ condition[sessionOf[s]] \in {"open", "lost"}
          /\ \A t \in Servers : sessionOf[t] = sessionOf[s] => t = s
    /\ \A c \in Calls : InHand(c) =>
          /\ condition[held[c]] \in {"open", "lost"}
          /\ \A s \in Servers : sessionOf[s] # held[c]
          /\ \A d \in Calls : displaced[d] # held[c] /\ (InHand(d) /\ held[d] = held[c] => d = c)
    /\ \A c \in Calls : displaced[c] # 0 =>
          /\ pc[c] = "close" /\ condition[displaced[c]] \in {"open", "lost"}
          /\ \A s \in Servers : sessionOf[s] # displaced[c]
          /\ \A d \in Calls : displaced[d] = displaced[c] => d = c

\* An open session is somebody's.
OpenInv ==
    \A k \in Session : condition[k] = "open" =>
        \/ \E s \in Servers : sessionOf[s] = k
        \/ \E c \in Calls : InHand(c) /\ held[c] = k
        \/ \E c \in Calls : pc[c] = "close" /\ displaced[c] = k

\* From the moment a new session is stored, only shutdown leaves the server
\* without one before the calls that joined have made their retry.
RetryInv ==
    \A c \in Calls : pc[c] \in {"close", "recall"} => closed \/ sessionOf[server[c]] # 0

IInv ==
    /\ TypeOK
    /\ StartInv
    /\ LeaderInv
    /\ SessionInv
    /\ OpenInv
    /\ CatalogueMatches
    /\ RetryInv

----
\* The constants, and the session a dial gets.

USE DEF managerVars, callVars, lifeVars

LEMMA Constants ==
    /\ NoCall \notin Calls
    /\ MaxSessions \in Nat /\ MaxLosses \in Nat
  BY NoCallAssumption, McpBoundsAssumption

\* The next session is one nobody has had: it is chosen well.
LEMMA FreshUnused ==
    ASSUME Unused # {}
    PROVE  Fresh \in Session /\ Fresh \in 0..MaxSessions /\ Fresh # 0 /\ condition[Fresh] = "unused"
<1>1. Unused \subseteq Nat /\ Unused \subseteq Session
  BY Constants DEF Unused, Session
<1>2. PICK k \in Unused : \A l \in Unused : <<l, k>> \notin OpToRel(<, Nat)
  BY <1>1, NatLessThanWellFounded, WFMin
<1>3. OpToRel(<, Nat) = {ss \in Nat \X Nat : ss[1] < ss[2]}
  BY DEF OpToRel
<1>4. ASSUME NEW l \in Unused PROVE k <= l
  <2>1. <<l, k>> \notin {ss \in Nat \X Nat : ss[1] < ss[2]}
    BY <1>2, <1>3
  <2>2. l \in Nat /\ k \in Nat /\ ~(l < k)
    BY <1>1, <2>1
  <2> QED
    BY <2>2
<1>5. Fresh \in Unused
  BY <1>4 DEF Fresh
<1> QED
  BY <1>5, Constants DEF Unused, Session

\* What the operations of the prompt, the servers and the other processes do.
Outside ==
    \/ \E s \in Servers : ConnectNext(s) \/ Add(s) \/ Remove(s) \/ Unregister(s)
    \/ Refresh
    \/ Close
    \/ \E k \in Session : Lose(k)

LEMMA OutsideFrame ==
    ASSUME Outside
    PROVE  UNCHANGED <<pc, server, held, displaced, retried, leader>>
  BY DEF Outside, ConnectNext, Add, Remove, Unregister, Refresh, Close, Lose

\* A tool call decides nothing about the registry, the start or the shutdown.
LEMMA CallFrame ==
    ASSUME NEW c \in Calls, Start(c) \/ Execute(c)
    PROVE  UNCHANGED <<registered, starting, closed, server, losses>>
  BY DEF Start, Execute, EnsureConnected, CallTool, Reconnect, Join, Dial, List, Store,
         CloseDisplaced, CallAgain

\* Until the start is over there is no tool call under way.
LEMMA NotStarting ==
    ASSUME TypeOK, StartInv, NEW c \in Calls, Execute(c)
    PROVE  starting = {} /\ pc[c] # "idle"
  BY DEF TypeOK, StartInv, Execute, EnsureConnected, CallTool, Reconnect, Join, Dial, List, Store,
         CloseDisplaced, CallAgain

----
\* Types.

LEMMA InitInv == Init => IInv
<1> SUFFICES ASSUME Init PROVE IInv
  OBVIOUS
<1>1. TypeOK
  <2>1. 0 \in 0..MaxSessions /\ 0 \in 0..MaxLosses
    BY Constants
  <2> QED
    BY <2>1 DEF Init, TypeOK, Label
<1>2. StartInv /\ LeaderInv /\ RetryInv
  BY Constants DEF Init, StartInv, LeaderInv, RetryInv, Leading
<1>3. SessionInv /\ OpenInv
  BY DEF Init, SessionInv, OpenInv, InHand
<1>4. CatalogueMatches
  BY DEF Init, CatalogueMatches
<1> QED
  BY <1>1, <1>2, <1>3, <1>4 DEF IInv

\* Calls that return have no session any more.
LEMMA ReturnType ==
    ASSUME TypeOK, NEW D, NEW label \in Ended, Return(D, label)
    PROVE  /\ pc' \in [Calls -> Label]
           /\ held' \in [Calls -> 0..MaxSessions]
           /\ retried' \in [Calls -> BOOLEAN]
           /\ \A c \in Calls : c \in D => pc'[c] = label
           /\ \A c \in Calls : c \notin D => pc'[c] = pc[c] /\ held'[c] = held[c]
<1>1. 0 \in 0..MaxSessions
  BY Constants
<1>2. \A c \in Calls : (retried[c] /\ c \notin D) \in BOOLEAN
  BY Zenon
<1> QED
  BY <1>1, <1>2 DEF TypeOK, Return, Label

LEMMA TypeStep ==
    ASSUME TypeOK, StartInv, Next
    PROVE  TypeOK'
<1> USE DEF TypeOK, Label, Ended, Goto
<1>1. ASSUME NEW s \in Servers, ConnectNext(s) \/ Add(s) PROVE TypeOK'
  BY <1>1, FreshUnused, Constants DEF ConnectNext, Add, Connected, StoreSession
<1>2. ASSUME NEW s \in Servers, Remove(s) \/ Unregister(s) PROVE TypeOK'
  BY <1>2, Constants DEF Remove, Unregister, Disconnect
<1>3. ASSUME Refresh PROVE TypeOK'
  BY <1>3 DEF Refresh
<1>4. ASSUME Close PROVE TypeOK'
  BY <1>4, Constants DEF Close
<1>5. ASSUME NEW k \in Session, Lose(k) PROVE TypeOK'
  BY <1>5, Constants DEF Lose
<1>6. ASSUME NEW c \in Calls, Start(c) \/ Reconnect(c) \/ Join(c) PROVE TypeOK'
  <2>1. CASE Start(c)
    BY <2>1 DEF Start
  <2>2. CASE Reconnect(c)
    <3>1. CASE server[c] \notin registered
      <4>1. /\ Return({c}, "failed") /\ "failed" \in Ended
            /\ UNCHANGED <<lifeVars, managerVars, condition, losses, leader, server, displaced>>
        BY <2>2, <3>1 DEF Reconnect
      <4>2. /\ pc' \in [Calls -> Label] /\ held' \in [Calls -> 0..MaxSessions]
            /\ retried' \in [Calls -> BOOLEAN]
            /\ pc'[c] = "failed"
            /\ \A d \in Calls \ {c} : pc'[d] = pc[d] /\ held'[d] = held[d]
        BY <4>1, ReturnType
      <4> QED
        BY <4>1, <4>2
    <3>2. CASE server[c] \in registered
      <4>1. 0 \in 0..MaxSessions
        BY Constants
      <4> QED
        BY <2>2, <3>2, <4>1, ZenonT(40) DEF Reconnect
    <3> QED
      BY <3>1, <3>2
  <2>3. CASE Join(c)
    BY <2>3 DEF Join
  <2> QED
    BY <1>6, <2>1, <2>2, <2>3
<1>7. ASSUME NEW c \in Calls, EnsureConnected(c) PROVE TypeOK'
  BY <1>7, ReturnType, Constants DEF EnsureConnected
<1>8. ASSUME NEW c \in Calls, CallTool(c) \/ CallAgain(c) PROVE TypeOK'
  BY <1>8, ReturnType, Constants DEF CallTool, CallAgain
<1>9. ASSUME NEW c \in Calls, Dial(c) PROVE TypeOK'
  BY <1>9, FreshUnused, ReturnType, Constants DEF Dial, Fail, Joined
<1>10. ASSUME NEW c \in Calls, List(c) PROVE TypeOK'
  BY <1>10, ReturnType, Constants DEF List, Fail, Joined
<1>11. ASSUME NEW c \in Calls, Store(c) PROVE TypeOK'
  BY <1>11, Constants DEF Store, StoreSession
<1>12. ASSUME NEW c \in Calls, CloseDisplaced(c) PROVE TypeOK'
  BY <1>12, Constants DEF CloseDisplaced, Joined
<1>13. ASSUME Quiet PROVE TypeOK'
  BY <1>13 DEF Quiet, vars
<1> QED
  BY <1>1, <1>2, <1>3, <1>4, <1>5, <1>6, <1>7, <1>8, <1>9, <1>10, <1>11, <1>12, <1>13
     DEF Next, Execute

----
\* The start, and the singleflight group.

LEMMA StartStep ==
    ASSUME TypeOK, StartInv, Next
    PROVE  StartInv'
<1> USE DEF TypeOK, StartInv
<1>1. ASSUME NEW s \in Servers, ConnectNext(s) \/ Add(s) PROVE StartInv'
  BY <1>1, FreshUnused DEF ConnectNext, Add, Connected, StoreSession, AtPrompt
<1>2. ASSUME NEW s \in Servers, Remove(s) \/ Unregister(s) PROVE StartInv'
  BY <1>2 DEF Remove, Unregister, Disconnect, AtPrompt
<1>3. ASSUME Refresh PROVE StartInv'
  BY <1>3 DEF Refresh, AtPrompt
<1>4. ASSUME Close PROVE StartInv'
  BY <1>4 DEF Close
<1>5. ASSUME NEW k \in Session, Lose(k) PROVE StartInv'
  BY <1>5 DEF Lose
<1>6. ASSUME NEW c \in Calls, Start(c) PROVE StartInv'
  BY <1>6 DEF Start
<1>7. ASSUME NEW c \in Calls, Execute(c) PROVE StartInv'
  <2>1. starting' = {}
    BY <1>7, NotStarting, CallFrame
  <2>2. \A s \in Servers : status'[s] = "none" => status[s] = "none" /\ sessionOf'[s] = sessionOf[s]
    BY <1>7
       DEF Execute, EnsureConnected, CallTool, Reconnect, Join, Dial, List, Fail, Store, StoreSession,
           CloseDisplaced, CallAgain
  <2> QED
    BY <2>1, <2>2
<1>8. ASSUME Quiet PROVE StartInv'
  BY <1>8 DEF Quiet, vars
<1> QED
  BY <1>1, <1>2, <1>3, <1>4, <1>5, <1>6, <1>7, <1>8 DEF Next

LEMMA LeaderStep ==
    ASSUME TypeOK, LeaderInv, Next
    PROVE  LeaderInv'
<1> USE DEF TypeOK, LeaderInv, Leading, Goto, Return
<1>1. ASSUME Outside PROVE LeaderInv'
  BY <1>1, OutsideFrame
<1>2. ASSUME NEW c \in Calls, Start(c) \/ Reconnect(c) PROVE LeaderInv'
  BY <1>2 DEF Start, Reconnect
<1>3. ASSUME NEW c \in Calls, EnsureConnected(c) PROVE LeaderInv'
  BY <1>3 DEF EnsureConnected
<1>4. ASSUME NEW c \in Calls, CallTool(c) \/ CallAgain(c) PROVE LeaderInv'
  BY <1>4 DEF CallTool, CallAgain
<1>5. ASSUME NEW c \in Calls, Join(c) PROVE LeaderInv'
  BY <1>5, Constants DEF Join
<1>6. ASSUME NEW c \in Calls, Dial(c) PROVE LeaderInv'
  BY <1>6, Constants DEF Dial, Fail, Joined
<1>7. ASSUME NEW c \in Calls, List(c) PROVE LeaderInv'
  BY <1>7, Constants DEF List, Fail, Joined
<1>8. ASSUME NEW c \in Calls, Store(c) PROVE LeaderInv'
  BY <1>8, Constants DEF Store
<1>9. ASSUME NEW c \in Calls, CloseDisplaced(c) PROVE LeaderInv'
  BY <1>9, Constants DEF CloseDisplaced, Joined
<1>10. ASSUME Quiet PROVE LeaderInv'
  BY <1>10 DEF Quiet, vars
<1> QED
  BY <1>1, <1>2, <1>3, <1>4, <1>5, <1>6, <1>7, <1>8, <1>9, <1>10 DEF Next, Execute, Outside

----
\* The sessions.

\* While the prompt or the start has the manager, no call has a session of its own.
LEMMA NothingInHand ==
    ASSUME TypeOK, StartInv, SessionInv,
           AtPrompt \/ \E s \in Servers : ConnectNext(s)
    PROVE  \A c \in Calls : ~InHand(c) /\ pc[c] # "close" /\ displaced[c] = 0
<1>1. \A c \in Calls : pc[c] \in {"idle", "answered", "failed"}
  BY DEF StartInv, AtPrompt, ConnectNext, Ended
<1> QED
  BY <1>1 DEF InHand, SessionInv

\* A server that is connected has no session that this would displace.
LEMMA ConnectedFrom ==
    ASSUME TypeOK, StartInv, NEW s \in Servers, ConnectNext(s) \/ Add(s)
    PROVE  /\ sessionOf[s] = 0
           /\ \/ UNCHANGED <<sessionOf, condition>>
              \/ Connected(s)
  BY DEF StartInv, ConnectNext, Add

\* A call that does not reconnect leaves the sessions alone.
LEMMA CallerFrame ==
    ASSUME TypeOK, SessionInv, NEW c \in Calls,
           \/ Start(c) \/ EnsureConnected(c) \/ CallTool(c) \/ Reconnect(c) \/ Join(c)
           \/ CallAgain(c)
    PROVE  /\ UNCHANGED <<sessionOf, condition, displaced>>
           /\ \A d \in Calls : pc'[d] \in {"list", "store"} => InHand(d)
           /\ \A d \in Calls : InHand(d) => pc'[d] \in {"list", "store"} /\ held'[d] = held[d]
           /\ \A d \in Calls : pc[d] = "close" => pc'[d] = "close"
  BY DEF InHand, TypeOK, Start, EnsureConnected, CallTool, Reconnect, Join, CallAgain, Goto, Return

LEMMA SessionStep ==
    ASSUME TypeOK, StartInv, SessionInv, Next
    PROVE  SessionInv'
<1> USE DEF TypeOK
<1>1. ASSUME NEW s \in Servers, ConnectNext(s) \/ Add(s) PROVE SessionInv'
  <2>1. \A c \in Calls : ~InHand(c) /\ displaced[c] = 0
    BY <1>1, NothingInHand DEF Add
  <2>2. UNCHANGED <<pc, displaced>>
    BY <1>1 DEF ConnectNext, Add
  <2>3. CASE UNCHANGED <<sessionOf, condition>>
    BY <2>1, <2>2, <2>3 DEF SessionInv, InHand
  <2>4. CASE Connected(s)
    BY <2>1, <2>2, <2>4, FreshUnused DEF SessionInv, InHand, Connected, StoreSession
  <2> QED
    BY <1>1, <2>3, <2>4, ConnectedFrom
<1>2. ASSUME NEW s \in Servers, Remove(s) PROVE SessionInv'
  <2>1. (\A c \in Calls : ~InHand(c) /\ displaced[c] = 0) /\ UNCHANGED <<pc, displaced>>
    BY <1>2, NothingInHand DEF Remove
  <2> QED
    BY <1>2, <2>1, Constants DEF Remove, Disconnect, SessionInv, InHand, Session
<1>3. ASSUME Refresh \/ \E s \in Servers : Unregister(s) PROVE SessionInv'
  BY <1>3 DEF Refresh, Unregister, SessionInv, InHand
<1>4. ASSUME Close PROVE SessionInv'
  BY <1>4, Constants DEF Close, SessionInv, InHand, Session
<1>5. ASSUME NEW k \in Session, Lose(k) PROVE SessionInv'
  BY <1>5, Constants DEF Lose, SessionInv, InHand, Session
<1>6. ASSUME NEW c \in Calls,
             \/ Start(c) \/ EnsureConnected(c) \/ CallTool(c) \/ Reconnect(c) \/ Join(c)
             \/ CallAgain(c)
      PROVE  SessionInv'
  <2> HIDE DEF TypeOK
  <2>1. /\ UNCHANGED <<sessionOf, condition, displaced>>
        /\ \A d \in Calls : pc'[d] \in {"list", "store"} => InHand(d) /\ held'[d] = held[d]
        /\ \A d \in Calls : pc[d] = "close" => pc'[d] = "close"
    BY <1>6, CallerFrame
  <2> QED
    BY <2>1 DEF SessionInv, InHand
<1>7. ASSUME NEW c \in Calls, Dial(c) PROVE SessionInv'
  <2>1. UNCHANGED <<sessionOf, displaced>> /\ pc[c] = "dial"
    BY <1>7 DEF Dial
  <2>2. CASE /\ Unused # {} /\ condition' = [condition EXCEPT ![Fresh] = "open"]
             /\ held' = [held EXCEPT ![c] = Fresh] /\ Goto(c, "list")
    BY <2>1, <2>2, FreshUnused DEF SessionInv, InHand, Goto
  <2>3. CASE Fail(c, "down") /\ UNCHANGED condition
    BY <2>1, <2>3 DEF SessionInv, InHand, Fail, Joined, Return
  <2> QED
    BY <1>7, <2>2, <2>3 DEF Dial
<1>8. ASSUME NEW c \in Calls, List(c) PROVE SessionInv'
  <2>1. UNCHANGED <<sessionOf, displaced>> /\ pc[c] = "list"
    BY <1>8 DEF List
  <2>2. CASE Goto(c, "store") /\ UNCHANGED <<condition, held>>
    BY <2>1, <2>2 DEF SessionInv, InHand, Goto
  <2>3. CASE condition' = [condition EXCEPT ![held[c]] = "closed"] /\ Fail(c, "stale")
    BY <2>1, <2>3 DEF SessionInv, InHand, Fail, Joined, Return
  <2> QED
    BY <1>8, <2>2, <2>3 DEF List
<1>9. ASSUME NEW c \in Calls, Store(c) PROVE SessionInv'
  <2>1. /\ pc[c] = "store" /\ UNCHANGED <<held, condition>> /\ held[c] # 0
        /\ sessionOf' = [sessionOf EXCEPT ![server[c]] = held[c]]
        /\ displaced' = [displaced EXCEPT ![c] = sessionOf[server[c]]]
        /\ pc' = [pc EXCEPT ![c] = "close"]
    BY <1>9 DEF Store, StoreSession, Goto
  <2> QED
    BY <2>1 DEF SessionInv, InHand
<1>10. ASSUME NEW c \in Calls, CloseDisplaced(c) PROVE SessionInv'
  <2>1. /\ UNCHANGED sessionOf /\ displaced' = [displaced EXCEPT ![c] = 0]
        /\ condition' = [k \in Session |-> IF k = displaced[c] THEN "closed" ELSE condition[k]]
        /\ \A d \in Calls : InHand(d)' => InHand(d) /\ held'[d] = held[d]
        /\ \A d \in Calls \ {c} : pc[d] = "close" => pc'[d] = "close"
    BY <1>10 DEF CloseDisplaced, InHand, Joined
  <2>2. \A k \in (0..MaxSessions) \ {0} : k \in Session
    BY Constants DEF Session
  <2> QED
    BY <2>1, <2>2 DEF SessionInv
<1>11. ASSUME Quiet PROVE SessionInv'
  BY <1>11 DEF Quiet, vars, SessionInv, InHand
<1> QED
  BY <1>1, <1>2, <1>3, <1>4, <1>5, <1>6, <1>7, <1>8, <1>9, <1>10, <1>11 DEF Next, Execute

\* No step lets go of an open session: it stays where it was, or goes from the
\* hands of a call to the map, and from the map to those of a call that closes it.
LEMMA OpenStep ==
    ASSUME TypeOK, StartInv, SessionInv, OpenInv, Next
    PROVE  OpenInv'
<1> USE DEF TypeOK
<1>1. ASSUME NEW s \in Servers, ConnectNext(s) \/ Add(s) PROVE OpenInv'
  <2>1. (\A c \in Calls : ~InHand(c) /\ pc[c] # "close") /\ sessionOf[s] = 0
    BY <1>1, NothingInHand, ConnectedFrom DEF Add
  <2>2. CASE UNCHANGED <<sessionOf, condition>>
    BY <2>1, <2>2 DEF OpenInv
  <2>3. CASE Connected(s)
    <3>1. ASSUME NEW k \in Session, condition'[k] = "open"
          PROVE  \E t \in Servers : sessionOf'[t] = k
      <4>1. CASE k = Fresh
        BY <2>3, <4>1 DEF Connected, StoreSession
      <4>2. CASE k # Fresh
        <5>1. PICK t \in Servers : sessionOf[t] = k
          BY <2>1, <2>3, <3>1, <4>2 DEF Connected, OpenInv
        <5>2. t # s
          BY <2>1, <5>1, Constants DEF Session
        <5> QED
          BY <2>3, <5>1, <5>2 DEF Connected, StoreSession
      <4> QED
        BY <4>1, <4>2
    <3> QED
      BY <3>1 DEF OpenInv
  <2> QED
    BY <1>1, <2>2, <2>3, ConnectedFrom
<1>2. ASSUME NEW s \in Servers, Remove(s) PROVE OpenInv'
  <2>1. \A c \in Calls : ~InHand(c) /\ pc[c] # "close"
    BY <1>2, NothingInHand DEF Remove
  <2> QED
    BY <1>2, <2>1 DEF Remove, Disconnect, OpenInv
<1>3. ASSUME Refresh \/ \E s \in Servers : Unregister(s) PROVE OpenInv'
  BY <1>3 DEF Refresh, Unregister, OpenInv, InHand
<1>4. ASSUME Close PROVE OpenInv'
  BY <1>4 DEF Close, OpenInv, InHand
<1>5. ASSUME NEW k \in Session, Lose(k) PROVE OpenInv'
  BY <1>5 DEF Lose, OpenInv, InHand
<1>6. ASSUME NEW c \in Calls,
             \/ Start(c) \/ EnsureConnected(c) \/ CallTool(c) \/ Reconnect(c) \/ Join(c)
             \/ CallAgain(c)
      PROVE  OpenInv'
  <2> HIDE DEF TypeOK
  <2>1. /\ UNCHANGED <<sessionOf, condition, displaced>>
        /\ \A d \in Calls : InHand(d) => pc'[d] \in {"list", "store"} /\ held'[d] = held[d]
        /\ \A d \in Calls : pc[d] = "close" => pc'[d] = "close"
    BY <1>6, CallerFrame
  <2> QED
    BY <2>1 DEF OpenInv, InHand
<1>7. ASSUME NEW c \in Calls, Dial(c) PROVE OpenInv'
  <2>1. UNCHANGED <<sessionOf, displaced>> /\ pc[c] = "dial"
    BY <1>7 DEF Dial
  <2>2. CASE /\ Unused # {} /\ condition' = [condition EXCEPT ![Fresh] = "open"]
             /\ held' = [held EXCEPT ![c] = Fresh] /\ Goto(c, "list")
    BY <2>1, <2>2, FreshUnused DEF OpenInv, InHand, Goto
  <2>3. CASE Fail(c, "down") /\ UNCHANGED condition
    BY <2>1, <2>3 DEF OpenInv, InHand, Fail, Joined, Return
  <2> QED
    BY <1>7, <2>2, <2>3 DEF Dial
<1>8. ASSUME NEW c \in Calls, List(c) PROVE OpenInv'
  <2>1. UNCHANGED <<sessionOf, displaced>> /\ pc[c] = "list"
    BY <1>8 DEF List
  <2>2. CASE Goto(c, "store") /\ UNCHANGED <<condition, held>>
    BY <2>1, <2>2 DEF OpenInv, InHand, Goto
  <2>3. CASE condition' = [condition EXCEPT ![held[c]] = "closed"] /\ Fail(c, "stale")
    BY <2>1, <2>3 DEF OpenInv, InHand, Fail, Joined, Return
  <2> QED
    BY <1>8, <2>2, <2>3 DEF List
<1>9. ASSUME NEW c \in Calls, Store(c) PROVE OpenInv'
  <2>1. /\ pc[c] = "store" /\ UNCHANGED <<held, condition>>
        /\ sessionOf' = [sessionOf EXCEPT ![server[c]] = held[c]]
        /\ displaced' = [displaced EXCEPT ![c] = sessionOf[server[c]]]
        /\ pc' = [pc EXCEPT ![c] = "close"]
    BY <1>9 DEF Store, StoreSession, Goto
  <2> QED
    BY <2>1 DEF OpenInv, InHand
<1>10. ASSUME NEW c \in Calls, CloseDisplaced(c) PROVE OpenInv'
  <2>1. /\ UNCHANGED sessionOf /\ displaced' = [displaced EXCEPT ![c] = 0]
        /\ condition' = [k \in Session |-> IF k = displaced[c] THEN "closed" ELSE condition[k]]
        /\ \A d \in Calls : InHand(d) => InHand(d)' /\ held'[d] = held[d]
        /\ \A d \in Calls \ {c} : pc[d] = "close" => pc'[d] = "close"
    BY <1>10 DEF CloseDisplaced, InHand, Joined
  <2> QED
    BY <2>1 DEF OpenInv
<1>11. ASSUME Quiet PROVE OpenInv'
  BY <1>11 DEF Quiet, vars, OpenInv, InHand
<1> QED
  BY <1>1, <1>2, <1>3, <1>4, <1>5, <1>6, <1>7, <1>8, <1>9, <1>10, <1>11 DEF Next, Execute

----
\* The catalogue, and the retries.

LEMMA CatalogueStep ==
    ASSUME TypeOK, StartInv, CatalogueMatches, Next
    PROVE  CatalogueMatches'
<1> DEFINE Told ==
        \A s \in Servers :
            /\ s \in tools => sessionOf[s] # 0 \/ closed
            /\ status[s] = "up" => s \in tools
<1> SUFFICES ASSUME Told PROVE Told'
  BY StartStep DEF StartInv, CatalogueMatches
<1> USE DEF TypeOK
<1>1. ASSUME NEW s \in Servers, ConnectNext(s) \/ Add(s) PROVE Told'
  BY <1>1, FreshUnused DEF ConnectNext, Add, Connected, StoreSession
<1>2. ASSUME NEW s \in Servers, Remove(s) \/ Unregister(s) PROVE Told'
  BY <1>2 DEF Remove, Unregister, Disconnect
<1>3. ASSUME Refresh PROVE Told'
  BY <1>3 DEF Refresh, AtPrompt, StartInv
<1>4. ASSUME Close PROVE Told'
  BY <1>4 DEF Close
<1>5. ASSUME NEW k \in Session, Lose(k) PROVE Told'
  BY <1>5 DEF Lose
<1>6. ASSUME NEW c \in Calls, Store(c) PROVE Told'
  BY <1>6 DEF Store, StoreSession
<1>7. ASSUME NEW c \in Calls, Start(c) \/ Execute(c), ~Store(c) PROVE Told'
  <2>1. UNCHANGED <<sessionOf, tools, closed>>
    BY <1>7
       DEF Start, Execute, EnsureConnected, CallTool, Reconnect, Join, Dial, List, CloseDisplaced,
           CallAgain
  <2>2. \A s \in Servers : status'[s] = "up" => status[s] = "up"
    BY <1>7
       DEF Start, Execute, EnsureConnected, CallTool, Reconnect, Join, Dial, List, Fail,
           CloseDisplaced, CallAgain
  <2> QED
    BY <2>1, <2>2
<1>8. ASSUME Quiet PROVE Told'
  BY <1>8 DEF Quiet, vars
<1> QED
  BY <1>1, <1>2, <1>3, <1>4, <1>5, <1>6, <1>7, <1>8 DEF Next

LEMMA RetryStep ==
    ASSUME TypeOK, StartInv, RetryInv, Next
    PROVE  RetryInv'
<1> USE DEF TypeOK, RetryInv
<1>1. ASSUME NEW s \in Servers, ConnectNext(s) \/ Add(s) PROVE RetryInv'
  BY <1>1, FreshUnused DEF ConnectNext, Add, Connected, StoreSession
<1>2. ASSUME NEW s \in Servers, Remove(s) PROVE RetryInv'
  BY <1>2 DEF Remove, AtPrompt, Ended
<1>3. ASSUME \/ Refresh \/ Close \/ \E s \in Servers : Unregister(s)
             \/ \E k \in Session : Lose(k)
      PROVE  RetryInv'
  BY <1>3 DEF Refresh, Close, Unregister, Lose
<1>4. ASSUME NEW c \in Calls, Store(c) PROVE RetryInv'
  BY <1>4 DEF Store, StoreSession, Goto
<1>5. ASSUME NEW c \in Calls, CloseDisplaced(c) PROVE RetryInv'
  BY <1>5 DEF CloseDisplaced, Joined
<1>6. ASSUME NEW c \in Calls, Start(c) \/ Execute(c), ~(Store(c) \/ CloseDisplaced(c))
      PROVE  RetryInv'
  <2>1. UNCHANGED <<sessionOf, server, closed>>
    BY <1>6
       DEF Start, Execute, EnsureConnected, CallTool, Reconnect, Join, Dial, List, CallAgain
  <2>2. \A d \in Calls : pc'[d] \in {"close", "recall"} => pc[d] \in {"close", "recall"}
    BY <1>6
       DEF Start, Execute, EnsureConnected, CallTool, Reconnect, Join, Dial, List, Fail, Joined,
           CallAgain, Goto, Return
  <2> QED
    BY <2>1, <2>2
<1>7. ASSUME Quiet PROVE RetryInv'
  BY <1>7 DEF Quiet, vars
<1> QED
  BY <1>1, <1>2, <1>3, <1>4, <1>5, <1>6, <1>7 DEF Next

----
\* The invariant.

LEMMA InvStep == IInv /\ [Next]_vars => IInv'
<1> SUFFICES ASSUME IInv, [Next]_vars PROVE IInv'
  OBVIOUS
<1>1. CASE Next
  BY <1>1, TypeStep, StartStep, LeaderStep, SessionStep, OpenStep, CatalogueStep, RetryStep DEF IInv
<1>2. CASE UNCHANGED vars
  BY <1>2
     DEF vars, IInv, TypeOK, StartInv, LeaderInv, SessionInv, OpenInv, CatalogueMatches, RetryInv,
         InHand
<1> QED
  BY <1>1, <1>2

\* The inductive invariant holds throughout.
THEOREM Invariant == Spec => []IInv
  BY InitInv, InvStep, PTL DEF Spec

\* Every variable keeps its type, and a call that uses a session has one.
THEOREM TypeCorrect == Spec => []TypeOK
<1>1. IInv => TypeOK
  BY DEF IInv
<1> QED
  BY <1>1, Invariant, PTL

\* However many tool calls find a session lost at once, one of them reconnects,
\* and whoever waits for a reconnection waits for one that runs.
THEOREM ReconnectionCorrect == Spec => []OneReconnection
<1>1. IInv => OneReconnection
  <2> SUFFICES ASSUME IInv, NEW s \in Servers
               PROVE  /\ Cardinality(Reconnecting(s)) <= 1
                      /\ \A c \in Calls : pc[c] = "wait" /\ server[c] = s => Reconnecting(s) # {}
    BY DEF OneReconnection
  <2>1. Reconnecting(s) = {} \/ Reconnecting(s) = {leader[s]}
    BY DEF IInv, LeaderInv, Leading, Reconnecting
  <2>2. Cardinality(Reconnecting(s)) <= 1
    <3>1. Cardinality({}) = 0 /\ Cardinality({leader[s]}) = 1
      BY FS_EmptySet, FS_Singleton
    <3> QED
      BY <2>1, <3>1
  <2>3. ASSUME NEW c \in Calls, pc[c] = "wait", server[c] = s PROVE leader[s] \in Reconnecting(s)
    BY <2>3 DEF IInv, TypeOK, LeaderInv, Leading, Reconnecting
  <2> QED
    BY <2>2, <2>3
<1> QED
  BY <1>1, Invariant, PTL

\* Every open session is in the map or in the hands of the call that stores or
\* closes it, and none of them has one that was given up: a session is closed once.
THEOREM SessionsCorrect == Spec => []NoSessionLeak
<1>1. IInv => NoSessionLeak
  BY Constants DEF IInv, SessionInv, OpenInv, InHand, NoSessionLeak
<1> QED
  BY <1>1, Invariant, PTL

\* The LLM is told of a server's tools only while the map has a session of it; and
\* whichever dial, listing or refresh fails, a server with a session is in /mcp list,
\* with an error or else with its tools in the catalogue.
THEOREM CatalogueCorrect == Spec => []CatalogueMatches
<1>1. IInv => CatalogueMatches
  BY DEF IInv
<1> QED
  BY <1>1, Invariant, PTL

\* A retry finds its new session closed by the manager only if a later
\* reconnection, or shutdown, came between.
THEOREM RetryCorrect == Spec => []RetryOnlyOvertaken
<1>1. IInv => RetryOnlyOvertaken
  BY DEF IInv, TypeOK, SessionInv, RetryInv, RetryOnlyOvertaken
<1> QED
  BY <1>1, Invariant, PTL
====
