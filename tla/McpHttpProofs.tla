---- MODULE McpHttpProofs ----
(***************************************************************************)
(* Proofs about McpHttp, for any number of requests, clients and keys and  *)
(* for every burst, rate and time limit the assumptions allow: evicting a  *)
(* limiter is never seen, a key's withdrawal and its publication are       *)
(* noticed in time, and an expired cache is fetched once.                  *)
(***************************************************************************)
EXTENDS McpHttp, TLAPS

----
\* The inductive invariant.

Label == {"idle", "route", "lookup", "refresh", "fetch", "store", "reread", "unknown",
          "verified", "apikey", "handler"}

Request == [client : Clients \cup {NoRequest.client}, kid : Kids \cup {NoToken}, apiKey : BOOLEAN]

TypeOK ==
    /\ entries \subseteq Clients
    /\ tokens \in [Clients -> 0..Burst]
    /\ idle \in [Clients -> 0..(IdleTtl + 1)]
    /\ ideal \in [Clients -> 0..Burst]
    /\ keys \subseteq Kids
    /\ keysAge \in 0..CacheTtl
    /\ writer \in Requests \cup {Nobody}
    /\ fetchAge \in 0..Timeout
    /\ body \subseteq Kids
    /\ published \subseteq Kids
    /\ changedAge \in [Kids -> 0..(Window + 1)]
    /\ pc \in [Requests -> Label]
    /\ req \in [Requests -> Request]
    /\ retired \in [Requests -> BOOLEAN]
    /\ settled \in [Requests -> BOOLEAN]

\* A limiter has what its idle time brought, if it is not full.
RefillInv == \A c \in Clients : ideal[c] = Burst \/ Rate * idle[c] <= ideal[c]

\* The lock: whoever fetches holds it, and took it when the keys were no good.
WriterInv ==
    /\ \A r \in Requests : pc[r] \in {"fetch", "store"} => writer = r
    /\ writer # Nobody => keys = {} \/ ~Fresh

\* A set of keys that differs from what is published in some key is older than
\* that key's last change.
AsOf(known, age) ==
    \A k \in Kids : (k \in known) # (k \in published) => changedAge[k] <= age

\* The keys of an answer are those of a moment of its fetch, the fresh keys of
\* the cache those of a moment before they were stored.
AnswerInv ==
    /\ (\E r \in Requests : pc[r] = "store") => AsOf(body, fetchAge)
    /\ Fresh => AsOf(keys, keysAge + Timeout)

\* What the ghosts remember of a request's key still holds.
GhostInv ==
    \A r \in Requests :
        /\ retired[r] \/ settled[r] => pc[r] \notin {"idle", "route"}
        /\ retired[r] => req[r].kid \in Kids \ published /\ changedAge[req[r].kid] > Window
        /\ settled[r] => req[r].kid \in published /\ changedAge[req[r].kid] > Window

\* After the refresh, the cache says of it what the Authorization Server says.
Agree(known, r) ==
    /\ retired[r] => req[r].kid \notin known
    /\ settled[r] => req[r].kid \in known

RereadInv == \A r \in Requests : pc[r] = "reread" => Agree(keys, r)

IInv ==
    /\ TypeOK
    /\ EvictionUnseen
    /\ RefillInv
    /\ WriterInv
    /\ AnswerInv
    /\ GhostInv
    /\ RereadInv
    /\ FreshKey
    /\ RotationNoticed

----
\* The constants, and what the steps of a request have in common.

USE DEF limiterVars, cacheVars, serverVars, requestVars, ghostVars

LEMMA Constants ==
    /\ Burst \in Nat \ {0} /\ Rate \in Nat /\ IdleTtl \in Nat /\ Burst <= Rate * IdleTtl
    /\ CacheTtl \in Nat \ {0} /\ Timeout \in Nat \ {0}
    /\ Window = CacheTtl + Timeout /\ Window \in Nat
    /\ Nobody \notin Requests /\ NoToken \notin Kids
  BY LimiterAssumption, CacheAssumption, NobodyAssumption DEF Window

LEMMA NoRequestType == NoRequest \in Request
  BY DEF NoRequest, Request

\* A request that ends, or goes on to its API key.
LEMMA RejectedEffect ==
    ASSUME NEW r \in Requests, Rejected(r)
    PROVE  \/ Goto(r, "apikey") /\ UNCHANGED <<req, ghostVars>>
           \/ Respond(r)
  BY DEF Rejected

Step(r) == Arrive(r) \/ Locking(r) \/ Serving(r)

\* A step of a request leaves the others alone, and the Authorization Server.
LEMMA RequestFrame ==
    ASSUME TypeOK, NEW r \in Requests, Step(r)
    PROVE  /\ UNCHANGED <<methods, published, changedAge>>
           /\ \A q \in Requests \ {r} :
                 /\ pc'[q] = pc[q] /\ req'[q] = req[q]
                 /\ retired'[q] = retired[q] /\ settled'[q] = settled[q]
<1> USE DEF TypeOK, Goto, Respond
<1>1. CASE Arrive(r)
  BY <1>1 DEF Arrive
<1>2. CASE Locking(r)
  BY <1>2 DEF Locking, Lookup, Refresh, Reread
<1>3. CASE Route(r)
  BY <1>3 DEF Route, Asks
<1>4. CASE APIKey(r) \/ Handle(r) \/ Answer(r) \/ Store(r)
  BY <1>4 DEF APIKey, Handle, Answer, Store
<1>5. CASE FetchFails(r) \/ Unknown(r) \/ Verify(r)
  BY <1>5 DEF FetchFails, Unknown, Verify, Rejected
<1> QED
  BY <1>1, <1>2, <1>3, <1>4, <1>5 DEF Step, Serving

\* What it does to its own ghosts: it keeps them with its key, or takes them
\* where verify begins, or drops them with the request.
LEMMA OwnGhosts ==
    ASSUME TypeOK, GhostInv, NEW r \in Requests, Step(r)
    PROVE  \/ req'[r] = req[r] /\ retired'[r] = retired[r] /\ settled'[r] = settled[r]
           \/ Asks(r) /\ req'[r] = req[r] /\ pc'[r] = "lookup" /\ req[r].kid # NoToken
           \/ ~retired'[r] /\ ~settled'[r]
<1> USE DEF TypeOK, Goto, Respond
<1>1. CASE Arrive(r)
  BY <1>1 DEF Arrive, GhostInv
<1>2. CASE Locking(r)
  BY <1>2 DEF Locking, Lookup, Refresh, Reread
<1>3. CASE Route(r)
  BY <1>3 DEF Route, FirstMethod
<1>4. CASE APIKey(r) \/ Handle(r) \/ Answer(r) \/ Store(r)
  BY <1>4 DEF APIKey, Handle, Answer, Store
<1>5. CASE FetchFails(r) \/ Unknown(r) \/ Verify(r)
  BY <1>5 DEF FetchFails, Unknown, Verify, Rejected
<1> QED
  BY <1>1, <1>2, <1>3, <1>4, <1>5 DEF Step, Serving

----
\* Types.

LEMMA InitInv == Init => IInv
<1> SUFFICES ASSUME Init PROVE IInv
  OBVIOUS
<1>1. TypeOK
  <2>1. /\ Burst \in 0..Burst /\ 0 \in 0..(IdleTtl + 1) /\ CacheTtl \in 0..CacheTtl
        /\ 0 \in 0..Timeout /\ Window + 1 \in 0..(Window + 1)
    BY Constants
  <2> QED
    BY <2>1, NoRequestType DEF Init, TypeOK, Label
<1>2. EvictionUnseen /\ RefillInv
  BY DEF Init, EvictionUnseen, RefillInv
<1>3. WriterInv /\ AnswerInv
  BY Constants DEF Init, WriterInv, AnswerInv, Fresh
<1>4. GhostInv /\ RereadInv /\ FreshKey /\ RotationNoticed
  BY DEF Init, GhostInv, RereadInv, Agree, FreshKey, RotationNoticed
<1> QED
  BY <1>1, <1>2, <1>3, <1>4 DEF IInv

LEMMA TypeStep ==
    ASSUME TypeOK, EvictionUnseen, Next
    PROVE  TypeOK'
<1> USE DEF TypeOK, Label, Goto
<1>1. ASSUME Tick PROVE TypeOK'
  <2>1. tokens' \in [Clients -> 0..Burst] /\ ideal' \in [Clients -> 0..Burst]
    BY <1>1, Constants DEF Tick, Least
  <2>2. idle' \in [Clients -> 0..(IdleTtl + 1)]
    BY <1>1, Constants DEF Tick, Least
  <2>3. keysAge' \in 0..CacheTtl /\ fetchAge' \in 0..Timeout
    BY <1>1, Constants DEF Tick, Least
  <2>4. changedAge' \in [Kids -> 0..(Window + 1)]
    BY <1>1, Constants DEF Tick, Least
  <2> QED
    BY <1>1, <2>1, <2>2, <2>3, <2>4 DEF Tick
<1>2. ASSUME Cleanup PROVE TypeOK'
  BY <1>2, Constants DEF Cleanup
<1>3. ASSUME NEW k \in Kids, Rotate(k) PROVE TypeOK'
  BY <1>3, Constants DEF Rotate
<1>4. ASSUME NEW r \in Requests, Arrive(r) PROVE TypeOK'
  <2>1. PICK c \in Clients, k \in Kids \cup {NoToken}, a \in BOOLEAN :
          LET available == IF c \in entries THEN tokens[c] ELSE Burst
              take(n) == IF n > 0 THEN n - 1 ELSE n
          IN  /\ entries' = entries \cup {c}
              /\ idle' = [idle EXCEPT ![c] = Seen(c)]
              /\ tokens' = [tokens EXCEPT ![c] = take(available)]
              /\ ideal' = [ideal EXCEPT ![c] = take(@)]
              /\ IF available > 0
                 THEN /\ req' = [req EXCEPT ![r] = [client |-> c, kid |-> k, apiKey |-> a]]
                      /\ Goto(r, "route")
                 ELSE UNCHANGED requestVars
    BY <1>4 DEF Arrive
  <2>2. \A n \in 0..Burst : (IF n > 0 THEN n - 1 ELSE n) \in 0..Burst
    BY Constants
  <2>3. tokens' \in [Clients -> 0..Burst] /\ ideal' \in [Clients -> 0..Burst]
    BY <2>1, <2>2, Constants
  <2>4. idle' \in [Clients -> 0..(IdleTtl + 1)] /\ entries' \subseteq Clients
    BY <2>1, Constants DEF Seen
  <2>5. [client |-> c, kid |-> k, apiKey |-> a] \in Request
    BY DEF Request
  <2>6. req' \in [Requests -> Request] /\ pc' \in [Requests -> Label]
    BY <2>1, <2>5
  <2> QED
    BY <1>4, <2>3, <2>4, <2>6 DEF Arrive
<1>5. ASSUME NEW r \in Requests, Lookup(r) \/ Refresh(r) \/ Reread(r) PROVE TypeOK'
  BY <1>5, Constants DEF Lookup, Refresh, Reread
<1>6. ASSUME NEW r \in Requests, Route(r) PROVE TypeOK'
  BY <1>6, NoRequestType, ZenonT(40) DEF Route, Respond, Asks, FirstMethod
<1>7. ASSUME NEW r \in Requests, Answer(r) \/ Store(r) PROVE TypeOK'
  BY <1>7, Constants DEF Answer, Store
<1>8. ASSUME NEW r \in Requests, APIKey(r) \/ Handle(r) \/ FetchFails(r) \/ Unknown(r) \/ Verify(r)
      PROVE  TypeOK'
  <2>1. \/ Respond(r)
        \/ UNCHANGED <<req, ghostVars>> /\ \E label \in Label : Goto(r, label)
    BY <1>8 DEF APIKey, Handle, FetchFails, Unknown, Verify, Rejected
  <2>2. /\ pc' \in [Requests -> Label] /\ req' \in [Requests -> Request]
        /\ retired' \in [Requests -> BOOLEAN] /\ settled' \in [Requests -> BOOLEAN]
    BY <2>1, NoRequestType, ZenonT(40) DEF Respond
  <2>3. writer' \in Requests \cup {Nobody} /\ fetchAge' \in 0..Timeout /\ body' \subseteq Kids
    BY <1>8, Constants DEF APIKey, Handle, FetchFails, Unknown, Verify
  <2>4. UNCHANGED <<methods, limiterVars, keys, keysAge, serverVars>>
    BY <1>8 DEF APIKey, Handle, FetchFails, Unknown, Verify
  <2> QED
    BY <2>2, <2>3, <2>4
<1> QED
  BY <1>1, <1>2, <1>3, <1>4, <1>5, <1>6, <1>7, <1>8 DEF Next, Locking, Serving

----
\* The limiters.

\* The idle time that evicts a limiter is one that fills it.
LEMMA IdleFills ==
    ASSUME NEW age \in Nat, age > IdleTtl
    PROVE  Burst <= Rate * age
<1>1. PICK d \in Nat : age = IdleTtl + d
  <2>1. age - IdleTtl \in Nat /\ age = IdleTtl + (age - IdleTtl)
    BY Constants
  <2> QED
    BY <2>1
<1>2. Rate * age = Rate * IdleTtl + Rate * d /\ Rate * d >= 0 /\ Rate * IdleTtl \in Nat
  BY <1>1, Constants
<1> QED
  BY <1>2, Constants

LEMMA LimiterStep ==
    ASSUME TypeOK, EvictionUnseen, RefillInv, Next
    PROVE  EvictionUnseen' /\ RefillInv'
<1> USE DEF TypeOK, EvictionUnseen, RefillInv
<1>1. CASE UNCHANGED limiterVars
  BY <1>1
<1>2. ASSUME Tick PROVE EvictionUnseen' /\ RefillInv'
  <2>1. /\ entries' = entries
        /\ tokens' = [c \in Clients |-> Least(Burst, tokens[c] + Rate)]
        /\ ideal' = [c \in Clients |-> Least(Burst, ideal[c] + Rate)]
        /\ idle' = [c \in Clients |-> IF c \in entries THEN Least(IdleTtl + 1, idle[c] + 1) ELSE 0]
    BY <1>2 DEF Tick
  <2>2. ASSUME NEW c \in Clients
        PROVE  ideal'[c] = (IF c \in entries' THEN tokens'[c] ELSE Burst)
    BY <2>1, Constants DEF Least
  <2>3. ASSUME NEW c \in Clients, ideal'[c] # Burst
        PROVE  Rate * idle'[c] <= ideal'[c]
    <3>1. ideal'[c] = ideal[c] + Rate /\ ideal[c] # Burst /\ Rate * idle[c] <= ideal[c]
      BY <2>1, <2>3, Constants DEF Least
    <3>2. idle'[c] \in {0, idle[c], idle[c] + 1}
      <4>1. idle[c] \in 0..(IdleTtl + 1)
        OBVIOUS
      <4>2. Least(IdleTtl + 1, idle[c] + 1) \in {idle[c], idle[c] + 1}
        BY <4>1, Constants, SMTT(30) DEF Least
      <4>3. idle'[c] = IF c \in entries THEN Least(IdleTtl + 1, idle[c] + 1) ELSE 0
        BY <2>1
      <4> QED
        BY <4>2, <4>3
    <3>3. idle[c] \in Nat /\ ideal[c] \in Nat
      BY Constants
    <3>4. Rate * (idle[c] + 1) = Rate * idle[c] + Rate /\ Rate * 0 = 0 /\ Rate * idle[c] \in Nat
      BY <3>3, Constants
    <3>5. CASE idle'[c] = idle[c]
      BY <3>1, <3>3, <3>4, <3>5, Constants
    <3>6. CASE idle'[c] = 0
      BY <3>1, <3>3, <3>4, <3>6, Constants
    <3>7. CASE idle'[c] = idle[c] + 1
      BY <3>1, <3>3, <3>4, <3>7, Constants
    <3> QED
      BY <3>2, <3>5, <3>6, <3>7
  <2> QED
    BY <2>2, <2>3
<1>3. ASSUME Cleanup PROVE EvictionUnseen' /\ RefillInv'
  <2> DEFINE stale == {c \in entries : idle[c] > IdleTtl}
  <2>1. /\ entries' = entries \ stale /\ UNCHANGED <<tokens, ideal>>
        /\ idle' = [c \in Clients |-> IF c \in stale THEN 0 ELSE idle[c]]
    BY <1>3 DEF Cleanup
  <2>2. ASSUME NEW c \in stale PROVE ideal[c] = Burst
    <3>1. c \in Clients /\ idle[c] \in Nat /\ idle[c] > IdleTtl
      BY Constants
    <3>2. Burst <= Rate * idle[c] /\ ideal[c] \in 0..Burst
      BY <3>1, IdleFills
    <3> QED
      BY <3>1, <3>2, Constants
  <2>3. \A c \in Clients : ideal'[c] = IF c \in entries' THEN tokens'[c] ELSE Burst
    BY <2>1, <2>2
  <2>4. \A c \in Clients : ideal'[c] = Burst \/ Rate * idle'[c] <= ideal'[c]
    BY <2>1, <2>2
  <2> QED
    BY <2>3, <2>4
<1>4. ASSUME NEW r \in Requests, Arrive(r) PROVE EvictionUnseen' /\ RefillInv'
  <2>1. PICK c \in Clients :
          LET take(n) == IF n > 0 THEN n - 1 ELSE n
          IN  /\ entries' = entries \cup {c}
              /\ idle' = [idle EXCEPT ![c] = 0]
              /\ tokens' = [tokens EXCEPT ![c] = take(IF c \in entries THEN tokens[c] ELSE Burst)]
              /\ ideal' = [ideal EXCEPT ![c] = take(ideal[c])]
    BY <1>4 DEF Arrive, Seen
  <2>2. tokens'[c] = ideal'[c] /\ ideal'[c] \in Nat /\ idle'[c] = 0
    BY <2>1, Constants
  <2>3. Rate * idle'[c] <= ideal'[c]
    BY <2>2, Constants
  <2> QED
    BY <2>1, <2>2, <2>3
<1> QED
  BY <1>1, <1>2, <1>3, <1>4
     DEF Next, Rotate, Locking, Lookup, Refresh, Reread, Serving, Route, APIKey, Handle, Answer,
         FetchFails, Store, Unknown, Verify

----
\* The cache.

LEMMA WriterStep ==
    ASSUME TypeOK, WriterInv, Next
    PROVE  WriterInv'
<1> USE DEF TypeOK, WriterInv, Goto
<1>1. ASSUME Tick PROVE WriterInv'
  BY <1>1, Constants DEF Tick, Fresh, Least
<1>2. ASSUME Cleanup PROVE WriterInv'
  BY <1>2 DEF Cleanup, Fresh
<1>3. ASSUME NEW k \in Kids, Rotate(k) PROVE WriterInv'
  BY <1>3 DEF Rotate, Fresh
<1>4. ASSUME NEW r \in Requests, Arrive(r) PROVE WriterInv'
  BY <1>4 DEF Arrive, Fresh
<1>5. ASSUME NEW r \in Requests, Locking(r) PROVE WriterInv'
  <2>1. CASE Lookup(r) \/ Reread(r)
    BY <2>1 DEF Lookup, Reread, Fresh
  <2>2. CASE Refresh(r)
    <3>1. /\ UNCHANGED <<keys, keysAge>> /\ writer = Nobody
          /\ \A q \in Requests : pc[q] \notin {"fetch", "store"}
          /\ \A q \in Requests \ {r} : pc'[q] = pc[q]
      BY <2>2, Constants DEF Refresh
    <3>2. CASE Refreshed
      BY <2>2, <3>1, <3>2 DEF Refresh, Fresh
    <3>3. CASE ~Refreshed
      <4>1. writer' = r /\ pc'[r] = "fetch"
        BY <2>2, <3>3 DEF Refresh
      <4> QED
        BY <3>1, <3>3, <4>1 DEF Fresh, Refreshed
    <3> QED
      BY <3>2, <3>3
  <2> QED
    BY <1>5, <2>1, <2>2 DEF Locking
<1>6. ASSUME NEW r \in Requests, Route(r) PROVE WriterInv'
  BY <1>6 DEF Route, Respond, FirstMethod, Fresh
<1>7. ASSUME NEW r \in Requests, Answer(r) \/ Store(r) PROVE WriterInv'
  BY <1>7, Constants DEF Answer, Store, Fresh
<1>8. ASSUME NEW r \in Requests, APIKey(r) \/ Handle(r) \/ FetchFails(r) \/ Unknown(r) \/ Verify(r)
      PROVE  WriterInv'
  BY <1>8 DEF APIKey, Handle, FetchFails, Unknown, Verify, Rejected, Respond, Fresh
<1> QED
  BY <1>1, <1>2, <1>3, <1>4, <1>5, <1>6, <1>7, <1>8 DEF Next, Serving

\* No step makes a set of keys younger than it is: what is published changes only
\* where the age of the key's last change starts again.
LEMMA AsOfKept ==
    ASSUME TypeOK, NEW known \in SUBSET Kids, NEW age \in Nat, AsOf(known, age),
           UNCHANGED <<published, changedAge>> \/ \E k \in Kids : Rotate(k)
    PROVE  \A k \in Kids : (k \in known) # (k \in published') => changedAge'[k] <= age
  BY DEF TypeOK, AsOf, Rotate

LEMMA AsOfAges ==
    ASSUME TypeOK, NEW known \in SUBSET Kids, NEW age \in Nat, AsOf(known, age), Tick
    PROVE  \A k \in Kids : (k \in known) # (k \in published') => changedAge'[k] <= age + 1
  BY Constants DEF TypeOK, AsOf, Tick, Least

LEMMA AnswerStep ==
    ASSUME TypeOK, WriterInv, AnswerInv, Next
    PROVE  AnswerInv'
<1> USE DEF TypeOK
<1>0. fetchAge \in Nat /\ keysAge \in Nat /\ keysAge + Timeout \in Nat
  BY Constants
<1>1. ASSUME Tick PROVE AnswerInv'
  <2>1. /\ pc' = pc /\ body' = body /\ keys' = keys
        /\ keysAge' = Least(CacheTtl, keysAge + 1)
        /\ writer # Nobody => fetchAge' = fetchAge + 1
    BY <1>1 DEF Tick
  <2>2. ASSUME NEW r \in Requests, pc'[r] = "store" PROVE AsOf(body, fetchAge)'
    <3>1. AsOf(body, fetchAge) /\ fetchAge' = fetchAge + 1
      BY <2>1, <2>2, Constants DEF AnswerInv, WriterInv
    <3> QED
      BY <1>0, <1>1, <2>1, <3>1, AsOfAges DEF AsOf
  <2>3. ASSUME Fresh' PROVE AsOf(keys, keysAge + Timeout)'
    <3>1. Fresh /\ keysAge' = keysAge + 1
      BY <1>0, <2>1, <2>3, Constants DEF Fresh, Least
    <3>2. \A k \in Kids : (k \in keys) # (k \in published') => changedAge'[k] <= keysAge + Timeout + 1
      BY <1>0, <1>1, <3>1, AsOfAges DEF AnswerInv
    <3>3. keysAge' + Timeout = keysAge + Timeout + 1
      BY <1>0, <3>1, Constants
    <3> QED
      BY <2>1, <3>2, <3>3 DEF AsOf
  <2> QED
    BY <2>2, <2>3 DEF AnswerInv
<1>2. ASSUME UNCHANGED cacheVars, \A r \in Requests : pc'[r] = "store" => pc[r] = "store",
             UNCHANGED <<published, changedAge>> \/ \E k \in Kids : Rotate(k)
      PROVE  AnswerInv'
  BY <1>0, <1>2, AsOfKept DEF AnswerInv, Fresh, AsOf
<1>3. ASSUME NEW r \in Requests, Refresh(r) PROVE AnswerInv'
  <2>1. /\ UNCHANGED <<keys, keysAge, body, published, changedAge>>
        /\ writer = Nobody /\ \A q \in Requests : pc'[q] = "store" => pc[q] = "store"
    BY <1>3 DEF Refresh, Goto
  <2>2. \A q \in Requests : pc'[q] # "store"
    BY <2>1, Constants DEF WriterInv
  <2> QED
    BY <2>1, <2>2 DEF AnswerInv, AsOf, Fresh
<1>4. ASSUME NEW r \in Requests, Answer(r) PROVE AnswerInv'
  <2>1. body' = published /\ UNCHANGED <<keys, keysAge, fetchAge, published, changedAge>>
    BY <1>4 DEF Answer
  <2>2. AsOf(body, fetchAge)'
    BY <2>1 DEF AsOf
  <2> QED
    BY <2>1, <2>2 DEF AnswerInv, AsOf, Fresh
<1>5. ASSUME NEW r \in Requests, FetchFails(r) \/ Store(r) PROVE AnswerInv'
  <2>1. /\ UNCHANGED <<published, changedAge>> /\ pc[r] \in {"fetch", "store"}
        /\ \A q \in Requests : pc'[q] = "store" => q # r /\ pc[q] = "store"
    BY <1>5 DEF FetchFails, Store, Goto, Rejected, Respond
  <2>2. \A q \in Requests : pc'[q] # "store"
    BY <2>1 DEF WriterInv
  <2>3. CASE FetchFails(r)
    BY <2>1, <2>2, <2>3 DEF FetchFails, AnswerInv, AsOf, Fresh
  <2>4. CASE Store(r)
    <3>1. keys' = body /\ keysAge' = 0 /\ AsOf(body, fetchAge) /\ fetchAge <= Timeout
      BY <2>4, Constants DEF Store, AnswerInv
    <3>2. AsOf(keys, keysAge + Timeout)'
      BY <1>0, <2>1, <3>1, Constants DEF AsOf
    <3> QED
      BY <2>2, <3>2 DEF AnswerInv
  <2> QED
    BY <1>5, <2>3, <2>4
<1>6. ASSUME Cleanup PROVE AnswerInv'
  BY <1>2, <1>6 DEF Cleanup
<1>7. ASSUME NEW k \in Kids, Rotate(k) PROVE AnswerInv'
  <2>1. UNCHANGED cacheVars /\ pc' = pc
    BY <1>7 DEF Rotate
  <2> QED
    BY <1>2, <1>7, <2>1
<1>8. ASSUME NEW r \in Requests, Step(r), ~(Refresh(r) \/ Answer(r) \/ FetchFails(r) \/ Store(r))
      PROVE  AnswerInv'
  <2>1. UNCHANGED <<published, changedAge>>
    BY <1>8, RequestFrame
  <2>2. UNCHANGED cacheVars
    BY <1>8 DEF Step, Arrive, Locking, Lookup, Reread, Serving, Route, APIKey, Handle, Unknown, Verify
  <2>3. \A q \in Requests : pc'[q] = "store" => pc[q] = "store"
    BY <1>8
       DEF Step, Arrive, Locking, Lookup, Reread, Serving, Route, APIKey, Handle, Unknown, Verify,
           Goto, Respond, Rejected, FirstMethod
  <2> QED
    BY <1>2, <2>1, <2>2, <2>3
<1> QED
  BY <1>1, <1>3, <1>4, <1>5, <1>6, <1>7, <1>8 DEF Next, Step

----
\* The ghosts, and what the cache says of their keys.

LEMMA GhostStep ==
    ASSUME TypeOK, GhostInv, Next
    PROVE  GhostInv'
<1> USE DEF TypeOK, GhostInv
<1>1. ASSUME Tick PROVE GhostInv'
  BY <1>1, Constants DEF Tick, Least
<1>2. ASSUME Cleanup PROVE GhostInv'
  BY <1>2 DEF Cleanup
<1>3. ASSUME NEW k \in Kids, Rotate(k) PROVE GhostInv'
  BY <1>3 DEF Rotate
<1>4. ASSUME NEW r \in Requests, Step(r) PROVE GhostInv'
  <2>1. /\ UNCHANGED <<published, changedAge>>
        /\ \A q \in Requests \ {r} :
              /\ pc'[q] = pc[q] /\ req'[q] = req[q]
              /\ retired'[q] = retired[q] /\ settled'[q] = settled[q]
    BY <1>4, RequestFrame
  <2>2. CASE Asks(r) /\ req'[r] = req[r] /\ pc'[r] = "lookup" /\ req[r].kid # NoToken
    <3>1. req[r].kid \in Kids
      BY <2>2 DEF Request
    <3>2. /\ retired'[r] => changedAge[req[r].kid] > Window /\ req[r].kid \notin published
          /\ settled'[r] => changedAge[req[r].kid] > Window /\ req[r].kid \in published
      BY <2>2 DEF Asks
    <3> QED
      BY <2>1, <2>2, <3>1, <3>2
  <2>3. CASE ~retired'[r] /\ ~settled'[r]
    BY <2>1, <2>3
  <2>4. CASE /\ req'[r] = req[r] /\ retired'[r] = retired[r] /\ settled'[r] = settled[r]
             /\ retired'[r] \/ settled'[r]
    <3>1. pc'[r] \notin {"idle", "route"}
      BY <1>4, <2>4
         DEF Step, Arrive, Locking, Lookup, Refresh, Reread, Serving, Route, APIKey, Handle, Answer,
             FetchFails, Store, Unknown, Verify, Goto, Respond, Rejected
    <3> QED
      BY <2>1, <2>4, <3>1
  <2> QED
    BY <1>4, <2>2, <2>3, <2>4, OwnGhosts
<1> QED
  BY <1>1, <1>2, <1>3, <1>4 DEF Next, Step

\* The keys of a fetch, and fresh keys, agree with what the ghosts remember.
LEMMA GhostsAgree ==
    ASSUME TypeOK, GhostInv, NEW known, NEW age \in Nat, age <= Window, AsOf(known, age),
           NEW r \in Requests
    PROVE  Agree(known, r)
<1>1. ASSUME retired[r] PROVE req[r].kid \notin known
  <2>1. req[r].kid \in Kids /\ req[r].kid \notin published /\ changedAge[req[r].kid] > Window
    BY <1>1 DEF GhostInv
  <2>2. changedAge[req[r].kid] \in Nat
    BY <2>1, Constants DEF TypeOK
  <2> QED
    BY <2>1, <2>2, Constants DEF AsOf
<1>2. ASSUME settled[r] PROVE req[r].kid \in known
  <2>1. req[r].kid \in Kids /\ req[r].kid \in published /\ changedAge[req[r].kid] > Window
    BY <1>2 DEF GhostInv, TypeOK
  <2>2. changedAge[req[r].kid] \in Nat
    BY <2>1, Constants DEF TypeOK
  <2> QED
    BY <2>1, <2>2, Constants DEF AsOf
<1> QED
  BY <1>1, <1>2 DEF Agree

\* Fresh keys are young enough for that, and those of an answer are.
LEMMA CacheAgrees ==
    ASSUME TypeOK, AnswerInv, GhostInv, NEW r \in Requests
    PROVE  /\ Fresh => Agree(keys, r)
           /\ (\E q \in Requests : pc[q] = "store") => Agree(body, r)
<1>1. ASSUME Fresh PROVE Agree(keys, r)
  <2>1. keysAge + Timeout \in Nat /\ keysAge + Timeout <= Window
    BY <1>1, Constants DEF TypeOK, Fresh
  <2> QED
    BY <1>1, <2>1, GhostsAgree DEF AnswerInv
<1>2. ASSUME \E q \in Requests : pc[q] = "store" PROVE Agree(body, r)
  <2>1. fetchAge \in Nat /\ fetchAge <= Window
    BY Constants DEF TypeOK
  <2> QED
    BY <1>2, <2>1, GhostsAgree DEF AnswerInv
<1> QED
  BY <1>1, <1>2

\* A second look at the keys comes after fresh ones were found, or stored, and
\* whoever stores other keys before it stores an answer.
LEMMA RereadStep ==
    ASSUME TypeOK, AnswerInv, GhostInv, RereadInv, Next
    PROVE  RereadInv'
<1> USE DEF TypeOK
<1>1. ASSUME keys' = keys, pc' = pc, req' = req,
             \A r \in Requests : (retired'[r] => retired[r]) /\ (settled'[r] => settled[r])
      PROVE  RereadInv'
  BY <1>1 DEF RereadInv, Agree
<1>2. ASSUME Tick \/ Cleanup PROVE RereadInv'
  BY <1>1, <1>2 DEF Tick, Cleanup
<1>3. ASSUME NEW k \in Kids, Rotate(k) PROVE RereadInv'
  <2>1. \A r \in Requests : (retired'[r] => retired[r]) /\ (settled'[r] => settled[r])
    BY <1>3 DEF Rotate
  <2> QED
    BY <1>1, <1>3, <2>1 DEF Rotate
<1>4. ASSUME NEW r \in Requests, Store(r) PROVE RereadInv'
  <2>1. keys' = body /\ UNCHANGED <<req, ghostVars>> /\ pc[r] = "store"
    BY <1>4 DEF Store
  <2>2. \A q \in Requests : Agree(body, q)
    BY <2>1, CacheAgrees
  <2> QED
    BY <2>1, <2>2 DEF RereadInv, Agree
<1>5. ASSUME NEW r \in Requests, Step(r), ~Store(r) PROVE RereadInv'
  <2>1. keys' = keys
    BY <1>5
       DEF Step, Arrive, Locking, Lookup, Refresh, Reread, Serving, Route, APIKey, Handle, Answer,
           FetchFails, Unknown, Verify
  <2>2. ASSUME pc'[r] = "reread" PROVE Agree(keys, r)'
    <3>1. Refresh(r) /\ Refreshed
      BY <1>5, <2>2
         DEF Step, Arrive, Locking, Lookup, Refresh, Reread, Serving, Route, APIKey, Handle, Answer,
             FetchFails, Unknown, Verify, Goto, Respond, Rejected, FirstMethod
    <3>2. Agree(keys, r) /\ UNCHANGED <<req, ghostVars>>
      BY <3>1, CacheAgrees DEF Refresh, Refreshed
    <3> QED
      BY <2>1, <3>2 DEF Agree
  <2> QED
    BY <1>5, <2>1, <2>2, RequestFrame DEF RereadInv, Agree
<1> QED
  BY <1>2, <1>3, <1>4, <1>5 DEF Next, Step

\* What the two looks at the keys say.
LEMMA VerdictStep ==
    ASSUME TypeOK, AnswerInv, GhostInv, RereadInv, FreshKey, RotationNoticed, Next
    PROVE  FreshKey' /\ RotationNoticed'
<1> USE DEF TypeOK, FreshKey, RotationNoticed
<1>1. ASSUME Tick \/ Cleanup \/ \E k \in Kids : Rotate(k) PROVE FreshKey' /\ RotationNoticed'
  <2>1. pc' = pc /\ \A r \in Requests : (retired'[r] => retired[r]) /\ (settled'[r] => settled[r])
    BY <1>1 DEF Tick, Cleanup, Rotate
  <2> QED
    BY <2>1
<1>2. ASSUME NEW r \in Requests, Step(r) PROVE FreshKey' /\ RotationNoticed'
  <2>1. ASSUME pc'[r] = "verified" PROVE ~retired'[r]
    <3>1. Lookup(r) \/ Reread(r)
      BY <1>2, <2>1
         DEF Step, Arrive, Locking, Lookup, Refresh, Reread, Serving, Route, APIKey, Handle, Answer,
             FetchFails, Store, Unknown, Verify, Goto, Respond, Rejected, FirstMethod
    <3>2. Agree(keys, r) /\ req[r].kid \in keys /\ retired' = retired
      BY <2>1, <3>1, CacheAgrees DEF Lookup, Reread, Goto, RereadInv
    <3> QED
      BY <3>2 DEF Agree
  <2>2. ASSUME pc'[r] = "unknown" PROVE ~settled'[r]
    <3>1. Reread(r)
      BY <1>2, <2>2
         DEF Step, Arrive, Locking, Lookup, Refresh, Reread, Serving, Route, APIKey, Handle, Answer,
             FetchFails, Store, Unknown, Verify, Goto, Respond, Rejected, FirstMethod
    <3>2. Agree(keys, r) /\ req[r].kid \notin keys /\ settled' = settled
      BY <2>2, <3>1 DEF Reread, Goto, RereadInv
    <3> QED
      BY <3>2 DEF Agree
  <2> QED
    BY <1>2, <2>1, <2>2, RequestFrame
<1> QED
  BY <1>1, <1>2 DEF Next, Step

----
\* The invariant.

LEMMA InvStep == IInv /\ [Next]_vars => IInv'
<1> SUFFICES ASSUME IInv, [Next]_vars PROVE IInv'
  OBVIOUS
<1>1. CASE Next
  BY <1>1, TypeStep, LimiterStep, WriterStep, AnswerStep, GhostStep, RereadStep, VerdictStep DEF IInv
<1>2. CASE UNCHANGED vars
  BY <1>2
     DEF vars, IInv, TypeOK, EvictionUnseen, RefillInv, WriterInv, AnswerInv, GhostInv, RereadInv,
         FreshKey, RotationNoticed, AsOf, Agree, Fresh
<1> QED
  BY <1>1, <1>2

\* The inductive invariant holds throughout.
THEOREM Invariant == Spec => []IInv
  BY InitInv, InvStep, PTL DEF Spec

\* Every variable keeps its type: tokens, idle times and ages stay in their ranges.
THEOREM TypeCorrect == Spec => []TypeOK
<1>1. IInv => TypeOK
  BY DEF IInv
<1> QED
  BY <1>1, Invariant, PTL

\* Evicting the limiter of a client that was idle for the TTL gives it no more
\* tokens, and no fewer, than keeping it would have.
THEOREM EvictionCorrect == Spec => []EvictionUnseen
<1>1. IInv => EvictionUnseen
  BY DEF IInv
<1> QED
  BY <1>1, Invariant, PTL

\* A withdrawn key verifies nothing once the cache's TTL and one fetch have passed.
THEOREM FreshKeyCorrect == Spec => []FreshKey
<1>1. IInv => FreshKey
  BY DEF IInv
<1> QED
  BY <1>1, Invariant, PTL

\* A new key is known to every request that asks for it that long after.
THEOREM RotationCorrect == Spec => []RotationNoticed
<1>1. IInv => RotationNoticed
  BY DEF IInv
<1> QED
  BY <1>1, Invariant, PTL

\* The keys are replaced only when there were none, or they had expired: of the
\* requests that find them so, one fetches and the others use what it got.
THEOREM FetchedOnce == Spec => OneFetchPerPeriod
<1>1. IInv /\ [Next]_vars => [\A r \in Requests : Store(r) => keys = {} \/ ~Fresh]_vars
  BY Constants DEF IInv, WriterInv, Store
<1> QED
  BY <1>1, Invariant, PTL DEF Spec, OneFetchPerPeriod
====
