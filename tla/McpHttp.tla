---- MODULE McpHttp ----
(***************************************************************************)
(* The HTTP side of an MCP server (talk-libs/mcpserver): the middleware    *)
(* chain of buildHTTPHandler and buildAuthMiddleware (http.go, security.go,*)
(* auth.go) with the state its requests share, the per-client rate         *)
(* limiters and the cache of the Authorization Server's keys (jwks.go).    *)
(*                                                                         *)
(* Time is kept as ages that stop growing where the code no longer tells   *)
(* them apart, so behaviours are unbounded.  The token buckets of          *)
(* x/time/rate, refilled when asked, are refilled here as time passes.     *)
(* The client a request is counted for (trustedClientIP) comes with it;    *)
(* whether an API key, a signature or claims are good is any outcome.      *)
(***************************************************************************)
EXTENDS Integers, FiniteSets

CONSTANTS
    Requests,  \* HTTP requests under way at once
    Clients,   \* rate-limited clients
    Kids,      \* key ids the Authorization Server may publish
    Nobody,    \* not a request
    NoToken,   \* no usable bearer token: no header, or no key id in it
    Methods,   \* the sets of authentication methods the server may be run with
    Burst,     \* RateBurst
    Rate,      \* RateLimit: tokens added in one unit of time
    IdleTtl,   \* ipRateLimiter.ttl
    CacheTtl,  \* jwksCache.ttl
    Timeout    \* of the client that fetches the keys

ASSUME NobodyAssumption == Nobody \notin Requests /\ NoToken \notin Kids
ASSUME LimiterAssumption ==
    /\ Burst \in Nat \ {0} /\ Rate \in Nat /\ IdleTtl \in Nat
    /\ Burst <= Rate * IdleTtl  \* 50 <= 50 * 600 with the defaults
ASSUME CacheAssumption == CacheTtl \in Nat \ {0} /\ Timeout \in Nat \ {0}
ASSUME MethodsAssumption == Methods \subseteq SUBSET {"oauth", "apikey"}

VARIABLES
    methods,    \* what buildAuthMiddleware was configured with
    entries,    \* ipRateLimiter.entries: the clients with a limiter
    tokens,     \* of each client's limiter
    idle,       \* time since its lastSeen
    ideal,      \* ghost: the tokens of a limiter never evicted
    keys,       \* jwksCache.keys
    keysAge,    \* time since fetchedAt
    writer,     \* the request that holds jwksCache.mu to refresh
    fetchAge,   \* time since it sent its request
    body,       \* the keys the answer brought
    published,  \* the keys the Authorization Server publishes
    changedAge, \* ghost: time since each key was last published or withdrawn
    pc,         \* where each request is
    req,        \* what it carries
    retired,    \* ghost: had its key been withdrawn too long when it asked?
    settled     \* ghost: had its key been published long enough then?

limiterVars == <<entries, tokens, idle, ideal>>
cacheVars == <<keys, keysAge, writer, fetchAge, body>>
serverVars == <<published, changedAge>>
requestVars == <<pc, req>>
ghostVars == <<retired, settled>>
vars == <<methods, limiterVars, cacheVars, serverVars, requestVars, ghostVars>>

\* How old what the cache says may be: its TTL, and the time of one fetch.
Window == CacheTtl + Timeout
Least(a, b) == IF a <= b THEN a ELSE b
NoRequest == [client |-> CHOOSE c \in Clients : TRUE, kid |-> NoToken, apiKey |-> FALSE]

Init ==
    /\ methods \in Methods
    /\ entries = {}
    /\ tokens = [c \in Clients |-> Burst]
    /\ idle = [c \in Clients |-> 0]
    /\ ideal = [c \in Clients |-> Burst]
    /\ keys = {} /\ keysAge = CacheTtl
    /\ writer = Nobody /\ fetchAge = 0 /\ body = {}
    /\ published \in SUBSET Kids
    /\ changedAge = [k \in Kids |-> Window + 1]
    /\ pc = [r \in Requests |-> "idle"]
    /\ req = [r \in Requests |-> NoRequest]
    /\ retired = [r \in Requests |-> FALSE]
    /\ settled = [r \in Requests |-> FALSE]

Goto(r, label) == pc' = [pc EXCEPT ![r] = label]

\* The response is written; nothing of the request is left.
Respond(r) ==
    /\ Goto(r, "idle")
    /\ req' = [req EXCEPT ![r] = NoRequest]
    /\ retired' = [retired EXCEPT ![r] = FALSE]
    /\ settled' = [settled EXCEPT ![r] = FALSE]

----
\* Time, the limiter's cleanup, and the Authorization Server.

Tick ==
    /\ writer # Nobody => fetchAge < Timeout
    /\ tokens' = [c \in Clients |-> Least(Burst, tokens[c] + Rate)]
    /\ ideal' = [c \in Clients |-> Least(Burst, ideal[c] + Rate)]
    /\ idle' = [c \in Clients |-> IF c \in entries THEN Least(IdleTtl + 1, idle[c] + 1) ELSE 0]
    /\ keysAge' = Least(CacheTtl, keysAge + 1)
    /\ fetchAge' = IF writer = Nobody THEN 0 ELSE fetchAge + 1
    /\ changedAge' = [k \in Kids |-> Least(Window + 1, changedAge[k] + 1)]
    /\ UNCHANGED <<methods, entries, keys, writer, body, published, requestVars, ghostVars>>

\* cleanup, at a tick of cleanupLoop.
Cleanup ==
    LET stale == {c \in entries : idle[c] > IdleTtl}
    IN  /\ stale # {}
        /\ entries' = entries \ stale
        /\ idle' = [c \in Clients |-> IF c \in stale THEN 0 ELSE idle[c]]
        /\ UNCHANGED <<methods, tokens, ideal, cacheVars, serverVars, requestVars, ghostVars>>

\* A key is published or withdrawn.
Rotate(k) ==
    /\ published' = IF k \in published THEN published \ {k} ELSE published \cup {k}
    /\ changedAge' = [changedAge EXCEPT ![k] = 0]
    /\ retired' = [r \in Requests |-> retired[r] /\ req[r].kid # k]
    /\ settled' = [r \in Requests |-> settled[r] /\ req[r].kid # k]
    /\ UNCHANGED <<methods, limiterVars, cacheVars, requestVars>>

----
\* The chain up to the authentication.

\* Mutant of Seen: get does not note the access.
SeenOnce(c) == IF c \in entries THEN idle[c] ELSE 0

\* The time since lastSeen once get has returned.
Seen(c) == 0

\* A request comes in, through rateLimitMiddleware: get, which makes a limiter
\* if there is none, and Allow.
Arrive(r) ==
    /\ pc[r] = "idle"
    /\ \E c \in Clients, k \in Kids \cup {NoToken}, a \in BOOLEAN :
          LET available == IF c \in entries THEN tokens[c] ELSE Burst
              take(n) == IF n > 0 THEN n - 1 ELSE n
          IN  /\ entries' = entries \cup {c}
              /\ idle' = [idle EXCEPT ![c] = Seen(c)]
              /\ tokens' = [tokens EXCEPT ![c] = take(available)]
              /\ ideal' = [ideal EXCEPT ![c] = take(@)]
              /\ IF available > 0
                 THEN /\ req' = [req EXCEPT ![r] = [client |-> c, kid |-> k, apiKey |-> a]]
                      /\ Goto(r, "route")
                 ELSE UNCHANGED requestVars  \* 429
    /\ UNCHANGED <<methods, cacheVars, serverVars, ghostVars>>

\* Where buildAuthMiddleware and eitherAuthMiddleware send a request first.
FirstMethod(r) ==
    IF methods = {} THEN "handler"
    ELSE IF "oauth" \in methods /\ req[r].kid # NoToken THEN "lookup"
    ELSE IF "apikey" \in methods THEN "apikey" ELSE "idle"

\* verify begins: what the ghosts remember is how things stood here.
Asks(r) ==
    LET k == req[r].kid
        long == changedAge[k] > Window
    IN  /\ retired' = [retired EXCEPT ![r] = long /\ k \notin published]
        /\ settled' = [settled EXCEPT ![r] = long /\ k \in published]

\* restrictPathMiddleware and the mux: a 404 or a metadata document, or a
\* protected path, which without any credentials gets a 401.
Route(r) ==
    /\ pc[r] = "route"
    /\ \/ Respond(r)
       \/ /\ FirstMethod(r) # "idle"
          /\ Goto(r, FirstMethod(r))
          /\ IF FirstMethod(r) = "lookup" THEN Asks(r) ELSE UNCHANGED ghostVars
          /\ UNCHANGED req
    /\ UNCHANGED <<methods, limiterVars, cacheVars, serverVars>>

\* OAuth answers 401: with both methods and an X-API-Key, the response was
\* buffered and is dropped for a second try.
Rejected(r) ==
    IF "apikey" \in methods /\ req[r].apiKey
    THEN Goto(r, "apikey") /\ UNCHANGED <<req, ghostVars>>
    ELSE Respond(r)

APIKey(r) ==
    /\ pc[r] = "apikey"
    /\ \/ req[r].apiKey /\ Goto(r, "handler") /\ UNCHANGED <<req, ghostVars>>
       \/ Respond(r)
    /\ UNCHANGED <<methods, limiterVars, cacheVars, serverVars>>

\* The MCP handler (external) answers.
Handle(r) ==
    /\ pc[r] = "handler"
    /\ Respond(r)
    /\ UNCHANGED <<methods, limiterVars, cacheVars, serverVars>>

----
\* verify and getKey.

\* Mutant of Fresh: a key set is good as long as there is one.
EverFresh == keys # {}

\* time.Since(fetchedAt) < ttl.
Fresh == keysAge < CacheTtl

\* getKey, first read lock.
Lookup(r) ==
    /\ pc[r] = "lookup" /\ writer = Nobody
    /\ Goto(r, IF Fresh /\ req[r].kid \in keys THEN "verified" ELSE "refresh")
    /\ UNCHANGED <<methods, limiterVars, cacheVars, serverVars, req, ghostVars>>

\* Mutant of Refreshed: no double check.
NeverRefreshed == FALSE

\* Mutant of Refreshed: any key set counts.
RefreshedOnce == keys # {}

\* refresh's double check: another request has refreshed the keys meanwhile.
Refreshed == Fresh /\ keys # {}

\* refresh, with the lock: nothing left to do, or the request is sent.
Refresh(r) ==
    /\ pc[r] = "refresh" /\ writer = Nobody
    /\ IF Refreshed
       THEN Goto(r, "reread") /\ UNCHANGED <<writer, fetchAge>>
       ELSE Goto(r, "fetch") /\ writer' = r /\ fetchAge' = 0
    /\ UNCHANGED <<methods, limiterVars, keys, keysAge, body, serverVars, req, ghostVars>>

\* The Authorization Server answers with the keys of this moment.
Answer(r) ==
    /\ pc[r] = "fetch"
    /\ body' = published
    /\ Goto(r, "store")
    /\ UNCHANGED <<methods, limiterVars, keys, keysAge, writer, fetchAge, serverVars,
                   req, ghostVars>>

\* The fetch fails or times out, or its status, its JSON or its keys are bad:
\* the cache stays as it is.
FetchFails(r) ==
    /\ \/ pc[r] = "fetch"
       \/ pc[r] = "store" /\ body = {}
    /\ writer' = Nobody /\ fetchAge' = 0
    /\ body' = {}
    /\ Rejected(r)
    /\ UNCHANGED <<methods, limiterVars, keys, keysAge, serverVars>>

\* refresh returns with the new keys, fetched now.
Store(r) ==
    /\ pc[r] = "store" /\ body # {}
    /\ keys' = body /\ keysAge' = 0
    /\ body' = {}
    /\ writer' = Nobody /\ fetchAge' = 0
    /\ Goto(r, "reread")
    /\ UNCHANGED <<methods, limiterVars, serverVars, req, ghostVars>>

\* getKey, second read lock, whatever the age of the keys.
Reread(r) ==
    /\ pc[r] = "reread" /\ writer = Nobody
    /\ Goto(r, IF req[r].kid \in keys THEN "verified" ELSE "unknown")
    /\ UNCHANGED <<methods, limiterVars, cacheVars, serverVars, req, ghostVars>>

\* "key not found in JWKS".
Unknown(r) ==
    /\ pc[r] = "unknown"
    /\ Rejected(r)
    /\ UNCHANGED <<methods, limiterVars, cacheVars, serverVars>>

\* The parser checks the signature and the claims (401), then RequireBearerToken the
\* scopes: its 403 is the answer, whatever other credentials there are.
Verify(r) ==
    /\ pc[r] = "verified"
    /\ \/ Goto(r, "handler") /\ UNCHANGED <<req, ghostVars>>
       \/ Rejected(r)
       \/ Respond(r)
    /\ UNCHANGED <<methods, limiterVars, cacheVars, serverVars>>

----
Locking(r) == Lookup(r) \/ Refresh(r) \/ Reread(r)
Serving(r) ==
    \/ Route(r) \/ APIKey(r) \/ Handle(r)
    \/ Answer(r) \/ FetchFails(r) \/ Store(r) \/ Unknown(r) \/ Verify(r)

Next ==
    \/ Tick \/ Cleanup
    \/ \E k \in Kids : Rotate(k)
    \/ \E r \in Requests : Arrive(r) \/ Locking(r) \/ Serving(r)

Spec == Init /\ [][Next]_vars

----
\* A limiter that was evicted would be full by now, so eviction changes nothing
\* a client can see: its tokens are always those of a limiter kept for ever.
EvictionUnseen ==
    \A c \in Clients : ideal[c] = IF c \in entries THEN tokens[c] ELSE Burst

\* No token is verified with a key that had been withdrawn for the cache's TTL
\* and the time of a fetch when the request asked for it, whoever refreshed the
\* cache, with what outcome, in between.
FreshKey == \A r \in Requests : pc[r] = "verified" => ~retired[r]

\* A key published for that long is never "not found": a rotation is noticed
\* within the TTL, though an unknown key id alone makes no request fetch anew.
RotationNoticed == \A r \in Requests : pc[r] = "unknown" => ~settled[r]

\* Requests that find the cache expired together fetch it once: new keys never
\* replace ones that are still fresh.
OneFetchPerPeriod == [][\A r \in Requests : Store(r) => keys = {} \/ ~Fresh]_vars
====
