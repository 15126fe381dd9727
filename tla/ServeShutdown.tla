---- MODULE ServeShutdown ----
(***************************************************************************)
(* The end of "talk serve" (runServe and gracefulShutdown, talk/cmd/cli/   *)
(* serve.go): the main goroutine in ListenAndServe, the one that waits for *)
(* a signal and calls Shutdown, the deferred closing of the MCP manager    *)
(* and the store, and the requests that are in flight.                     *)
(*                                                                         *)
(* net/http and context (external) do what their documentation says: a     *)
(* context derived from a cancelled one is cancelled; Shutdown closes the  *)
(* listener, then returns when no request is active or its context is      *)
(* done; ListenAndServe returns as soon as Shutdown is called.             *)
(***************************************************************************)
EXTENDS Integers

CONSTANTS
    Requests,  \* POST /agent requests
    Deadline   \* what WithTimeout is given: 30 seconds

VARIABLES
    signalled,  \* is ctx cancelled?
    elapsed,    \* time since then, up to the deadline
    shutdown,   \* gracefulShutdown: "waiting", "draining" or "returned"
    main,       \* runServe: "serving", "joining", "closing mcp", "closing store", "exited"
    pc          \* of each request: "idle", "running", "answered", "failed" or "cut"

vars == <<signalled, elapsed, shutdown, main, pc>>

Active == {r \in Requests : pc[r] = "running"}

Init ==
    /\ signalled = FALSE
    /\ elapsed = 0
    /\ shutdown = "waiting"
    /\ main = "serving"
    /\ pc = [r \in Requests |-> "idle"]

----
\* The outside: time, SIGTERM or SIGINT, and the clients.

Tick ==
    /\ signalled /\ elapsed < Deadline /\ main # "exited"
    /\ elapsed' = elapsed + 1
    /\ UNCHANGED <<signalled, shutdown, main, pc>>

Signal ==
    /\ ~signalled
    /\ signalled' = TRUE
    /\ UNCHANGED <<elapsed, shutdown, main, pc>>

\* Accepted while the listener is open.
Accept(r) ==
    /\ pc[r] = "idle" /\ shutdown = "waiting"
    /\ pc' = [pc EXCEPT ![r] = "running"]
    /\ UNCHANGED <<signalled, elapsed, shutdown, main>>

\* The handler returns.  Its own context is not derived from ctx, so the signal
\* does not end it; once the manager or the store is closed it fails.
Answer(r) ==
    /\ pc[r] = "running" /\ main # "exited"
    /\ pc' = [pc EXCEPT ![r] = IF main \in {"serving", "joining"} THEN "answered" ELSE "failed"]
    /\ UNCHANGED <<signalled, elapsed, shutdown, main>>

----
\* gracefulShutdown.

\* ctx.Done, and the call of Shutdown.
Shutdown ==
    /\ shutdown = "waiting" /\ signalled
    /\ shutdown' = "draining"
    /\ UNCHANGED <<signalled, elapsed, main, pc>>

\* shutdownCtx = WithTimeout(ctx, 30s): done with its parent, or at its deadline.
ShutdownDone == signalled \/ elapsed >= Deadline

\* Shutdown returns; its error is only logged.
Drained ==
    /\ shutdown = "draining"
    /\ Active = {} \/ ShutdownDone
    /\ shutdown' = "returned"
    /\ UNCHANGED <<signalled, elapsed, main, pc>>

----
\* runServe.

\* ListenAndServe returns ErrServerClosed.
ServerClosed ==
    /\ main = "serving" /\ shutdown # "waiting"
    /\ main' = "joining"
    /\ UNCHANGED <<signalled, elapsed, shutdown, pc>>

\* wg.Wait.
Join ==
    /\ main = "joining" /\ shutdown = "returned"
    /\ main' = "closing mcp"
    /\ UNCHANGED <<signalled, elapsed, shutdown, pc>>

\* The deferred mcpManager.Close.
CloseManager ==
    /\ main = "closing mcp"
    /\ main' = "closing store"
    /\ UNCHANGED <<signalled, elapsed, shutdown, pc>>

\* The deferred messages.Close, and the end of the process.
CloseStore ==
    /\ main = "closing store"
    /\ main' = "exited"
    /\ pc' = [r \in Requests |-> IF r \in Active THEN "cut" ELSE pc[r]]
    /\ UNCHANGED <<signalled, elapsed, shutdown>>

----
Next ==
    \/ Tick \/ Signal
    \/ \E r \in Requests : Accept(r) \/ Answer(r)
    \/ Shutdown \/ Drained
    \/ ServerClosed \/ Join \/ CloseManager \/ CloseStore

Spec == Init /\ [][Next]_vars

----
\* The deadline gracefulShutdown's comment promises: the server gives the
\* requests in flight that long before it closes what they use and cuts them.
DrainedForDeadline ==
    \A r \in Requests : pc[r] \in {"failed", "cut"} => elapsed = Deadline
====
