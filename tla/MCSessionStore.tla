---- MODULE MCSessionStore ----
(* The instance of SessionStore that TLC checks. *)
EXTENDS SessionStore, TLC

Alike == Permutations(Clis) \cup Permutations(Requests) \cup Permutations(Ids \ Threads)
====
