---- MODULE MCMcpHttp ----
(* The instance of McpHttp that TLC checks. *)
EXTENDS McpHttp, TLC

Alike == Permutations(Requests) \cup Permutations(Kids)
====
