---- MODULE MCUsageExport ----
(* The instances of UsageExport that TLC checks. *)
EXTENDS UsageExport

MCModels == {
    [Name |-> "sonnet-4.6", OLTPProvider |-> "anthropic", APIModelID |-> "claude-sonnet-4-5"],
    [Name |-> "o4-mini", OLTPProvider |-> "openai", APIModelID |-> "o4-mini"]}
====
