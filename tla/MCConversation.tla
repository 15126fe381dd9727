---- MODULE MCConversation ----
(***************************************************************************)
(* Conversation for TLC: the values of constants that a .cfg cannot write. *)
(***************************************************************************)
EXTENDS Conversation

\* Full, lean, and hybrid with the last turn in full.
MCModes == {-1, 0, 1}
====
