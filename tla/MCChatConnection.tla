------------------------- MODULE MCChatConnection -------------------------
(* Instances of ChatConnection for TLC. *)
EXTENDS ChatConnection, TLC

CONSTANTS k1, k2
=============================================================================
