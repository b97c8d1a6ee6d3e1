---------------------------- MODULE MCChatBridge ----------------------------
(***************************************************************************)
(* Instances of ChatBridge.                                                *)
(***************************************************************************)
EXTENDS ChatBridge, TLC

CONSTANTS i1, c1, c2, h1

=============================================================================
