-------------------------- MODULE MC_Conversation --------------------------
(* Small instances of Conversation.                                        *)
EXTENDS Conversation
=============================================================================
