----------------------------- MODULE MCMsgQueue -----------------------------
(* The message queue alone, with a quota that is reached several times. *)
EXTENDS MsgQueue
=============================================================================
