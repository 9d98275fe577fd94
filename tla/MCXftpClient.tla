---------------------------- MODULE MCXftpClient ----------------------------
(* Two callers of one agent: they share its pool of connections. *)
EXTENDS XftpClient

MCOneAgent == [c \in Caller |-> 1]
MCCommands == [c \in Caller |-> IF c = 1 THEN 2 ELSE 1]
=============================================================================
