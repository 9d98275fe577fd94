--------------------------- MODULE MCXftpTransfer ---------------------------
(* Three chunks of unequal sizes on two servers. *)
EXTENDS XftpTransfer

MCSize == <<2, 2, 1>>
=============================================================================
