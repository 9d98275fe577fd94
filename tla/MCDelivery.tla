----------------------------- MODULE MCDelivery -----------------------------
(* Instances of Delivery for TLC. *)
EXTENDS Delivery, TLC

ClientSymmetry == Permutations(Clients)
=============================================================================
