---------------------------- MODULE MCQueueStore ----------------------------
(* Instances of QueueStore for TLC. *)
EXTENDS QueueStore, TLC

OneLinkData == {<<1, 1>>, <<2, 1>>}

Symmetry ==
    Permutations(RecipientId) \cup Permutations(SenderId) \cup Permutations(NotifierId)
        \cup Permutations(Key) \cup Permutations(RcvKeys)
        \cup Permutations(Date) \cup Permutations(Thread)
=============================================================================
