--------------------------- MODULE MCJournalStore ---------------------------
(* One queue of the journal store.  Operations and faults are chosen by the *)
(* configurations.                                                          *)
EXTENDS JournalStore
=============================================================================
