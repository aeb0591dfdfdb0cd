--------------------------- MODULE MCJournalStore ---------------------------
(* Instances of JournalStore for TLC. *)
EXTENDS JournalStore, TLC

=============================================================================
