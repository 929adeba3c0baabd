------------------------- MODULE MCRollbackJournal -------------------------
(* Runs with no inverse rows, with one, and with more than the cap. *)
EXTENDS RollbackJournal

MCInverseSizes == {0, 1, 3}
=============================================================================
