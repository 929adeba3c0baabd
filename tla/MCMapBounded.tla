---------------------------- MODULE MCMapBounded ----------------------------
(* Six items, three slots: several items finish between two waits, and there  *)
(* are items left to spawn while others are buffered or being cancelled.     *)
EXTENDS MapBounded
=============================================================================
