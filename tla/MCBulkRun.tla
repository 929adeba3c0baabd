----------------------------- MODULE MCBulkRun -----------------------------
(* Three rows on two slots, the last one a removal; a row is sent at most    *)
(* twice.                                                                    *)
EXTENDS BulkRun

MCRemovals == {3}
=============================================================================
