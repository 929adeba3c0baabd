---------------------------- MODULE MCScanStream ----------------------------
(* Three items on pages of two that the server may clamp to one, so that a   *)
(* scan takes two or three pages; up to two changes while it is under way;   *)
(* limits below, at and above the size of the collection.                    *)
EXTENDS ScanStream

MCClamps == 1..2
MCLimits == {NoLimit, 2, 3, 4}
=============================================================================
