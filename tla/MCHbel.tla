------------------------------- MODULE MCHbel -------------------------------
(* TLC instance of Hbel: three slots of sixteen bytes; dumps that end on,  *)
(* before and behind the boundary of a slot; numbers inside and just       *)
(* outside the partition, the one whose slot ends where size_t wraps (7),  *)
(* and one whose offset wraps into the partition (9).                      *)
EXTENDS Hbel

MCEntries   == {1, 2}
MCIds       == {0, 1, 2, 3, 7, 9}
MCDumpSizes == {0, 17, 18, 19, 53, 54}
=============================================================================
