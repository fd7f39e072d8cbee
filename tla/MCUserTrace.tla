---------------------------- MODULE MCUserTrace ----------------------------
(* TLC instance of UserTrace: an empty log, a log that fits the pipe, logs *)
(* that do not; OCC sections shorter than, equal to and longer than their  *)
(* header.                                                                 *)
EXTENDS UserTrace

MCLens == {0, 1, 2, 3, 5}
=============================================================================
