------------------------------- MODULE MCTool -------------------------------
(* TLC instance of Tool: files around the sizes an event can have, with    *)
(* and without ECC bytes.                                                  *)
EXTENDS Tool

\* 54 and 108 are 48 and 96 with their ECC bytes; 0 is a directory opened as
\* a file; 57 holds a header and a damaged section.
MCFileSizes    == {0, 39, 48, 54, 57, 72, 108}
MCEventIds     == {0, 1, Npos}
MCNumbers      == {0, 1, 2}
MCErrnos       == {2, 13}
\* exit status 1 of pflash, and death by a signal
MCWaitStatuses == {256, 9}
MCLengths      == {8, 24, 48}
MCCounts       == {0, 2, 3}
=============================================================================
