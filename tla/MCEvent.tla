------------------------------ MODULE MCEvent ------------------------------
(* TLC instance of Event: real structure sizes, sizes and lengths on both  *)
(* sides of every boundary the code tests.                                 *)
EXTENDS Event

\* 39/40: argument check; 55/56: room behind a SEL record; 48 and 64: just a
\* Private Header without and with a SEL record; 56/57, 72, 88: one or two more.
MCLens    == {0, 39, 40, 48, 55, 56, 57, 64, 72, 73, 88, 97}
\* 8/9: header alone; 24, 48, 80: the typed sections; 25: too big for UH.
MCLengths == {0, 8, 9, 24, 25, 48, 80}
MCCounts  == {0, 1, 2, 3}
=============================================================================
