------------------------------- MODULE MCWrap -------------------------------
(* TLC instance of Wrap: all texts of up to five characters and some       *)
(* longer ones, on windows from none at all to one wider than the lines.   *)
EXTENDS Wrap

MCTexts ==
  UNION {[1 .. n -> Chars] : n \in 0 .. 5} \cup
  {[k \in 1 .. 9 |-> IF k = s THEN "space" ELSE IF k = f THEN "feed" ELSE "ink"] :
     s \in 1 .. 9, f \in {1, 5}}
MCWindows == {0, 1, 2, 4, 5, 7}
MCLabels  == {Raw, 0, 1, 2, 4}
=============================================================================
