----------------------------- MODULE MCSymbols -----------------------------
(* TLC instance of Symbols: files that are sorted or not, with duplicates, *)
(* gaps, a damaged line, a function whose end wraps, or nothing at all.    *)
EXTENDS Symbols

F(a, n) == [type |-> "function", addr |-> a, length |-> n]
Other   == [type |-> "other", addr |-> 0, length |-> 0]
Bad     == [type |-> "bad", addr |-> 0, length |-> 0]

MCContents ==
  { <<>>,
    <<F(1, 1), F(3, 2), F(5, 2)>>,
    <<Other, F(6, 1), F(1, 2)>>,
    <<F(1, 2), Bad, F(4, 2)>>,
    <<F(2, 1), F(2, 3)>>,
    <<Bad, F(3, 1)>>,
    <<F(1, 3), F(2, 7)>> }

\* below, inside and behind the functions, and beyond 32 bits
MCAddresses == 0 .. 10

\* what a line that is half old and half new may be
MCTorn == {F(4, 1), Bad}
=============================================================================
