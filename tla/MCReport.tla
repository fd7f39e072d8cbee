------------------------------ MODULE MCReport -------------------------------
(* TLC instance of Report: two plugins with one id and one of the other    *)
(* kind; integers of 2, 4, 8 and 16 bits, numbers on either side of each   *)
(* limit; a reference code that is 0 in 32 bits; texts with what JSON must *)
(* escape and what it may not have.                                        *)
EXTENDS Report

MCPlugins == {"trace", "other", "source"}
MCKindOf  == [p \in MCPlugins |-> IF p = "source" THEN "src" ELSE "data"]
MCIdOf    == [p \in MCPlugins |-> IF p = "source" THEN 2 ELSE 1]
MCCompIds == {1, 2}

Call(op, name, fmt, n, text) ==
  [op |-> op, name |-> name, fmt |-> fmt, n |-> n, text |-> text]

Numbers == ({{}} \X {-1, 255}) \cup {<<{"4"}, 0>>, <<{"4"}, 16>>}

MCCalls ==
  {Call("number", <<"x">>, f[1], f[2], <<>>) : f \in Numbers \cup {<<{"8", Space}, 3>>}} \cup
  {Call("string", <<"x", "\"">>, {}, 0, text) :
     text \in {Null, <<Space, "\n", "x", "bs", "\"", "\\", "/", "x", "vt">>}} \cup
  {Call("bool", <<"x">>, {}, 1, <<>>),
   Call("dump", <<>>, {}, 0, <<"x", "\"", "ctrl", "\\", "\n">>),
   Call("heading", <<>>, {}, 0, <<"x">>),
   Call("blank", <<>>, {}, 0, <<>>),
   Call("trace", <<>>, {}, 0, <<"x", "\n", "\t", "x">>)}

RefCode(valid, num, id, text) ==
  [valid |-> valid, num |-> num, id |-> id, text |-> text, flags |-> 1, words |-> 3]

MCRefCodes == {RefCode(TRUE, 17, 2, <<>>), RefCode(TRUE, 256, 1, <<>>),
               RefCode(FALSE, 0, 1, <<"x", "ctrl">>)}
MCPayloads == {<<"\"", "x", "ctrl">>}
=============================================================================
