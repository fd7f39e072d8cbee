----------------------------- MODULE MCBmcEvents -----------------------------
(* TLC instance of BmcEvents: two numbers, one of which has a file with an *)
(* odd name, too, and a file without a number.  The file 7 may hold dumps  *)
(* that end and that do not, with a space or the end inside a byte.        *)
EXTENDS BmcEvents

MCFiles  == {"7", "07", "8", "notes"}
MCIdOf   == [f \in MCFiles |-> CASE f \in {"7", "07"} -> 7 [] f = "8" -> 8
                                 [] f = "notes" -> 0]
MCFileOf == 7 :> "7" @@ 8 :> "8" @@ 9 :> "9" @@ 0 :> "0"

Plain  == [token |-> FALSE, text |-> <<>>]
Esel(t) == [token |-> TRUE, text |-> t]
Whole  == <<1, 0, Space, 10, 15, Nul>>
MCDumps == {SubSeq(Whole, 1, k) : k \in 0 .. Len(Whole)} \cup
           {<<1, Space, 0, Nul>>, <<1, 0, 1, Nul>>, <<1, 0, 1, 2, Other, 1>>,
            <<Space, Space, 0, 1, Space, Other>>, <<1, 0, 1, Space, Nul>>, <<Other>>}

MCContents == {Plain} \cup {Esel(t) : t \in MCDumps}
MCMay   == [f \in MCFiles |-> CASE f = "7" -> MCContents
                                [] f = "07" -> {Esel(Whole)}
                                [] f = "8" -> {Plain, Esel(Whole)}
                                [] f = "notes" -> {Esel(Whole)}]
MCTails == {<<Nul>>, <<1, Nul>>, <<1, 2, Other>>}
=============================================================================
