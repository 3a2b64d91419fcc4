------------------------------- MODULE MCFiles -------------------------------
(* Two handles on a file of up to three bytes, with words of 0 to 4.       *)
EXTENDS Files, TLC

MCOpens == {[kind |-> "regular", flags |-> {"r", "w"}], [kind |-> "regular", flags |-> {"r"}],
            [kind |-> "zero", flags |-> {"r"}], [kind |-> "null", flags |-> {"r", "w"}],
            [kind |-> "directory", flags |-> {"r"}]}
MCTexts == {<< >>, <<"a">>, <<"a", "b">>}
MCWord == 5
MCOffsets == {0, 1, MCWord - 1}             \* the last is -1
MCHandles == Permutations(Handle)
===============================================================================
