-------------------------- MODULE MCCommandRequest --------------------------
(***************************************************************************)
(* Requests, archives and limits for TLC: requests that end early, run     *)
(* over the limit of CMD_REQUEST_BYTES = 6 or carry a second line;         *)
(* archives that are right, have two entries of one path, have no          *)
(* param.sfo, declare too much, or fail one check each.                    *)
(***************************************************************************)
EXTENDS CommandRequest

S == <<"s">>
H == <<"h">>
A == <<"d", "/", "a">>
Good1 == [path |-> A, header |-> TRUE, type |-> TRUE, size |-> 1, local |-> TRUE,
          sound |-> TRUE, sfo |-> <<>>]
Row(key, value) == [key |-> key, good |-> TRUE, value |-> value]
Sfo1 == [Good1 EXCEPT !.path = S, !.sfo = <<Row("CATEGORY", "gd"), Row("TITLE_ID", "T1")>>]
Sfo2 == [Sfo1 EXCEPT !.sfo = <<Row("TITLE_ID", "T2")>>]
Vpk(entries) == [central |-> TRUE, entries |-> entries]

MCArchives ==
    {Vpk(<<[Good1 EXCEPT !.path = <<"d", "/">>, !.size = 0], Good1, Sfo1>>),
     Vpk(<<Sfo1, [Good1 EXCEPT !.path = H], Sfo2>>),
     Vpk(<<Good1>>),
     Vpk(<<Sfo2, [Good1 EXCEPT !.size = 3]>>),
     Vpk(<<Sfo1, [Good1 EXCEPT !.sound = FALSE]>>),
     Vpk(<<Sfo1, [Good1 EXCEPT !.path = <<".", ".", "/", "a">>]>>),
     Vpk(<<[Sfo1 EXCEPT !.sfo = <<[key |-> "X", good |-> FALSE, value |-> ""],
                                  Row("TITLE_ID", "T1")>>]>>),
     Vpk(<<[Sfo1 EXCEPT !.sfo = <<Row("TITLE_ID", "bad")>>]>>)}
MCFilePaths == {S, H, A}

MCRequests ==
    {<<"i", " ", "x", "nl">>, <<"i", " ", "y", "nl">>, <<"l", " ", "x", "cr", "nl">>,
     <<"l", " ", "x", "x", "nl">>, <<"k", " ", "x", "nl">>, <<"v", "nl", "s", "nl">>,
     <<"s", "nl">>, <<"s">>, <<"i", " ", "x", " ", "x", "nl">>, <<"i", " ", "x", " ", "x", " ", "x">>,
     <<" ", "v", " ", " ", "nl">>, <<"v", " ", " ", " ", " ", " ", "nl">>, <<"nl">>, <<>>, <<"x", "nl">>,
     <<"q", "nl">>}
MCVpkPaths == {<<"x">>}
MCTitles == {<<"main">>, <<"X">>, <<"z">>}
=============================================================================
