----------------------------- MODULE MCBootChain -----------------------------
(* Six reserved sectors, of which the VBR loads three, on a small drive.     *)
EXTENDS BootChain

File(id, words, padded) == [id |-> id, words |-> words, padded |-> padded]

\* Short and long, one that is not padded, one whose words sum up to zero, one
\* that only the installer accepts, one that is too big, one that is empty, and
\* one whose second sector has the same sum as that of another.
MCFiles ==
    {File("a", <<2, 9>>, TRUE), File("b", <<3, 17, 33>>, TRUE), File("c", <<5, 26>>, FALSE),
     File("zero", <<32, 32>>, TRUE), File("long", <<7, 11, 13, 41>>, TRUE),
     File("huge", <<1, 2, 3, 4, 5>>, TRUE), File("empty", <<>>, TRUE),
     File("d", <<4, 9>>, TRUE)}

MCGeo == [cylinders |-> 3, heads |-> 2, sectors |-> 7]

MCTables == {<<"ours", "inactive">>, <<"inactive", "ours">>, <<"other", "ours">>,
             <<"inactive", "inactive">>}
=============================================================================
