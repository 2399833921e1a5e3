------------------------------ MODULE MCStartup ------------------------------
(* Two rounds of two tries, three polls, maps of up to two entries.         *)
EXTENDS Startup

\* No way works, or one does.
MCWays == {{}, {"int15"}, {"ps2"}, {"fast"}}

\* Low memory, high memory that is longer than it has digits for, a region
\* that ends with the address space, one behind it, an empty one of unknown
\* type, and usable memory above the counted range.
Region(b, s, t) == [base |-> b, size |-> s, type |-> t]
MCRegions ==
    {Region(0, 6, 1), Region(8, 19, 1), Region(60, 4, 2), Region(62, 5, 3), Region(9, 0, 7),
     Region(40, 8, 1)}
=============================================================================
