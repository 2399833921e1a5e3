---------------------------- MODULE MCVideoMemory ----------------------------
(* VideoMemory on a screen of two rows of four cells with tabs of two cells, *)
(* and every short text.                                                     *)
EXTENDS VideoMemory

CONSTANT MaxLength      \* bound: characters of a text

MCTexts == UNION {[1..len -> Chars] : len \in 0..MaxLength}

\* The kernel's own way to print: rows that end in "\r\n".
Row == <<"glyph", "glyph", "\r", "\n">>
KernelTexts == {Row, Row \o Row}
=============================================================================
