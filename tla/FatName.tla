------------------------------- MODULE FatName -------------------------------
(***************************************************************************)
(* Names in directory entries: the short names of fs/FatName.h, how        *)
(* fatedit stores one in a FatDirent and both readers turn it back into a  *)
(* string (fs/FatDirent.h), and how fatedit reads a directory with the     *)
(* long names that other systems leave in it (fs/FatDirentLong.h).         *)
(*                                                                         *)
(* A character is its code.  A name has NameLen (8) characters, and an     *)
(* extension of ExtLen (3).                                                *)
(***************************************************************************)
EXTENDS Integers, FiniteSets, SequencesExt

CONSTANTS NameLen, ExtLen

ASSUME FatNameAssumption == NameLen \in Nat \ {0} /\ ExtLen \in Nat \ {0}

Nul == 0
Blank == 32
Dot == 46
Deleted == 229      \* 0xE5

-----------------------------------------------------------------------------
(* FatName.h *)

\* | \ / " * + , [ ]
Special == {124, 92, 47, 34, 42, 43, 44, 91, 93}

IsValidFatChar(c) ==
    /\ c \in 32..126
    /\ c \notin 97..122     \* lower case letters
    /\ c \notin 58..63      \* : to ?
    /\ c \notin Special

DotsIn(name) == {i \in 1..Len(name) : name[i] = Dot}

IsShortName(name) ==
    /\ Len(name) \in 1..(NameLen + 1 + ExtLen)
    /\ \A i \in 1..Len(name) : IsValidFatChar(name[i])
    /\ Cardinality(DotsIn(name)) <= 1
    /\ DotsIn(name) = {} => Len(name) <= NameLen
    /\ \A d \in DotsIn(name) : d \in 2..(NameLen + 1) /\ Len(name) - d \in 1..ExtLen

-----------------------------------------------------------------------------
(* FatDirent.h *)

\* FixedLengthString::Set
Fixed(n, s) == [i \in 1..n |-> IF i <= Len(s) THEN s[i] ELSE Blank]

\* AppendDirectoryEntry: the name is split at its first dot.
Stored(name) ==
    LET d == Min(DotsIn(name) \cup {Len(name) + 1})
    IN  [name |-> Fixed(NameLen, SubSeq(name, 1, d - 1)),
         ext |-> Fixed(ExtLen, SubSeq(name, d + 1, Len(name)))]

TrimBlanks(s) == SubSeq(s, 1, Max({0} \cup {i \in 1..Len(s) : s[i] # Blank}))

\* A string ends at the first Nul.
CString(s) == SubSeq(s, 1, Min({i \in 1..Len(s) : s[i] = Nul} \cup {Len(s) + 1}) - 1)

\* NameToString fails, and writes nothing, for a name that begins with a blank.
HasName(e) == e.name[1] # Blank

NameToString(e) ==
    CString(IF e.ext[1] = Blank THEN TrimBlanks(e.name)
            ELSE TrimBlanks(TrimBlanks(e.name) \o <<Dot>> \o e.ext))

\* Sum of the stored name, rotated right by one bit for each character.
Checksum(e) ==
    FoldLeft(LAMBDA sum, c : ((sum % 2) * 128 + (sum \div 2) + c) % 256, 0, e.name \o e.ext)

IsDummiedOut(e) == e.name[1] = Deleted
IsLastInList(e) == e.name[1] = Nul

-----------------------------------------------------------------------------
(***************************************************************************)
(* ScanDirectory of fatedit.  A slot has the bytes of a name (name, ext),  *)
(* its flag ("file", "dir" or "long"), and for a part of a long name the   *)
(* checksum of the short one (chk) and the characters (part).              *)
(***************************************************************************)
IsLong(e) == e.flag = "long"
SequenceNumber(e) == e.name[1] % 64
IsLast(e) == (e.name[1] \div 64) % 2 = 1

\* What the loop has found so far: the list, and whether an entry comes next,
\* the part seq of a long name, or the short entry that ends it.
Scan(at, seq, chk, text, list) ==
    [at |-> at, seq |-> seq, chk |-> chk, text |-> text, list |-> list]
Fresh(list) == Scan("entry", 0, 0, <<>>, list)
Broken(s) == [s EXCEPT !.at = "broken"]

\* The short entry; long is the long name, or empty.
Accept(s, e, long) ==
    IF HasName(e)
    THEN Fresh(Append(s.list, [short |-> NameToString(e), flag |-> e.flag,
                               long |-> IF long = <<>> THEN NameToString(e) ELSE long,
                               cluster |-> e.cluster, size |-> e.size]))
    ELSE Broken(s)

\* One part of a long name; parts come last to first.
LongPart(s, e, seq, text) ==
    IF Len(CString(e.part)) = 0 THEN Broken(s)
    ELSE Scan(IF seq = 1 THEN "short" ELSE "part", seq - 1, e.chk, CString(e.part) \o text, s.list)

ScanSlot(s, e) ==
    CASE s.at = "entry" /\ IsDummiedOut(e) -> s
      [] s.at = "entry" /\ ~IsDummiedOut(e) /\ IsLastInList(e) -> [s EXCEPT !.at = "end"]
      [] s.at = "entry" /\ ~IsDummiedOut(e) /\ ~IsLastInList(e) /\ IsLong(e) ->
            IF IsLast(e) /\ SequenceNumber(e) >= 1
            THEN LongPart(s, e, SequenceNumber(e), <<>>) ELSE Broken(s)
      [] s.at = "entry" /\ ~IsDummiedOut(e) /\ ~IsLastInList(e) /\ ~IsLong(e) ->
            Accept(s, e, <<>>)
      [] s.at = "part" ->
            IF IsLong(e) /\ ~IsLast(e) /\ SequenceNumber(e) = s.seq /\ e.chk = s.chk
            THEN LongPart(s, e, s.seq, s.text) ELSE Broken(s)
      [] s.at = "short" ->
            IF ~IsLong(e) /\ Checksum(e) = s.chk THEN Accept(s, e, s.text) ELSE Broken(s)
      [] s.at \in {"end", "broken"} -> s

\* The directory was read if the list ended between two entries.
ScanDirectory(slots) ==
    LET scan[n \in 0..Len(slots)] ==
            IF n = 0 THEN Fresh(<<>>) ELSE ScanSlot(scan[n - 1], slots[n])
        s == scan[Len(slots)]
    IN  [ok |-> s.at \in {"entry", "end"}, list |-> s.list]

\* FindFile: the entries that have the name, as their short or their long one.
Listed(list, name) == {i \in 1..Len(list) : list[i].long = name \/ list[i].short = name}
=============================================================================
