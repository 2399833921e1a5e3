----------------------------- MODULE VideoMemory -----------------------------
(***************************************************************************)
(* The console of the kernel (include/device/VideoMemory.h): characters go *)
(* to the cell under the cursor, and the screen is to scroll when the last *)
(* row is full.  The kernel (kernel/kernel.cpp) resets the console, prints *)
(* its text and halts.                                                     *)
(*                                                                         *)
(* A character is one of a few classes.  A cell holds the position in the  *)
(* text of the character it shows, or Blank for a space.                   *)
(***************************************************************************)
EXTENDS Integers, Sequences, FiniteSetsExt

CONSTANTS
    Width, Height,  \* 80 and 25 in the code
    TabWidth,       \* 8 in the code
    Texts           \* what the kernel may print

Chars == {"glyph", "\r", "\n", "\t", "other"}

\* A tab never runs over the end of a row.
ASSUME VideoAssumption ==
    /\ TabWidth \in Nat \ {0}
    /\ Width \in Nat \ {0} /\ Width % TabWidth = 0
    /\ Height \in Nat \ {0}
    /\ Texts \subseteq Seq(Chars)

VARIABLES
    text,       \* what is printed, fixed at the start
    n,          \* characters printed so far
    spaces,     \* spaces left of the tab being printed
    x, y,       \* _x, _y
    cells,      \* the video memory
    cursor,     \* the position SyncCursor() gave to the hardware, -1: none yet
    pc,         \* "reset", "print", "move", "fill" (both in ScrollUp) or "halt"
    dst         \* ScrollUp: the cell written next

vars == <<text, n, spaces, x, y, cells, cursor, pc, dst>>

Blank == 0
Stale == -1     \* what the BIOS left on the screen
Area == Width * Height

Init ==
    /\ text \in Texts
    /\ n = 0 /\ spaces = 0
    /\ x = 0 /\ y = 0
    /\ cells = [p \in 0..(Area - 1) |-> Stale]
    /\ cursor = -1
    /\ pc = "reset"
    /\ dst = 0

\* Reset() does not touch the hardware cursor.
Reset ==
    /\ pc = "reset"
    /\ cells' = [p \in 0..(Area - 1) |-> Blank]
    /\ x' = 0 /\ y' = 0
    /\ pc' = "print"
    /\ UNCHANGED <<text, n, spaces, cursor, dst>>

-----------------------------------------------------------------------------
(***************************************************************************)
(* PutChar                                                                 *)
(***************************************************************************)
SyncCursor == cursor' = y' * Width + x'

\* Mutants: scrolls a row too late; a row too early.
LineFeedLate ==
    /\ y' = y + 1
    /\ IF y + 1 > Height
       THEN pc' = "move" /\ dst' = 0 /\ UNCHANGED cursor
       ELSE UNCHANGED <<pc, dst>> /\ SyncCursor

LineFeedEarly ==
    /\ y' = y + 1
    /\ IF y + 2 >= Height
       THEN pc' = "move" /\ dst' = 0 /\ UNCHANGED cursor
       ELSE UNCHANGED <<pc, dst>> /\ SyncCursor

\* A row further down, or into ScrollUp().
LineFeed ==
    /\ y' = y + 1
    /\ IF y + 1 >= Height
       THEN pc' = "move" /\ dst' = 0 /\ UNCHANGED cursor
       ELSE UNCHANGED <<pc, dst>> /\ SyncCursor

\* A printable character: what the cell shows afterwards is c.
PutGlyph(c) ==
    /\ cells' = [cells EXCEPT ![y * Width + x] = c]
    /\ IF x + 1 >= Width
       THEN x' = 0 /\ LineFeed
       ELSE x' = x + 1 /\ UNCHANGED <<y, pc, dst>> /\ SyncCursor
    /\ UNCHANGED text

NextChar(class) ==
    /\ pc = "print"
    /\ spaces = 0
    /\ n < Len(text) /\ text[n + 1] = class
    /\ n' = n + 1

Glyph == NextChar("glyph") /\ PutGlyph(n + 1) /\ UNCHANGED spaces

CarriageReturn ==
    /\ NextChar("\r")
    /\ x' = 0 /\ y' = y
    /\ SyncCursor
    /\ UNCHANGED <<text, spaces, cells, pc, dst>>

NewLine ==
    /\ NextChar("\n")
    /\ x' = x
    /\ LineFeed
    /\ UNCHANGED <<text, spaces, cells>>

\* Mutant: always eight spaces.
TabFixed ==
    /\ NextChar("\t")
    /\ spaces' = TabWidth
    /\ UNCHANGED <<text, x, y, cells, cursor, pc, dst>>

Tab ==
    /\ NextChar("\t")
    /\ spaces' = TabWidth - (x % TabWidth)
    /\ UNCHANGED <<text, x, y, cells, cursor, pc, dst>>

TabSpace ==
    /\ pc = "print"
    /\ spaces > 0
    /\ spaces' = spaces - 1
    /\ PutGlyph(Blank)
    /\ UNCHANGED n

\* Control characters and bytes above 0x7E are not shown.
Ignored ==
    /\ NextChar("other")
    /\ UNCHANGED <<text, spaces, x, y, cells, cursor, pc, dst>>

(***************************************************************************)
(* ScrollUp                                                                *)
(***************************************************************************)
MoveCell ==
    /\ pc = "move"
    /\ dst + Width # Area
    /\ cells' = [cells EXCEPT ![dst] = cells[dst + Width]]
    /\ dst' = dst + 1
    /\ UNCHANGED <<text, n, spaces, x, y, cursor, pc>>

MovedAll ==
    /\ pc = "move"
    /\ dst + Width = Area
    /\ pc' = "fill"
    /\ UNCHANGED <<text, n, spaces, x, y, cells, cursor, dst>>

\* The loop that blanks the last row.  Its body does not advance dst, so the
\* rest of ScrollUp(), which takes back the line feed, is never reached.
FillCell ==
    /\ pc = "fill"
    /\ dst # Area
    /\ cells' = [cells EXCEPT ![dst] = Blank]
    /\ UNCHANGED <<text, n, spaces, x, y, cursor, pc, dst>>

\* The kernel is done.
Halt ==
    /\ pc = "print"
    /\ spaces = 0
    /\ n = Len(text)
    /\ pc' = "halt"
    /\ UNCHANGED <<text, n, spaces, x, y, cells, cursor, dst>>

-----------------------------------------------------------------------------
PutChar == Glyph \/ CarriageReturn \/ NewLine \/ Tab \/ TabSpace \/ Ignored
ScrollUp == MoveCell \/ MovedAll \/ FillCell

Next == Reset \/ PutChar \/ ScrollUp \/ Halt

Spec == Init /\ [][Next]_vars

\* The kernel runs alone with interrupts off.
FairSpec == Spec /\ WF_vars(Next)

-----------------------------------------------------------------------------
(***************************************************************************)
(* Properties                                                              *)
(***************************************************************************)

\* The type of each variable.  A character is only ever put into a cell of
\* the screen.
TypeOK ==
    /\ text \in Texts
    /\ n \in 0..Len(text)
    /\ spaces \in 0..TabWidth
    /\ x \in 0..(Width - 1)
    /\ y \in 0..Height /\ (pc = "print" => y < Height)
    /\ cells \in [0..(Area - 1) -> -1..Len(text)]
    /\ cursor \in -1..(Area - 1)
    /\ pc \in {"reset", "print", "move", "fill", "halt"}
    /\ dst \in 0..(Area - Width)

\* Where the characters go, counting cells from the top left and without an
\* end of the screen: the position behind a character that is put at p, and
\* the one after the first m characters of a text.
Behind(p, class) ==
    CASE class = "glyph" -> p + 1
      [] class = "\t"    -> ((p \div TabWidth) + 1) * TabWidth
      [] class = "\r"    -> (p \div Width) * Width
      [] class = "\n"    -> p + Width
      [] class = "other" -> p

After(t, m) ==
    LET at[k \in 0..m] == IF k = 0 THEN 0 ELSE Behind(at[k - 1], t[k])
    IN  at[m]

\* What cell p shows after m characters: the last one that was put there.
Shown(t, p, m) ==
    LET there == {k \in 1..m : /\ t[k] \in {"glyph", "\t"}
                               /\ After(t, k - 1) <= p /\ p < After(t, k)}
    IN  IF there = {} \/ t[Max(there)] = "\t" THEN Blank ELSE Max(there)

\* Between two characters the screen shows the text up to here: wrapping at
\* the end of a row, tabs and carriage returns leave every character where a
\* terminal puts it, and the position behind the last one is where the next
\* one goes and, once anything moved it, where the hardware cursor stands.
\* When the screen has to scroll, its rows have moved up by one.
ScreenShowsText ==
    /\ pc \in {"print", "halt"} /\ spaces = 0 =>
        /\ y * Width + x = After(text, n)
        /\ cursor = After(text, n) \/ (cursor = -1 /\ After(text, n) = 0)
        /\ \A p \in 0..(Area - 1) : cells[p] = Shown(text, p, n)
    /\ pc = "fill" =>
        \A p \in 0..(Area - Width - 1) : cells[p] = Shown(text, p + Width, n)

FitsOnScreen == \A m \in 0..Len(text) : After(text, m) < Area

\* A kernel whose text fits on the screen prints all of it and halts.
HaltsWhenItFits == FitsOnScreen ~> (pc = "halt" /\ n = Len(text))

-----------------------------------------------------------------------------
(* What the documentation says, and the code does not do. *)

\* The kernel "prints out some info and then HALTs", also when there is more
\* to print than the screen has rows.
Halts == <>(pc = "halt")
=============================================================================
