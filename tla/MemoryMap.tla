------------------------------ MODULE MemoryMap ------------------------------
(***************************************************************************)
(* The memory map on its way from the BIOS to the screen of the kernel:    *)
(* MemoryMap::Load() of include/BIOS/MemoryMap.h with IntCallE820(),       *)
(* MBGenInfo() of the second stage with MultiBootInfo::SetMemoryMap(), and *)
(* PrintMemoryMap() of the kernel with the numbers of TextScreen.          *)
(*                                                                         *)
(* Addresses are numbers modulo AddressSpace (2^64 in the code), counts of *)
(* kilobytes modulo CountSpace (2^32).  The multiboot map is an array in   *)
(* memory, which the kernel walks by the sizes stored in it.               *)
(***************************************************************************)
EXTENDS Arithmetic, Sequences

CONSTANTS
    MAX_COUNT,      \* entries of the map (32)
    AddressSpace,   \* 2^64
    CountSpace,     \* 2^32
    LowEnd,         \* 0x00100000
    HighEnd,        \* 0x100000000, the first address that is not counted
    Kilo,           \* 1024
    HexBase,        \* 16
    HexDigits,      \* digits of WriteHex() (16)
    DecBase,        \* 10
    DecRoom,        \* digits the buffer of WriteDecimal() has room for (9)
    Rows,           \* _height of the screen (25)
    HeadRows,       \* lines the kernel prints in front of the map (5)
    Regions         \* what the BIOS may report: records base, size, type

\* Sizes of an entry of the multiboot map and of the length in front of it.
SizeofMmap == 24
SizeofSize == 4

ASSUME MemoryMapAssumption ==
    /\ MAX_COUNT \in Nat \ {0}
    /\ HexDigits \in Nat /\ HexBase \in Nat /\ HexBase > 1
    /\ AddressSpace = Power(HexBase, HexDigits)
    /\ CountSpace \in Nat \ {0} /\ Kilo \in Nat \ {0}
    /\ LowEnd \in Nat /\ HighEnd \in Nat /\ LowEnd <= HighEnd
    /\ DecBase \in Nat /\ DecBase > 1 /\ DecRoom \in Nat
    /\ Rows \in Nat /\ HeadRows \in 0..(Rows - 1)
    /\ Regions \subseteq [base : 0..(AddressSpace - 1), size : 0..(AddressSpace - 1), type : Nat]

VARIABLES
    step,       \* "wait", "load", "loaded", "fail", "print", "walk", "halt", or
                \* "scroll": caught in ScrollUp(), see VideoMemory
    ebx,        \* continuation value of the BIOS, 0 at the end
    temp,       \* the static buffer of MemoryMapEntry::Load
    ent,        \* _ent
    count,      \* _count
    info,       \* the MultiBootInfo: array in memory, length, sizes
    mmap,       \* address of the entry the kernel is at
    shown,      \* what the kernel has printed
    reported    \* history: what the BIOS reported

mapVars == <<step, ebx, temp, ent, count, info, mmap, shown, reported>>

NoRegion == [base |-> 0, size |-> 0, type |-> 0]
NoInfo == [array |-> <<>>, length |-> 0, lower |-> 0, upper |-> 0]
NothingShown == [low |-> <<>>, high |-> <<>>, lines |-> <<>>]

MapInit ==
    /\ step = "wait"
    /\ ebx = 0
    /\ temp = NoRegion
    /\ ent = [i \in 0..(MAX_COUNT - 1) |-> NoRegion]
    /\ count = 0
    /\ info = NoInfo
    /\ mmap = 0
    /\ shown = NothingShown
    /\ reported = <<>>

-----------------------------------------------------------------------------
(* MemoryMap::Load *)

BeginLoad ==
    /\ step = "wait"
    /\ step' = "load"
    /\ ebx' = 0
    /\ count' = 0
    /\ UNCHANGED <<temp, ent, info, mmap, shown, reported>>

\* Mutant: the loop goes on while there is a continuation value.
LoadGoesOnUnbounded(n, cont) == cont # 0

\* The condition of the loop, with the new count and continuation value.
LoadGoesOn(n, cont) == n < MAX_COUNT /\ cont # 0

\* The BIOS reports a region and whether there are more.
LoadEntry(region, cont) ==
    /\ step = "load"
    /\ temp' = region
    /\ ent' = [ent EXCEPT ![count] = region]
    /\ count' = count + 1
    /\ ebx' = cont
    /\ step' = IF LoadGoesOn(count + 1, cont) THEN "load" ELSE "loaded"
    /\ reported' = Append(reported, region)
    /\ UNCHANGED <<info, mmap, shown>>

\* Carry: the list ended with the entry before.  The buffer is copied anyway.
LoadEnds ==
    /\ step = "load"
    /\ ent' = [ent EXCEPT ![count] = temp]
    /\ step' = "loaded"
    /\ UNCHANGED <<ebx, temp, count, info, mmap, shown, reported>>

\* No carry and no signature.
LoadFails ==
    /\ step = "load"
    /\ ent' = [ent EXCEPT ![count] = temp]
    /\ count' = 0
    /\ step' = "fail"
    /\ UNCHANGED <<ebx, temp, info, mmap, shown, reported>>

-----------------------------------------------------------------------------
(* MBGenInfo *)

Usable(r) == r.type = 1
TypeOf(r) == IF r.type < 1 \/ r.type > 5 THEN 5 ELSE r.type

\* MultiBootMmap::SetNext: the length leaves out the length field itself.
NextLength == SizeofMmap - SizeofSize

\* The array, with addresses relative to its begin.
MmapArray(n) ==
    [a \in {i * SizeofMmap : i \in 0..(n - 1)} |->
        [length |-> NextLength, region |-> ent[a \div SizeofMmap]]]

\* The loop of SetMemoryMap(): each usable region below 4G replaces what an
\* earlier one said.
SizesAfter(s, r) ==
    IF ~Usable(r) \/ r.base >= HighEnd THEN s
    ELSE IF r.base < LowEnd THEN [s EXCEPT !.lower = (r.size \div Kilo) % CountSpace]
    ELSE [s EXCEPT !.upper = (r.size \div Kilo) % CountSpace]

Sizes(n) ==
    LET upto[i \in 0..n] ==
            IF i = 0 THEN [lower |-> 0, upper |-> 0] ELSE SizesAfter(upto[i - 1], ent[i - 1])
    IN  upto[n]

MBInfo(sizes) ==
    [array |-> MmapArray(count), length |-> count * SizeofMmap,
     lower |-> sizes.lower, upper |-> sizes.upper]

MBGenInfo ==
    /\ step = "loaded"
    /\ info' = MBInfo(Sizes(count))
    /\ step' = "print"
    /\ UNCHANGED <<ebx, temp, ent, count, mmap, shown, reported>>

-----------------------------------------------------------------------------
(* The kernel *)

\* WriteHex: all digits, the lowest is written first, at the end, and what is
\* left of the number is shifted.
Hex(x) ==
    LET left[i \in 0..HexDigits] == IF i = 0 THEN x ELSE left[i - 1] \div HexBase
    IN  [i \in 1..HexDigits |-> left[HexDigits - i] % HexBase]

\* WriteDecimal: digits while there is something left; 0 is a case of its own.
Dec[x \in Nat] == IF x = 0 THEN <<>> ELSE Append(Dec[x \div DecBase], x % DecBase)
Decimal(x) == IF x = 0 THEN <<0>> ELSE Dec[x]

PrintSizes ==
    /\ step = "print"
    /\ shown' = [shown EXCEPT !.low = Decimal(info.lower), !.high = Decimal(info.upper)]
    /\ mmap' = 0
    /\ step' = "walk"
    /\ UNCHANGED <<ebx, temp, ent, count, info, reported>>

\* Mutant: a region that ends with the address space is not taken for one
\* that wrapped.
EndOfUnwrapped(start, size) ==
    IF size = 0 THEN start
    ELSE LET end == (start + size) % AddressSpace IN (end + AddressSpace - 1) % AddressSpace

\* The last address of a region, as PrintMemoryMap() computes it.
EndOf(start, size) ==
    LET end == (start + size) % AddressSpace
    IN  IF size = 0 THEN start
        ELSE IF end < start THEN AddressSpace - 1 ELSE end - 1

Line(r) == [start |-> Hex(r.base), end |-> Hex(EndOf(r.base, r.size)), type |-> TypeOf(r)]

\* The line feed behind line n of the map leaves the screen: PutChar() calls
\* ScrollUp(), which does not end (module VideoMemory).
Scrolls(n) == HeadRows + n >= Rows

\* One line, and Next().  A pointer into the middle of an entry has no meaning
\* here: the walk would be stuck.
PrintLine ==
    /\ step = "walk"
    /\ mmap < info.length
    /\ mmap \in DOMAIN info.array
    /\ shown' = [shown EXCEPT !.lines = Append(shown.lines, Line(info.array[mmap].region))]
    /\ IF Scrolls(Len(shown'.lines))
       THEN step' = "scroll" /\ UNCHANGED mmap
       ELSE mmap' = mmap + info.array[mmap].length + SizeofSize /\ UNCHANGED step
    /\ UNCHANGED <<ebx, temp, ent, count, info, reported>>

Printed ==
    /\ step = "walk"
    /\ mmap >= info.length
    /\ step' = "halt"
    /\ UNCHANGED <<ebx, temp, ent, count, info, mmap, shown, reported>>

Load == LoadEnds \/ LoadFails
        \/ (\E r \in Regions, cont \in {0, 1} : LoadEntry(r, cont))
Kernel == PrintSizes \/ PrintLine \/ Printed

-----------------------------------------------------------------------------
(***************************************************************************)
(* Properties                                                              *)
(***************************************************************************)

\* The type of each variable of the module.
MapTypeOK ==
    /\ step \in {"wait", "load", "loaded", "fail", "print", "walk", "halt", "scroll"}
    /\ ebx \in {0, 1}
    /\ temp \in Regions \cup {NoRegion}
    /\ ent \in [0..(MAX_COUNT - 1) -> Regions \cup {NoRegion}]
    /\ count \in 0..MAX_COUNT
    /\ info.length \in 0..(MAX_COUNT * SizeofMmap)
    /\ info.lower \in 0..(CountSpace - 1) /\ info.upper \in 0..(CountSpace - 1)
    /\ mmap \in Nat
    /\ \A i \in 1..Len(reported) : reported[i] \in Regions

\* The number a reader makes of digits.
Value(digits, base) ==
    LET upto[i \in 0..Len(digits)] == IF i = 0 THEN 0 ELSE upto[i - 1] * base + digits[i]
    IN  upto[Len(digits)]

\* The last address of a region: it may reach the end of the address space.
LastAddress(r) ==
    IF r.size = 0 THEN r.base
    ELSE IF r.base + r.size > AddressSpace THEN AddressSpace - 1
    ELSE r.base + r.size - 1

LineIs(line, r) ==
    /\ Value(line.start, HexBase) = r.base
    /\ Value(line.end, HexBase) = LastAddress(r)
    /\ line.type = IF r.type \in 1..5 THEN r.type ELSE 5

\* The number of kilobytes of the last usable region in an area.
LastSize(area) ==
    LET hits == {i \in 1..Len(reported) : Usable(reported[i]) /\ reported[i].base \in area}
    IN  IF hits = {} THEN 0
        ELSE (reported[CHOOSE i \in hits : \A j \in hits : j <= i].size \div Kilo) % CountSpace

Shows(digits, n) == Len(Decimal(n)) <= DecRoom => Value(digits, DecBase) = n

\* Where the kernel stops, its lines show the regions the BIOS reported, in order
\* and with the right addresses: all of them when it halts, up to the size of the
\* map and whichever way the BIOS ended the list, and as many as the screen has
\* rows left when it is caught in ScrollUp().  The sizes of low and high memory
\* are there as numbers (unless they need more digits than the buffer has).
KernelShowsMap ==
    step \in {"halt", "scroll"} =>
        /\ Len(shown.lines) = IF step = "halt" THEN Len(reported) ELSE Rows - HeadRows
        /\ Len(shown.lines) <= Len(reported)
        /\ \A i \in 1..Len(shown.lines) : LineIs(shown.lines[i], reported[i])
        /\ Shows(shown.low, LastSize(0..(LowEnd - 1)))
        /\ Shows(shown.high, LastSize(LowEnd..(HighEnd - 1)))
=============================================================================
