---------------------------- MODULE StartupProofs ----------------------------
(***************************************************************************)
(* Proofs about the start of the second stage: what EnableA20() says of    *)
(* the line and what it leaves behind.  LineInv is inductive; it says how  *)
(* much one test knows after each of its accesses to memory.               *)
(***************************************************************************)
EXTENDS Startup, Induction

-----------------------------------------------------------------------------
(* The inductive invariant of EnableA20. *)

\* The byte at 0000:0500 is what it was, or TestA20() has its value.
ByteKept ==
    /\ ~Testing => mem["low"] = OldLow
    /\ Testing => old = OldLow

\* What the accesses of a test have told: a pattern that is still in the lower
\* byte after the other was written to the higher one means that the line was
\* on, and if it was on from the start then the pattern is there.
TestKnows ==
    /\ onBefore => gate
    /\ pc = "pokeHigh" => mem["low"] = Byte("aa", try)
    /\ pc = "peekLow" =>
        /\ mem["low"] = Byte("aa", try) => gate /\ mem["high"] = Byte("55", try)
        /\ onBefore => mem["low"] = Byte("aa", try)
    /\ pc = "peekHigh" => gate /\ mem["high"] = Byte("55", try)
    /\ pc \in {"restore", "done"} => IF result THEN gate ELSE ~onBefore

\* Only a controller that answered DrainBuffers() gets bytes.
PortsKept ==
    /\ touched => present
    /\ pc \in {"command", "data", "null"} => present
    /\ pc = "drain" /\ drain > 1 => present
    /\ "a20" \in portA => "reset" \notin portA

LineInv == LineTypeOK /\ ByteKept /\ TestKnows /\ PortsKept

\* The two patterns are different bytes, and neither is what was there before.
LEMMA BytesDiffer ==
    ASSUME NEW i, NEW j
    PROVE  Byte("aa", i) # Byte("55", j)
  BY DEF Byte

\* The patterns of a try are bytes.
LEMMA BytesType ==
    /\ OldLow \in Bytes /\ Byte("high", 0) \in Bytes
    /\ \A i \in 0..(Tries - 1) : Byte("aa", i) \in Bytes /\ Byte("55", i) \in Bytes
  BY DEF Bytes, Byte, OldLow

\* EnableA20() begins before any access.
LEMMA LineInitInv == LineInit => LineInv
  <1> SUFFICES ASSUME LineInit PROVE LineInv
      OBVIOUS
  <1>1. LineTypeOK
    <2>1. mem \in [{"low", "high"} -> Bytes]
        BY BytesType DEF LineInit
    <2>2. portA \subseteq PortBits
        BY DEF LineInit, PortBits
    <2>3. /\ round \in 0..(Rounds - 1) /\ test \in 1..4 /\ try \in 0..(Tries - 1)
          /\ drain \in 1..4 /\ poll \in 0..Polls /\ ffCount \in 0..(MaxFF + 1)
        BY A20Assumption DEF LineInit
    <2>4. /\ rising \in BOOLEAN /\ drained \in BOOLEAN /\ result \in BOOLEAN
          /\ onBefore \in BOOLEAN /\ touched \in BOOLEAN
        BY DEF LineInit
    <2> QED
        BY <2>1, <2>2, <2>3, <2>4, BytesType DEF LineInit, LineTypeOK
  <1>2. ByteKept /\ TestKnows /\ PortsKept
      BY DEF LineInit, ByteKept, TestKnows, PortsKept, Testing
  <1> QED
      BY <1>1, <1>2 DEF LineInv

\* A step of something else changes none of it.
LEMMA LineStutter ==
    ASSUME LineInv, UNCHANGED lineVars
    PROVE  LineInv'
  BY DEF LineInv, LineTypeOK, ByteKept, TestKnows, PortsKept, Testing, lineVars, hardware,
         tester, keyboard

\* A test begins: the byte is read, and the line may be on already.
LEMMA TestBeginInv ==
    ASSUME LineInv, TestBegin
    PROVE  LineInv'
  <1> USE DEF TestBegin, hardware, keyboard
  <1>1. LineTypeOK'
      BY A20Assumption DEF LineInv, LineTypeOK
  <1>2. ByteKept'
      BY DEF LineInv, ByteKept, Testing
  <1>3. TestKnows'
      BY DEF LineInv, TestKnows
  <1>4. PortsKept'
      BY DEF LineInv, PortsKept
  <1> QED
      BY <1>1, <1>2, <1>3, <1>4 DEF LineInv

\* The first pattern goes to the byte at 0000:0500.
LEMMA PokeLowInv ==
    ASSUME LineInv, PokeLow
    PROVE  LineInv'
  <1> USE DEF PokeLow, hardware, keyboard
  <1>1. LineTypeOK'
      BY BytesType DEF LineInv, LineTypeOK
  <1>2. ByteKept'
      BY DEF LineInv, ByteKept, Testing
  <1>3. TestKnows'
      BY DEF LineInv, TestKnows, LineTypeOK
  <1>4. PortsKept'
      BY DEF LineInv, PortsKept
  <1> QED
      BY <1>1, <1>2, <1>3, <1>4 DEF LineInv

\* The second pattern goes to the higher byte, or on top of the first one.
LEMMA PokeHighInv ==
    ASSUME LineInv, PokeHigh
    PROVE  LineInv'
  <1> USE DEF PokeHigh, hardware, keyboard
  <1>1. LineTypeOK'
      BY BytesType DEF LineInv, LineTypeOK, HighCell
  <1>2. ByteKept'
      BY DEF LineInv, ByteKept, Testing
  <1>3. TestKnows'
      BY BytesDiffer DEF LineInv, TestKnows, LineTypeOK, HighCell
  <1>4. PortsKept'
      BY DEF LineInv, PortsKept
  <1> QED
      BY <1>1, <1>2, <1>3, <1>4 DEF LineInv

\* The lower byte still has its pattern, or a try is over.
LEMMA PeekInv ==
    ASSUME LineInv, PeekLow \/ PeekHigh \/ TryAgain \/ TestFails
    PROVE  LineInv'
  <1> USE DEF hardware, keyboard, tester
  <1>1. CASE PeekLow
      BY <1>1 DEF PeekLow, LineInv, LineTypeOK, ByteKept, TestKnows, PortsKept, Testing
  <1>2. CASE PeekHigh
      BY <1>2 DEF PeekHigh, LineInv, LineTypeOK, ByteKept, TestKnows, PortsKept, Testing
  <1>3. Differs => pc = "peekLow" /\ ~onBefore
      BY DEF LineInv, TestKnows, Differs, HighCell
  <1>4. CASE TryAgain
    <2>1. try' \in 0..(Tries - 1)
        BY <1>4, A20Assumption DEF TryAgain, LineInv, LineTypeOK
    <2> QED
        BY <1>3, <1>4, <2>1
        DEF TryAgain, LineInv, LineTypeOK, ByteKept, TestKnows, PortsKept, Testing
  <1>5. CASE TestFails
      BY <1>3, <1>5
      DEF TestFails, LineInv, LineTypeOK, ByteKept, TestKnows, PortsKept, Testing
  <1> QED
      BY <1>1, <1>2, <1>4, <1>5

\* The test is over: the byte gets its value back, and a round may end.
LEMMA RestoreInv ==
    ASSUME LineInv, Restore
    PROVE  LineInv'
  <1> USE DEF Restore, hardware, keyboard
  <1>1. AfterTest \in {"int15", "ps2", "fast", "begin", "done"}
      BY DEF AfterTest, LineInv, LineTypeOK
  <1>2. AfterTest = "begin" => round + 1 < Rounds
      BY DEF AfterTest, LineInv, LineTypeOK
  <1>3. round' \in 0..(Rounds - 1) /\ test' \in 1..4
      BY <1>2, A20Assumption DEF NextRound, LineInv, LineTypeOK
  <1>4. pc' \in {"int15", "ps2", "fast", "begin", "done"} /\ mem' \in [{"low", "high"} -> Bytes]
        /\ mem'["low"] = OldLow
      BY <1>1, BytesType DEF LineInv, LineTypeOK, ByteKept, Testing
  <1>5. LineTypeOK'
      BY <1>3, <1>4, A20Assumption DEF LineInv, LineTypeOK
  <1>6. ByteKept'
      BY <1>4 DEF ByteKept, Testing
  <1>7. TestKnows'
      BY <1>4 DEF LineInv, TestKnows
  <1>8. PortsKept'
      BY <1>4 DEF LineInv, PortsKept
  <1> QED
      BY <1>5, <1>6, <1>7, <1>8 DEF LineInv

\* The BIOS call and the system control port: the test comes next.
LEMMA TurnOnInv ==
    ASSUME LineInv, Int15 \/ EnableFastA20
    PROVE  LineInv'
  <1> USE DEF hardware, keyboard, tester, TurnOn
  <1>1. CASE Int15
      BY <1>1 DEF Int15, LineInv, LineTypeOK, ByteKept, TestKnows, PortsKept, Testing
  <1>2. CASE EnableFastA20
    <2>1. portA' \subseteq PortBits /\ "reset" \notin portA'
        BY <1>2 DEF EnableFastA20, FastBits, PortBits, LineInv, LineTypeOK
    <2> QED
        BY <1>2, <2>1
        DEF EnableFastA20, LineInv, LineTypeOK, ByteKept, TestKnows, PortsKept, Testing
  <1> QED
      BY <1>1, <1>2

\* One DrainBuffers().  Without a controller the first one does not succeed.
LEMMA DrainInv ==
    ASSUME LineInv, DrainBuffers
    PROVE  LineInv'
  <1> USE DEF hardware, keyboard, tester
  <1>1. ASSUME NEW ok \in BOOLEAN, pc = "drain", DrainReturns(ok), ok => present
        PROVE  LineInv'
    <2>1. AfterDrain(drain, ok) \in {"command", "fast", "data", "null", "begin"}
          /\ (AfterDrain(drain, ok) \in {"command", "data", "null"} => present)
        BY <1>1 DEF AfterDrain, LineInv, LineTypeOK, PortsKept
    <2> QED
        BY <1>1, <2>1, A20Assumption
        DEF DrainReturns, LineInv, LineTypeOK, ByteKept, TestKnows, PortsKept, Testing
  <1>2. CASE DrainTimesOut
      BY <1>1, <1>2 DEF DrainTimesOut
  <1>3. ASSUME NEW status \in Statuses, Drained(status) \/ NoController(status)
        PROVE  LineInv'
      BY <1>1, <1>3 DEF Statuses, Drained, NoController
  <1>4. ASSUME NEW status \in Statuses, PollAgain(status)
        PROVE  LineInv'
    <2>1. poll' \in 0..Polls /\ ffCount' \in 0..(MaxFF + 1)
        BY <1>4, A20Assumption DEF PollAgain, LineInv, LineTypeOK
    <2> QED
        BY <1>4, <2>1
        DEF PollAgain, LineInv, LineTypeOK, ByteKept, TestKnows, PortsKept, Testing
  <1> QED
      BY <1>2, <1>3, <1>4 DEF DrainBuffers

\* The bytes for the controller.
LEMMA ControllerInv ==
    ASSUME LineInv,
           EnableA20Gate \/ Command \/ (\E lost \in BOOLEAN : Data(lost)) \/ NullCommand
    PROVE  LineInv'
  <1> USE A20Assumption DEF hardware, keyboard, tester, BeginDrain, TurnOn
  <1>1. CASE EnableA20Gate
      BY <1>1 DEF EnableA20Gate, LineInv, LineTypeOK, ByteKept, TestKnows, PortsKept, Testing
  <1>2. CASE Command
      BY <1>2 DEF Command, LineInv, LineTypeOK, ByteKept, TestKnows, PortsKept, Testing
  <1>3. ASSUME NEW lost \in BOOLEAN, Data(lost)
        PROVE  LineInv'
    <2>1. rising' \in BOOLEAN
        BY <1>3 DEF Data, LineInv, LineTypeOK
    <2>2. LineTypeOK'
        BY <1>3, <2>1 DEF Data, LineInv, LineTypeOK
    <2> QED
        BY <1>3, <2>2 DEF Data, LineInv, ByteKept, TestKnows, PortsKept, Testing
  <1>4. CASE NullCommand
      BY <1>4 DEF NullCommand, LineInv, LineTypeOK, ByteKept, TestKnows, PortsKept, Testing
  <1> QED
      BY <1>1, <1>2, <1>3, <1>4

\* The line rises, at any time.
LEMMA GateRisesInv ==
    ASSUME LineInv, GateRises
    PROVE  LineInv'
  BY DEF GateRises, LineInv, LineTypeOK, ByteKept, TestKnows, PortsKept, Testing, tester,
         keyboard

\* Every step of the program and of the hardware keeps the invariant.
LEMMA LineNextInv ==
    ASSUME LineInv, LineNext
    PROVE  LineInv'
  BY TestBeginInv, PokeLowInv, PokeHighInv, PeekInv, RestoreInv, TurnOnInv, DrainInv,
     ControllerInv, GateRisesInv
  DEF LineNext, EnableA20, TestA20

-----------------------------------------------------------------------------
(* The sizes that SetMemoryMap() adds up entry by entry. *)

Kilobytes == [lower : 0..(CountSpace - 1), upper : 0..(CountSpace - 1)]
NoKilobytes == [lower |-> 0, upper |-> 0]
Entry == Regions \cup {NoRegion}

\* The fields of an entry are numbers.
LEMMA EntryType ==
    ASSUME NEW r \in Entry
    PROVE  r.base \in Nat /\ r.size \in Nat /\ r.type \in Nat
  BY MemoryMapAssumption DEF Entry, NoRegion

\* A count of kilobytes fits into its field.
LEMMA CountType ==
    ASSUME NEW r \in Entry
    PROVE  (r.size \div Kilo) % CountSpace \in 0..(CountSpace - 1)
  <1>1. r.size \div Kilo \in Int
      BY EntryType, MemoryMapAssumption
  <1>2. ASSUME NEW q \in Int PROVE q % CountSpace \in 0..(CountSpace - 1)
      BY MemoryMapAssumption
  <1> QED
      BY <1>1, <1>2

\* One entry of the loop of SetMemoryMap().
LEMMA SizesAfterType ==
    ASSUME NEW s \in Kilobytes, NEW r \in Entry
    PROVE  SizesAfter(s, r) \in Kilobytes
  BY CountType DEF SizesAfter, Kilobytes

\* The loop of SetMemoryMap() has a history, which ends with its result.
LEMMA SizesHistory ==
    ASSUME NEW n \in 0..MAX_COUNT, ent \in [0..(MAX_COUNT - 1) -> Entry]
    PROVE  \E u \in [0..n -> Kilobytes] :
            /\ u[0] = NoKilobytes
            /\ \A i \in 1..n : u[i] = SizesAfter(u[i - 1], ent[i - 1])
            /\ Sizes(n) = u[n]
  <1> DEFINE F == [p \in Kilobytes \X (1..n) |-> SizesAfter(p[1], ent[p[2] - 1])]
             E(g) == [i \in 0..n |-> IF i = 0 THEN [lower |-> 0, upper |-> 0]
                                     ELSE SizesAfter(g[i - 1], ent[i - 1])]
             u == CHOOSE g : g = E(g)
  <1>1. n \in Nat /\ NoKilobytes \in Kilobytes
      BY MemoryMapAssumption DEF Kilobytes, NoKilobytes
  <1>2. Keeps(F, n, Kilobytes)
    <2> SUFFICES ASSUME NEW s \in Kilobytes, NEW i \in 1..n
                 PROVE  SizesAfter(s, ent[i - 1]) \in Kilobytes
        BY DEF Keeps
    <2>1. ent[i - 1] \in Entry
        BY MemoryMapAssumption
    <2> QED
        BY <2>1, SizesAfterType
  <1>3. PICK f \in [0..n -> Kilobytes] : IsHistory(f, n, NoKilobytes, F)
    <2> HIDE DEF F
    <2> QED
        BY <1>1, <1>2, HistoryExists
  <1>4. /\ f[0] = NoKilobytes
        /\ \A i \in 1..n : f[i] = SizesAfter(f[i - 1], ent[i - 1])
    <2>1. ASSUME NEW i \in 1..n PROVE F[<<f[i - 1], i>>] = SizesAfter(f[i - 1], ent[i - 1])
        OBVIOUS
    <2> QED
        BY <1>3, <2>1 DEF IsHistory
  <1>5. f = E(f)
    <2>1. \A i \in 0..n : f[i] = E(f)[i]
        BY <1>4 DEF NoKilobytes
    <2> QED
        BY <2>1
  <1>6. u = E(u)
    <2> HIDE DEF E
    <2> QED
        BY <1>5, Zenon
  <1>7. u[0] = NoKilobytes /\ \A i \in 1..n : u[i] = SizesAfter(u[i - 1], ent[i - 1])
    <2> HIDE DEF u
    <2> QED
        BY <1>1, <1>6 DEF NoKilobytes
  <1>8. u \in [0..n -> Kilobytes]
    <2> HIDE DEF u
    <2> DEFINE S == {i \in 0..n : u[i] \in Kilobytes}
    <2>1. 0 \in S
        BY <1>1, <1>7
    <2>2. \A i \in 0..(n - 1) : i \in S => i + 1 \in S
      <3> TAKE i \in 0..(n - 1)
      <3> HAVE i \in S
      <3>1. i + 1 \in 1..n /\ (i + 1) - 1 = i /\ ent[i] \in Entry
          BY MemoryMapAssumption
      <3> QED
          BY <3>1, <1>7, SizesAfterType
    <2>3. \A i \in 0..n : i \in S
      <3> HIDE DEF S
      <3> QED
          BY <1>1, <2>1, <2>2, UpTo
    <2> QED
        BY <1>6, <2>3
  <1>9. Sizes(n) = u[n]
      BY DEF Sizes
  <1> QED
    <2> HIDE DEF u
    <2> QED
        BY <1>7, <1>8, <1>9

-----------------------------------------------------------------------------
(* The inductive invariant of the memory map. *)

\* A region counts for an area of memory, and v is the size of the last such.
Counts(r, area) == Usable(r) /\ r.base \in area
IsLastSize(v, area) ==
    \/ v = 0 /\ \A i \in 1..Len(reported) : ~Counts(reported[i], area)
    \/ \E i \in 1..Len(reported) :
        /\ Counts(reported[i], area)
        /\ \A j \in (i + 1)..Len(reported) : ~Counts(reported[j], area)
        /\ v = (reported[i].size \div Kilo) % CountSpace

LowArea == 0..(LowEnd - 1)
HighArea == LowEnd..(HighEnd - 1)

\* The map holds what the BIOS reported, in order.
EntriesKept ==
    /\ reported \in Seq(Regions)
    /\ step = "wait" => reported = <<>>
    /\ step = "load" => count < MAX_COUNT
    /\ step \in {"load", "loaded", "print", "walk", "halt", "scroll"} =>
        count = Len(reported) /\ \A i \in 1..count : ent[i - 1] = reported[i]

\* So does the array the kernel gets, and the sizes are those of the map.
InfoKept ==
    step \in {"print", "walk", "halt", "scroll"} =>
        /\ info.length = count * SizeofMmap
        /\ \A i \in 0..(count - 1) :
            /\ i * SizeofMmap \in DOMAIN info.array
            /\ info.array[i * SizeofMmap] = [length |-> NextLength, region |-> reported[i + 1]]
        /\ IsLastSize(info.lower, LowArea) /\ IsLastSize(info.upper, HighArea)

\* The kernel has printed the first lines, and stands at the entry after them
\* as long as there is a row for the next line.
LinesKept ==
    /\ shown = [low |-> shown.low, high |-> shown.high, lines |-> shown.lines]
    /\ shown.lines \in Seq({Line(r) : r \in Regions})
    /\ step \in {"wait", "load", "loaded", "print"} => shown.lines = <<>>
    /\ step \in {"walk", "halt", "scroll"} =>
        /\ shown.low = Decimal(info.lower) /\ shown.high = Decimal(info.upper)
        /\ Len(shown.lines) <= count
        /\ \A i \in 1..Len(shown.lines) : shown.lines[i] = Line(reported[i])
    /\ step = "walk" =>
        mmap = Len(shown.lines) * SizeofMmap /\ HeadRows + Len(shown.lines) < Rows
    /\ step = "halt" => Len(shown.lines) = count
    /\ step = "scroll" => Len(shown.lines) = Rows - HeadRows

MapInv == MapTypeOK /\ EntriesKept /\ InfoKept /\ LinesKept

\* Nothing was loaded and nothing printed.
LEMMA MapInitInv == MapInit => MapInv
  <1> SUFFICES ASSUME MapInit PROVE MapInv
      OBVIOUS
  <1>1. MapTypeOK
    <2>1. /\ info.length \in 0..(MAX_COUNT * SizeofMmap)
          /\ info.lower \in 0..(CountSpace - 1) /\ info.upper \in 0..(CountSpace - 1)
        BY MemoryMapAssumption DEF MapInit, NoInfo, SizeofMmap
    <2>2. ent \in [0..(MAX_COUNT - 1) -> Regions \cup {NoRegion}] /\ count \in 0..MAX_COUNT
        BY MemoryMapAssumption DEF MapInit
    <2> QED
        BY <2>1, <2>2 DEF MapInit, MapTypeOK
  <1>2. EntriesKept
      BY DEF MapInit, EntriesKept
  <1>3. InfoKept /\ LinesKept
      BY DEF MapInit, InfoKept, LinesKept, NothingShown
  <1> QED
      BY <1>1, <1>2, <1>3 DEF MapInv

\* A step of EnableA20() changes none of it.
LEMMA MapStutter ==
    ASSUME MapInv, UNCHANGED mapVars
    PROVE  MapInv'
  <1>1. UNCHANGED <<step, ebx, temp, ent, count, info, mmap, shown, reported>>
      BY DEF mapVars
  <1>2. MapTypeOK'
      BY <1>1 DEF MapInv, MapTypeOK
  <1>3. EntriesKept'
      BY <1>1 DEF MapInv, EntriesKept
  <1>4. InfoKept'
      BY <1>1 DEF MapInv, InfoKept, IsLastSize
  <1>5. LinesKept'
      BY <1>1 DEF MapInv, LinesKept
  <1> QED
      BY <1>2, <1>3, <1>4, <1>5 DEF MapInv

\* Load() begins with an empty map.
LEMMA BeginLoadInv ==
    ASSUME MapInv, BeginLoad
    PROVE  MapInv'
  <1> USE DEF BeginLoad
  <1>1. MapTypeOK'
      BY MemoryMapAssumption DEF MapInv, MapTypeOK
  <1>2. EntriesKept'
      BY MemoryMapAssumption DEF MapInv, EntriesKept
  <1>3. InfoKept' /\ LinesKept'
      BY DEF MapInv, InfoKept, LinesKept
  <1> QED
      BY <1>1, <1>2, <1>3 DEF MapInv

\* An entry of the BIOS goes to the end of the map.
LEMMA LoadEntryInv ==
    ASSUME MapInv, NEW r \in Regions, NEW cont \in {0, 1}, LoadEntry(r, cont)
    PROVE  MapInv'
  <1> USE DEF LoadEntry
  <1>1. /\ count \in 0..(MAX_COUNT - 1) /\ MAX_COUNT \in Nat
        /\ count = Len(reported) /\ reported \in Seq(Regions)
        /\ \A i \in 1..count : ent[i - 1] = reported[i]
      BY MemoryMapAssumption DEF MapInv, EntriesKept, MapTypeOK
  <1>2. /\ reported' \in Seq(Regions) /\ Len(reported') = count + 1
        /\ \A i \in 1..count : reported'[i] = reported[i]
        /\ reported'[count + 1] = r
      BY <1>1
  <1>3. /\ ent' \in [0..(MAX_COUNT - 1) -> Regions \cup {NoRegion}]
        /\ ent'[count] = r /\ \A i \in 1..count : ent'[i - 1] = ent[i - 1]
      BY <1>1 DEF MapInv, MapTypeOK
  <1>4. MapTypeOK'
    <2>1. \A i \in 1..Len(reported') : reported'[i] \in Regions
        BY <1>2
    <2> QED
        BY <1>1, <1>3, <2>1 DEF MapInv, MapTypeOK
  <1>5. EntriesKept'
    <2>1. \A i \in 1..(count + 1) : ent'[i - 1] = reported'[i]
      <3> TAKE i \in 1..(count + 1)
      <3>1. CASE i = count + 1
          BY <3>1, <1>1, <1>2, <1>3
      <3>2. CASE i # count + 1
        <4>1. i \in 1..count
            BY <3>2, <1>1
        <4> QED
            BY <4>1, <1>1, <1>2, <1>3
      <3> QED
          BY <3>1, <3>2
    <2>2. step' = "load" => count + 1 < MAX_COUNT
        BY DEF LoadGoesOn
    <2>3. step' \in {"load", "loaded"}
        OBVIOUS
    <2> QED
        BY <1>1, <1>2, <2>1, <2>2, <2>3 DEF EntriesKept
  <1>6. InfoKept' /\ LinesKept'
      BY DEF MapInv, InfoKept, LinesKept
  <1> QED
      BY <1>4, <1>5, <1>6 DEF MapInv

\* The end of the list, and an error: the entry after the last is written, too.
LEMMA LoadStopsInv ==
    ASSUME MapInv, LoadEnds \/ LoadFails
    PROVE  MapInv'
  <1>1. /\ count \in 0..(MAX_COUNT - 1) /\ MAX_COUNT \in Nat /\ step = "load"
        /\ count = Len(reported) /\ \A i \in 1..count : ent[i - 1] = reported[i]
      BY MemoryMapAssumption DEF MapInv, EntriesKept, MapTypeOK, LoadEnds, LoadFails
  <1>2. /\ ent' \in [0..(MAX_COUNT - 1) -> Regions \cup {NoRegion}]
        /\ \A i \in 1..count : ent'[i - 1] = ent[i - 1]
      BY <1>1 DEF MapInv, MapTypeOK, LoadEnds, LoadFails
  <1>3. MapTypeOK'
    <2>1. /\ step' \in {"loaded", "fail"} /\ count' \in {count, 0}
          /\ UNCHANGED <<ebx, temp, info, mmap, reported>>
        BY <1>1 DEF LoadEnds, LoadFails
    <2>2. count' \in 0..MAX_COUNT
        BY <1>1, <2>1
    <2>3. MapTypeOK
        BY DEF MapInv
    <2>4. step' \in {"wait", "load", "loaded", "fail", "print", "walk", "halt", "scroll"}
        BY <2>1, Zenon
    <2>5. ent' \in [0..(MAX_COUNT - 1) -> Regions \cup {NoRegion}]
        BY <1>2
    <2> QED
        BY <2>1, <2>2, <2>3, <2>4, <2>5 DEF MapTypeOK
  <1>4. EntriesKept'
      BY <1>1, <1>2 DEF MapInv, EntriesKept, LoadEnds, LoadFails
  <1>5. step' \in {"loaded", "fail"} /\ shown' = shown /\ LinesKept
      BY <1>1 DEF MapInv, LoadEnds, LoadFails
  <1>6. InfoKept'
      BY <1>5 DEF InfoKept
  <1>7. LinesKept'
      BY <1>1, <1>5 DEF LinesKept
  <1> QED
      BY <1>3, <1>4, <1>6, <1>7 DEF MapInv

\* What the loop of SetMemoryMap() leaves is the size of the last region of
\* each area.
LEMMA SizesAreLast ==
    ASSUME MapInv, step = "loaded"
    PROVE  /\ Sizes(count) \in Kilobytes
           /\ IsLastSize(Sizes(count).lower, LowArea)
           /\ IsLastSize(Sizes(count).upper, HighArea)
  <1>1. /\ count \in 0..MAX_COUNT /\ count \in Nat /\ count = Len(reported)
        /\ reported \in Seq(Regions)
        /\ ent \in [0..(MAX_COUNT - 1) -> Entry]
        /\ \A i \in 1..count : ent[i - 1] = reported[i]
      BY MemoryMapAssumption DEF MapInv, MapTypeOK, EntriesKept, Entry
  <1>2. PICK u \in [0..count -> Kilobytes] :
            /\ u[0] = NoKilobytes
            /\ \A i \in 1..count : u[i] = SizesAfter(u[i - 1], ent[i - 1])
            /\ Sizes(count) = u[count]
      BY <1>1, SizesHistory
  <1> DEFINE LastUpTo(v, m, area) ==
                \/ v = 0 /\ \A i \in 1..m : ~Counts(reported[i], area)
                \/ \E i \in 1..m :
                    /\ Counts(reported[i], area)
                    /\ \A j \in (i + 1)..m : ~Counts(reported[j], area)
                    /\ v = (reported[i].size \div Kilo) % CountSpace
             S == {m \in 0..count : /\ LastUpTo(u[m].lower, m, LowArea)
                                    /\ LastUpTo(u[m].upper, m, HighArea)}
  <1>3. ASSUME NEW v, NEW m \in 0..(count - 1), NEW area, LastUpTo(v, m, area),
               ~Counts(reported[m + 1], area)
        PROVE  LastUpTo(v, m + 1, area)
    <2>1. \A i \in 1..(m + 1) : i \in 1..m \/ i = m + 1
        OBVIOUS
    <2>2. CASE v = 0 /\ \A i \in 1..m : ~Counts(reported[i], area)
        BY <1>3, <2>1, <2>2
    <2>3. ASSUME NEW i \in 1..m, Counts(reported[i], area),
                 \A j \in (i + 1)..m : ~Counts(reported[j], area),
                 v = (reported[i].size \div Kilo) % CountSpace
          PROVE  LastUpTo(v, m + 1, area)
      <3>1. i \in 1..(m + 1) /\ \A j \in (i + 1)..(m + 1) : ~Counts(reported[j], area)
          BY <1>3, <2>3
      <3> QED
          BY <2>3, <3>1
    <2> QED
        BY <1>3, <2>2, <2>3
  <1>4. ASSUME NEW m \in 0..(count - 1), NEW area, Counts(reported[m + 1], area)
        PROVE  LastUpTo((reported[m + 1].size \div Kilo) % CountSpace, m + 1, area)
    <2>1. m + 1 \in 1..(m + 1) /\ ((m + 1) + 1)..(m + 1) = {}
        OBVIOUS
    <2> QED
        BY <1>4, <2>1
  <1> HIDE DEF LastUpTo
  <1>5. 0 \in S
    <2>1. u[0].lower = 0 /\ u[0].upper = 0 /\ 0 \in 0..count
        BY <1>1, <1>2 DEF NoKilobytes
    <2>2. \A area : LastUpTo(0, 0, area)
        BY DEF LastUpTo
    <2> QED
        BY <2>1, <2>2
  <1>6. \A m \in 0..(count - 1) : m \in S => m + 1 \in S
    <2> TAKE m \in 0..(count - 1)
    <2> HAVE m \in S
    <2> DEFINE r == reported[m + 1]
               k == (r.size \div Kilo) % CountSpace
    <2>1. /\ m + 1 \in 1..count /\ (m + 1) - 1 = m /\ u[m] \in Kilobytes
          /\ r \in Entry /\ u[m + 1] = SizesAfter(u[m], r)
      <3>1. m + 1 \in 1..count /\ (m + 1) - 1 = m /\ m \in 0..count
          BY <1>1
      <3>2. u[m + 1] = SizesAfter(u[m], ent[m]) /\ ent[m] = r /\ r \in Regions
          BY <1>1, <1>2, <3>1
      <3> QED
          BY <3>1, <3>2 DEF Entry
    <2>2. r.base \in Nat
        BY <2>1, EntryType
    <2>3. CASE ~Usable(r) \/ r.base >= HighEnd
      <3>1. u[m + 1] = u[m]
          BY <2>1, <2>3 DEF SizesAfter
      <3>2. ~Counts(r, LowArea) /\ ~Counts(r, HighArea)
          BY <2>2, <2>3, MemoryMapAssumption DEF Counts, LowArea, HighArea
      <3> QED
          BY <1>3, <2>1, <3>1, <3>2
    <2>4. CASE Usable(r) /\ r.base < HighEnd /\ r.base < LowEnd
      <3>1. u[m + 1].lower = k /\ u[m + 1].upper = u[m].upper
        <4>1. u[m + 1] = [u[m] EXCEPT !.lower = k]
            BY SMTT(20), <2>1, <2>2, <2>4, MemoryMapAssumption DEF SizesAfter
        <4> QED
            BY <2>1, <4>1 DEF Kilobytes
      <3>2. Counts(r, LowArea) /\ ~Counts(r, HighArea)
          BY <2>2, <2>4, MemoryMapAssumption DEF Counts, LowArea, HighArea
      <3> QED
          BY <1>3, <1>4, <2>1, <3>1, <3>2
    <2>5. CASE Usable(r) /\ r.base < HighEnd /\ r.base >= LowEnd
      <3>1. u[m + 1].upper = k /\ u[m + 1].lower = u[m].lower
        <4>1. u[m + 1] = [u[m] EXCEPT !.upper = k]
            BY SMTT(20), <2>1, <2>2, <2>5, MemoryMapAssumption DEF SizesAfter
        <4> QED
            BY <2>1, <4>1 DEF Kilobytes
      <3>2. ~Counts(r, LowArea) /\ Counts(r, HighArea)
          BY <2>2, <2>5, MemoryMapAssumption DEF Counts, LowArea, HighArea
      <3> QED
          BY <1>3, <1>4, <2>1, <3>1, <3>2
    <2> QED
        BY <2>2, <2>3, <2>4, <2>5, MemoryMapAssumption
  <1>7. count \in S
    <2> HIDE DEF S
    <2>1. \A i \in 0..count : i \in S
        BY <1>1, <1>5, <1>6, UpTo
    <2> QED
        BY <1>1, <2>1
  <1>8. LastUpTo(u[count].lower, count, LowArea) /\ LastUpTo(u[count].upper, count, HighArea)
      BY <1>7
  <1>9. u[count] \in Kilobytes
      BY <1>1
  <1> QED
      BY <1>1, <1>2, <1>8, <1>9 DEF LastUpTo, IsLastSize

\* MBGenInfo() hands over the whole map.
LEMMA MBGenInfoInv ==
    ASSUME MapInv, MBGenInfo
    PROVE  MapInv'
  <1>1. /\ count \in 0..MAX_COUNT /\ MAX_COUNT \in Nat /\ step = "loaded" /\ step' = "print"
        /\ count = Len(reported) /\ \A i \in 1..count : ent[i - 1] = reported[i]
        /\ UNCHANGED <<ebx, temp, ent, count, mmap, shown, reported>>
      BY MemoryMapAssumption DEF MapInv, MapTypeOK, EntriesKept, MBGenInfo
  <1> DEFINE z == Sizes(count)
  <1>2. z \in Kilobytes /\ IsLastSize(z.lower, LowArea) /\ IsLastSize(z.upper, HighArea)
      BY <1>1, SizesAreLast
  <1>3. /\ info'.array = MmapArray(count) /\ info'.length = count * SizeofMmap
        /\ info'.lower = z.lower /\ info'.upper = z.upper
      BY DEF MBGenInfo, MBInfo
  <1> HIDE DEF z
  <1>4. MapTypeOK'
    <2>1. count * SizeofMmap \in 0..(MAX_COUNT * SizeofMmap)
        BY <1>1 DEF SizeofMmap
    <2> QED
        BY <1>1, <1>2, <1>3, <2>1 DEF MapInv, MapTypeOK, Kilobytes
  <1>5. EntriesKept'
      BY <1>1 DEF MapInv, EntriesKept
  <1>6. InfoKept'
    <2>1. ASSUME NEW i \in 0..(count - 1)
          PROVE  /\ i * SizeofMmap \in DOMAIN info'.array
                 /\ info'.array[i * SizeofMmap] = [length |-> NextLength, region |-> reported[i + 1]]
      <3>1. (i * SizeofMmap) \div SizeofMmap = i
          BY <1>1 DEF SizeofMmap
      <3>2. ent[i] = reported[i + 1]
        <4>1. i + 1 \in 1..count /\ (i + 1) - 1 = i
            BY <1>1
        <4> QED
            BY <1>1, <4>1
      <3> QED
          BY <1>3, <3>1, <3>2 DEF MmapArray
    <2> QED
        BY <1>1, <1>2, <1>3, <2>1 DEF InfoKept, IsLastSize
  <1>7. LinesKept'
      BY <1>1 DEF MapInv, LinesKept
  <1> QED
      BY <1>4, <1>5, <1>6, <1>7 DEF MapInv

-----------------------------------------------------------------------------
(* The numbers on the screen. *)

\* Reading digits from the left: u[i] is the number the first i digits make.
Reads(u, s, b) ==
    /\ u \in [0..Len(s) -> Nat]
    /\ u[0] = 0
    /\ \A i \in 1..Len(s) : u[i] = u[i - 1] * b + s[i]

\* Value() reads digits this way.
LEMMA ValueHistory ==
    ASSUME NEW s \in Seq(Nat), NEW b \in Nat
    PROVE  \E u : Reads(u, s, b) /\ Value(s, b) = u[Len(s)]
  <1> DEFINE Step(v, i) == v * b + s[i]
             n == Len(s)
             F == [p \in Nat \X (1..n) |-> Step(p[1], p[2])]
             E(g) == [i \in 0..n |-> IF i = 0 THEN 0 ELSE g[i - 1] * b + s[i]]
             u == CHOOSE g : g = E(g)
  <1>1. n \in Nat /\ \A v \in Nat, i \in 1..n : Step(v, i) \in Nat
    <2>1. ASSUME NEW v \in Nat, NEW d \in Nat PROVE v * b + d \in Nat
        OBVIOUS
    <2>2. n \in Nat /\ \A i \in 1..n : s[i] \in Nat
        OBVIOUS
    <2> QED
        BY <2>1, <2>2
  <1>2. Keeps(F, n, Nat)
    <2> HIDE DEF Step
    <2> QED
        BY <1>1 DEF Keeps
  <1>3. PICK f \in [0..n -> Nat] : IsHistory(f, n, 0, F)
    <2> HIDE DEF F, n
    <2> QED
        BY <1>1, <1>2, HistoryExists
  <1>4. f[0] = 0 /\ \A i \in 1..n : f[i] = Step(f[i - 1], i)
    <2> HIDE DEF Step, n
    <2>1. ASSUME NEW i \in 1..n PROVE F[<<f[i - 1], i>>] = Step(f[i - 1], i)
      <3>1. f[i - 1] \in Nat
          BY <1>1
      <3> QED
          BY <3>1
    <2> QED
        BY <1>3, <2>1 DEF IsHistory
  <1>5. f = E(f)
    <2>1. \A i \in 0..n : f[i] = E(f)[i]
        BY <1>1, <1>4
    <2> QED
        BY <2>1
  <1>6. u = E(u)
    <2> HIDE DEF E
    <2> QED
        BY <1>5, Zenon
  <1>7. Value(s, b) = u[n]
      BY DEF Value
  <1> HIDE DEF u, n
  <1>8. u[0] = 0 /\ \A i \in 1..n : u[i] = Step(u[i - 1], i)
      BY <1>1, <1>6
  <1>9. \A i \in 0..n : u[i] \in Nat
    <2> HIDE DEF Step
    <2>1. ASSUME NEW i \in 1..n, u[i - 1] \in Nat PROVE u[i] \in Nat
        BY <1>1, <1>8, <2>1
    <2>2. Stays(u, n, Nat)
        BY <1>8, <2>1 DEF Stays
    <2> QED
        BY <1>1, <2>2, HistoryType
  <1>10. u \in [0..n -> Nat]
      BY <1>6, <1>9
  <1>11. Reads(u, s, b)
      BY <1>8, <1>10 DEF Reads, n
  <1> QED
      BY <1>7, <1>11 DEF n

\* No digits are zero, and one more digit is the lowest.
LEMMA ValueAppend ==
    ASSUME NEW s \in Seq(Nat), NEW b \in Nat, NEW d \in Nat
    PROVE  Value(<<>>, b) = 0 /\ Value(s, b) \in Nat
           /\ Value(Append(s, d), b) = Value(s, b) * b + d
  <1>1. Value(<<>>, b) = 0
    <2>1. <<>> \in Seq(Nat) /\ Len(<<>>) = 0
        OBVIOUS
    <2>2. PICK u : Reads(u, <<>>, b) /\ Value(<<>>, b) = u[Len(<<>>)]
        BY <2>1, ValueHistory
    <2> QED
        BY <2>1, <2>2 DEF Reads
  <1> DEFINE t == Append(s, d)
             n == Len(s)
  <1>2. /\ t \in Seq(Nat) /\ n \in Nat /\ Len(t) = n + 1
        /\ (\A i \in 1..n : t[i] = s[i]) /\ t[n + 1] = d
      OBVIOUS
  <1>3. PICK u : Reads(u, s, b) /\ Value(s, b) = u[n]
      BY ValueHistory
  <1> HIDE DEF t
  <1>4. PICK w : Reads(w, t, b) /\ Value(t, b) = w[n + 1]
      BY <1>2, ValueHistory
  <1> HIDE DEF n
  <1>5. \A i \in 0..n : w[i] = u[i]
    <2> DEFINE S == {i \in 0..n : w[i] = u[i]}
    <2>1. 0 \in S
        BY <1>2, <1>3, <1>4 DEF Reads
    <2>2. \A i \in 0..(n - 1) : i \in S => i + 1 \in S
      <3> TAKE i \in 0..(n - 1)
      <3> HAVE i \in S
      <3>1. i + 1 \in 1..n /\ i + 1 \in 1..(n + 1) /\ (i + 1) - 1 = i
          BY <1>2
      <3>2. w[i + 1] = w[i] * b + t[i + 1] /\ u[i + 1] = u[i] * b + s[i + 1]
          BY <1>2, <1>3, <1>4, <3>1 DEF Reads, n
      <3>3. t[i + 1] = s[i + 1] /\ w[i] = u[i]
          BY <1>2, <3>1
      <3> QED
          BY <3>1, <3>2, <3>3
    <2> HIDE DEF S
    <2>3. \A i \in 0..n : i \in S
        BY <1>2, <2>1, <2>2, UpTo
    <2> QED
        BY <2>3 DEF S
  <1>6. w[n + 1] = w[n] * b + d
    <2>1. n + 1 \in 1..(n + 1) /\ (n + 1) - 1 = n
        BY <1>2
    <2> QED
        BY <1>2, <1>4, <2>1 DEF Reads
  <1>7. w[n] = u[n] /\ u[n] \in Nat
      BY <1>2, <1>3, <1>5 DEF Reads, n
  <1>8. Value(t, b) = u[n] * b + d
      BY <1>4, <1>6, <1>7
  <1> QED
      BY <1>1, <1>3, <1>7, <1>8 DEF t

\* What is left of x after each digit of WriteHex().
Shifts(u, x) ==
    /\ u \in [0..HexDigits -> Nat] /\ u[0] = x
    /\ \A i \in 1..HexDigits : u[i] = u[i - 1] \div HexBase

\* The loop of WriteHex() shifts the number digit by digit.
LEMMA HexHistory ==
    ASSUME NEW x \in Nat
    PROVE  \E u : Shifts(u, x) /\ Hex(x) = [i \in 1..HexDigits |-> u[HexDigits - i] % HexBase]
  <1> DEFINE Step(v) == v \div HexBase
             F == [p \in Nat \X (1..HexDigits) |-> Step(p[1])]
             E(g) == [i \in 0..HexDigits |-> IF i = 0 THEN x ELSE Step(g[i - 1])]
             u == CHOOSE g : g = E(g)
  <1>1. HexDigits \in Nat /\ \A v \in Nat : Step(v) \in Nat
      BY MemoryMapAssumption
  <1>2. Keeps(F, HexDigits, Nat)
    <2> HIDE DEF Step
    <2> QED
        BY <1>1 DEF Keeps
  <1>3. PICK f \in [0..HexDigits -> Nat] : IsHistory(f, HexDigits, x, F)
    <2> HIDE DEF F
    <2> QED
        BY <1>1, <1>2, HistoryExists
  <1>4. f[0] = x /\ \A i \in 1..HexDigits : f[i] = Step(f[i - 1])
    <2> HIDE DEF Step
    <2>1. ASSUME NEW i \in 1..HexDigits PROVE F[<<f[i - 1], i>>] = Step(f[i - 1])
      <3>1. f[i - 1] \in Nat
          BY SMTT(20), <1>1
      <3> QED
          BY <3>1
    <2> QED
        BY <1>3, <2>1 DEF IsHistory
  <1>5. f = E(f)
    <2>1. \A i \in 0..HexDigits : f[i] = E(f)[i]
        BY <1>1, <1>4
    <2> QED
        BY <2>1
  <1>6. u = E(u)
    <2> HIDE DEF E
    <2> QED
        BY <1>5, Zenon
  <1>7. Hex(x) = [i \in 1..HexDigits |-> u[HexDigits - i] % HexBase]
      BY DEF Hex
  <1> HIDE DEF u
  <1>8. u[0] = x /\ \A i \in 1..HexDigits : u[i] = Step(u[i - 1])
    <2> HIDE DEF Step
    <2>1. 0 \in 0..HexDigits /\ \A i \in 1..HexDigits : i \in 0..HexDigits /\ i # 0
        BY <1>1
    <2>2. \A i \in 0..HexDigits : u[i] = IF i = 0 THEN x ELSE Step(u[i - 1])
        BY <1>6, Zenon
    <2> QED
        BY <2>1, <2>2
  <1>9. \A i \in 0..HexDigits : u[i] \in Nat
    <2> HIDE DEF Step
    <2>1. ASSUME NEW i \in 1..HexDigits, u[i - 1] \in Nat PROVE u[i] \in Nat
        BY <1>1, <1>8, <2>1
    <2>2. Stays(u, HexDigits, Nat)
        BY <1>8, <2>1 DEF Stays
    <2> QED
        BY <1>1, <2>2, HistoryType
  <1>10. u \in [0..HexDigits -> Nat]
      BY <1>6, <1>9
  <1>11. Shifts(u, x)
      BY <1>8, <1>10 DEF Shifts
  <1> QED
      BY <1>7, <1>11

\* A reader of the digits that WriteHex() makes of an address gets it back.
LEMMA HexReads ==
    ASSUME NEW x \in 0..(AddressSpace - 1)
    PROVE  Value(Hex(x), HexBase) = x
  <1> DEFINE D == HexDigits
             B == HexBase
             h == Hex(x)
  <1>1. D \in Nat /\ B \in Nat \ {0}
      BY MemoryMapAssumption
  <1>2. PICK p : Powers(p, B, D) /\ AddressSpace = p[D]
      BY <1>1, PowerHistory, MemoryMapAssumption
  <1>3. x \in Nat /\ x < p[D]
      BY <1>1, <1>2 DEF Powers
  <1>4. PICK l : Shifts(l, x) /\ h = [i \in 1..D |-> l[D - i] % B]
      BY <1>3, HexHistory
  <1>5. \A i \in 0..D : l[i] \in Nat /\ p[i] \in Nat
      BY <1>2, <1>4 DEF Powers, Shifts
  <1>6. h \in Seq(Nat) /\ Len(h) = D /\ \A i \in 1..D : h[i] = l[D - i] % B
    <2>1. ASSUME NEW i \in 1..D PROVE l[D - i] % B \in Nat
      <3>1. D - i \in 0..D
          BY <1>1
      <3>2. l[D - i] \in Nat
          BY <1>5, <3>1
      <3> HIDE DEF B
      <3> QED
          BY <1>1, <3>2
    <2>2. h \in [1..D -> Nat]
        BY <1>4, <2>1
    <2>3. h \in Seq(Nat) /\ Len(h) = D
        BY <1>1, <2>2
    <2> QED
        BY <1>4, <2>3
  <1>7. PICK u : Reads(u, h, B) /\ Value(h, B) = u[D]
      BY <1>1, <1>6, ValueHistory
  <1> HIDE DEF D, B, h
  <1>8. l[D] = 0
    <2> DEFINE S == {i \in 0..D : l[i] < p[D - i]}
    <2>1. 0 \in S
        BY <1>1, <1>3, <1>4 DEF Shifts, D
    <2>2. \A i \in 0..(D - 1) : i \in S => i + 1 \in S
      <3> TAKE i \in 0..(D - 1)
      <3> HAVE i \in S
      <3>1. /\ i + 1 \in 1..D /\ (i + 1) - 1 = i /\ D - i \in 1..D
            /\ (D - i) - 1 = D - (i + 1) /\ D - (i + 1) \in 0..D /\ i \in 0..D
          BY <1>1
      <3>2. l[i + 1] = l[i] \div B /\ p[D - i] = p[D - (i + 1)] * B
          BY <1>2, <1>4, <3>1 DEF Shifts, Powers, D, B
      <3>3. l[i] < p[D - (i + 1)] * B
          BY <3>2
      <3>4. l[i] \in Nat /\ p[D - (i + 1)] \in Nat
          BY <1>5, <3>1
      <3>5. l[i + 1] < p[D - (i + 1)]
          BY <1>1, <3>2, <3>3, <3>4, DivBelow
      <3> QED
          BY <3>1, <3>5
    <2> HIDE DEF S
    <2>3. \A i \in 0..D : i \in S
        BY <1>1, <2>1, <2>2, UpTo
    <2>4. D \in S
        BY <1>1, <2>3
    <2>5. l[D] < p[D - D] /\ D - D = 0 /\ l[D] \in Nat
        BY <1>1, <1>5, <2>4 DEF S
    <2> QED
        BY <1>2, <2>5 DEF Powers
  <1>9. \A i \in 0..D : u[i] = l[D - i]
    <2> DEFINE S == {i \in 0..D : u[i] = l[D - i]}
    <2>1. 0 \in S
        BY <1>1, <1>7, <1>8 DEF Reads
    <2>2. \A i \in 0..(D - 1) : i \in S => i + 1 \in S
      <3> TAKE i \in 0..(D - 1)
      <3> HAVE i \in S
      <3> DEFINE y == l[D - (i + 1)]
      <3>1. /\ i + 1 \in 1..D /\ (i + 1) - 1 = i /\ D - i \in 1..D
            /\ (D - i) - 1 = D - (i + 1) /\ D - (i + 1) \in 0..D /\ i \in 0..D
          BY <1>1
      <3>2. l[D - i] = y \div B /\ y \in Nat
          BY <1>4, <1>5, <3>1 DEF Shifts, D, B
      <3>3. u[i + 1] = u[i] * B + h[i + 1]
          BY <1>6, <1>7, <3>1 DEF Reads
      <3>4. h[i + 1] = y % B /\ u[i] = l[D - i]
          BY <1>6, <3>1
      <3> HIDE DEF y
      <3>5. y = (y \div B) * B + (y % B)
          BY <1>1, <3>2, Recombine, Zenon
      <3>6. u[i + 1] = y
          BY <3>2, <3>3, <3>4, <3>5, Zenon
      <3> QED
          BY <3>1, <3>6 DEF y
    <2> HIDE DEF S
    <2>3. \A i \in 0..D : i \in S
        BY <1>1, <2>1, <2>2, UpTo
    <2> QED
        BY <2>3 DEF S
  <1>10. u[D] = l[D - D] /\ D - D = 0
      BY <1>1, <1>9
  <1> QED
      BY <1>4, <1>7, <1>10 DEF Shifts, h, B

\* WriteDecimal() takes off the lowest digit until nothing is left.
LEMMA DecHistory ==
    /\ Dec \in [Nat -> Seq(Nat)] /\ Dec[0] = <<>>
    /\ \A x \in Nat \ {0} : Dec[x] = Append(Dec[x \div DecBase], x % DecBase)
  <1> DEFINE Cut(x) == x \div DecBase
             Low(x) == x % DecBase
             h == [x \in Nat |-> Cut(x)]
             F == [p \in Seq(Nat) \X Nat |-> Append(p[1], Low(p[2]))]
             E(g) == [x \in Nat |-> IF x = 0 THEN <<>> ELSE Append(g[Cut(x)], Low(x))]
             u == CHOOSE g : g = E(g)
  <1>1. \A x \in Nat : Cut(x) \in Nat /\ Low(x) \in Nat /\ (x # 0 => Cut(x) \in 0..(x - 1))
      BY MemoryMapAssumption
  <1>2. Dec = u
      BY DEF Dec
  <1> HIDE DEF Cut, Low
  <1>3. Falls(h)
      BY <1>1 DEF Falls
  <1>4. KeepsAll(F, Seq(Nat))
    <2>1. ASSUME NEW v \in Seq(Nat), NEW x \in Nat \ {0} PROVE F[<<v, x>>] \in Seq(Nat)
      <3>1. Low(x) \in Nat
          BY <1>1
      <3>2. Append(v, Low(x)) \in Seq(Nat)
          BY <3>1
      <3>3. F[<<v, x>>] = Append(v, Low(x))
        <4>1. <<v, x>> \in Seq(Nat) \X Nat /\ <<v, x>>[1] = v /\ <<v, x>>[2] = x
            OBVIOUS
        <4> QED
            BY <4>1, Zenon
      <3> QED
          BY <3>2, <3>3
    <2> QED
        BY <2>1 DEF KeepsAll
  <1>5. <<>> \in Seq(Nat)
      OBVIOUS
  <1>6. PICK f \in [Nat -> Seq(Nat)] : \A n \in Nat : IsDescent(f, n, <<>>, h, F)
    <2> HIDE DEF h, F
    <2> QED
        BY <1>3, <1>4, <1>5, DescentExists
  <1>7. f[0] = <<>> /\ \A x \in Nat \ {0} : f[x] = Append(f[Cut(x)], Low(x))
    <2>1. f[0] = <<>>
        BY <1>6 DEF IsDescent
    <2>2. ASSUME NEW x \in Nat \ {0} PROVE f[x] = Append(f[Cut(x)], Low(x))
      <3> HIDE DEF F
      <3>1. x \in 1..x /\ x \in Nat
          OBVIOUS
      <3>2. f[x] = F[<<f[h[x]], x>>]
          BY <1>6, <3>1 DEF IsDescent
      <3>3. h[x] = Cut(x) /\ f[Cut(x)] \in Seq(Nat)
          BY <1>1
      <3>4. F[<<f[Cut(x)], x>>] = Append(f[Cut(x)], Low(x))
        <4> DEFINE v == f[Cut(x)]
        <4>1. <<v, x>> \in Seq(Nat) \X Nat /\ <<v, x>>[1] = v /\ <<v, x>>[2] = x
            BY <3>3
        <4> HIDE DEF v
        <4>2. F[<<v, x>>] = Append(v, Low(x))
            BY <4>1, Zenon DEF F
        <4> QED
            BY <4>2 DEF v
      <3> QED
          BY <3>2, <3>3, <3>4
    <2> QED
        BY <2>1, <2>2
  <1>8. f = E(f)
    <2>1. \A x \in Nat : f[x] = E(f)[x]
        BY <1>7
    <2> QED
        BY <2>1
  <1>9. u = E(u)
    <2> HIDE DEF E
    <2> QED
        BY <1>8, Zenon
  <1> HIDE DEF u
  <1>10. u[0] = <<>> /\ \A x \in Nat \ {0} : u[x] = Append(u[Cut(x)], Low(x))
      BY <1>9
  <1>11. u = [x \in Nat |-> u[x]]
      BY <1>9
  <1> DEFINE T == {x \in Nat : u[x] \notin Seq(Nat)}
  <1>12. T = {}
    <2>1. SUFFICES ASSUME T # {} PROVE FALSE
        OBVIOUS
    <2>2. T \subseteq Nat
        OBVIOUS
    <2>3. PICK x \in T : \A y \in T : x <= y
      <3> HIDE DEF T
      <3> QED
          BY <2>1, <2>2, LeastNatural
    <2>4. x \in Nat /\ u[x] \notin Seq(Nat) /\ x # 0
        BY <1>5, <1>10, Zenon
    <2>5. Cut(x) \in 0..(x - 1) /\ Cut(x) \in Nat /\ Low(x) \in Nat
        BY <1>1, <2>4
    <2>6. Cut(x) \notin T
      <3> HIDE DEF T
      <3> QED
          BY <2>3, <2>4, <2>5
    <2>7. u[Cut(x)] \in Seq(Nat)
        BY <2>5, <2>6, Zenon
    <2>8. u[x] = Append(u[Cut(x)], Low(x))
        BY <1>10, <2>4
    <2>9. Append(u[Cut(x)], Low(x)) \in Seq(Nat)
        BY <2>5, <2>7
    <2> QED
        BY <2>4, <2>8, <2>9
  <1>13. u \in [Nat -> Seq(Nat)]
      BY <1>11, <1>12
  <1> QED
      BY <1>2, <1>10, <1>13 DEF Cut, Low

\* A reader of the digits that WriteDecimal() makes of a number gets it back.
LEMMA DecimalReads ==
    ASSUME NEW x \in Nat
    PROVE  Value(Decimal(x), DecBase) = x
  <1>1. DecBase \in Nat /\ DecBase \in Nat \ {0}
      BY MemoryMapAssumption
  <1> DEFINE T == {y \in Nat : Value(Dec[y], DecBase) # y}
  <1>2. T = {}
    <2>1. SUFFICES ASSUME T # {} PROVE FALSE
        OBVIOUS
    <2>2. T \subseteq Nat
        OBVIOUS
    <2>3. PICK y \in T : \A z \in T : y <= z
      <3> HIDE DEF T
      <3> QED
          BY <2>1, <2>2, LeastNatural
    <2>4. y # 0
      <3>1. Value(<<>>, DecBase) = 0
        <4>1. <<>> \in Seq(Nat) /\ 0 \in Nat
            OBVIOUS
        <4> QED
            BY <1>1, <4>1, ValueAppend
      <3> QED
          BY <3>1, DecHistory
    <2> DEFINE q == y \div DecBase
               d == y % DecBase
    <2>5. q \in Nat /\ q < y /\ d \in Nat
        BY <1>1, <2>4, MemoryMapAssumption
    <2>6. y = q * DecBase + d
        BY <1>1, <2>2, Recombine, Zenon
    <2>7. Dec[y] = Append(Dec[q], d) /\ Dec[q] \in Seq(Nat)
        BY <2>4, <2>5, DecHistory
    <2> HIDE DEF q, d
    <2>8. Value(Dec[q], DecBase) = q
        BY <2>3, <2>5
    <2>9. Value(Dec[y], DecBase) = Value(Dec[q], DecBase) * DecBase + d
        BY <1>1, <2>5, <2>7, ValueAppend
    <2>10. Value(Dec[y], DecBase) = y
        BY <2>6, <2>8, <2>9
    <2> QED
        BY <2>10
  <1>3. Value(<<0>>, DecBase) = 0
    <2>1. <<0>> = Append(<<>>, 0) /\ <<>> \in Seq(Nat)
        OBVIOUS
    <2>2. PICK b \in Nat : b = DecBase
        BY <1>1
    <2>3. PICK s \in Seq(Nat) : s = <<>>
        BY <2>1
    <2>4. 0 \in Nat
        OBVIOUS
    <2>5. Value(Append(s, 0), b) = Value(s, b) * b + 0
        BY <2>4, ValueAppend, Zenon
    <2>6. Value(<<>>, b) = 0
        BY <2>4, ValueAppend, Zenon
    <2>7. Value(Append(s, 0), b) = 0
        BY <2>3, <2>5, <2>6
    <2> QED
        BY <2>1, <2>2, <2>3, <2>7
  <1> QED
      BY <1>2, <1>3 DEF Decimal

-----------------------------------------------------------------------------
(* The kernel. *)

\* The sizes are printed once, before the first line.
LEMMA PrintSizesInv ==
    ASSUME MapInv, PrintSizes
    PROVE  MapInv'
  <1> USE DEF PrintSizes
  <1>1. MapTypeOK' /\ EntriesKept'
      BY DEF MapInv, MapTypeOK, EntriesKept
  <1>2. InfoKept'
      BY DEF MapInv, InfoKept, IsLastSize
  <1>3. LinesKept'
    <2>1. /\ shown.lines = <<>> /\ count \in Nat
          /\ shown = [low |-> shown.low, high |-> shown.high, lines |-> shown.lines]
        BY MemoryMapAssumption DEF MapInv, LinesKept, MapTypeOK
    <2>2. ASSUME NEW s, NEW a, NEW b, NEW x, NEW y, NEW l, s = [low |-> a, high |-> b, lines |-> l]
          PROVE  [s EXCEPT !.low = x, !.high = y] = [low |-> x, high |-> y, lines |-> l]
      <3>1. [s EXCEPT !.low = x, !.high = y] = [[s EXCEPT !.low = x] EXCEPT !.high = y]
          BY <2>2
      <3>2. PICK t : t = [s EXCEPT !.low = x]
          OBVIOUS
      <3>3. t = [low |-> x, high |-> b, lines |-> l]
          BY <2>2, <3>2
      <3>4. [t EXCEPT !.high = y] = [low |-> x, high |-> y, lines |-> l]
          BY <3>3
      <3> QED
          BY <3>1, <3>2, <3>4
    <2>3. shown' = [low |-> Decimal(info.lower), high |-> Decimal(info.upper), lines |-> shown.lines]
        BY <2>1, <2>2
    <2>4. shown'.lines = <<>> /\ Len(shown'.lines) = 0
      <3>1. shown'.lines = shown.lines
          BY <2>3
      <3> QED
          BY <2>1, <3>1
    <2>5. \A i \in 1..Len(shown'.lines) : shown'.lines[i] = Line(reported[i])
        BY <2>4
    <2> DEFINE Lines == {Line(r) : r \in Regions}
    <2>6. shown'.lines \in Seq(Lines)
      <3> HIDE DEF Lines
      <3>1. <<>> \in Seq(Lines)
          OBVIOUS
      <3> QED
          BY <2>4, <3>1, Zenon
    <2>7. /\ mmap' = Len(shown'.lines) * SizeofMmap /\ Len(shown'.lines) <= count
          /\ HeadRows + Len(shown'.lines) < Rows
      <3>1. HeadRows \in Nat /\ Rows \in Nat /\ HeadRows < Rows
          BY MemoryMapAssumption
      <3>2. mmap' = 0
          OBVIOUS
      <3> HIDE DEF PrintSizes
      <3> QED
          BY <2>1, <2>4, <3>1, <3>2 DEF SizeofMmap
    <2>8. step' = "walk" /\ info' = info /\ reported' = reported /\ count' = count
        OBVIOUS
    <2>9. /\ shown'.low = Decimal(info'.lower) /\ shown'.high = Decimal(info'.upper)
          /\ shown' = [low |-> shown'.low, high |-> shown'.high, lines |-> shown'.lines]
        BY <2>3, <2>8
    <2> HIDE DEF PrintSizes, Lines
    <2> QED
        BY <2>5, <2>6, <2>7, <2>8, <2>9 DEF LinesKept, Lines
  <1> QED
      BY <1>1, <1>2, <1>3 DEF MapInv

\* The kernel stands at an entry of the array, and Next() leads to the entry
\* after it.
LEMMA PrintLineInv ==
    ASSUME MapInv, PrintLine
    PROVE  MapInv'
  <1> DEFINE n == Len(shown.lines)
             Lines == {Line(r) : r \in Regions}
  <1>1. /\ step = "walk" /\ count \in 0..MAX_COUNT /\ MAX_COUNT \in Nat /\ count = Len(reported)
        /\ reported \in Seq(Regions) /\ mmap < info.length
        /\ UNCHANGED <<ebx, temp, ent, count, info, reported>>
      BY MemoryMapAssumption DEF MapInv, MapTypeOK, EntriesKept, PrintLine
  <1>2. /\ shown = [low |-> shown.low, high |-> shown.high, lines |-> shown.lines]
        /\ shown.lines \in Seq(Lines) /\ n \in Nat /\ n <= count
        /\ mmap = n * SizeofMmap /\ info.length = count * SizeofMmap
        /\ \A i \in 1..n : shown.lines[i] = Line(reported[i])
        /\ shown.low = Decimal(info.lower) /\ shown.high = Decimal(info.upper)
        /\ HeadRows + n < Rows /\ HeadRows \in Nat /\ Rows \in Nat
      BY <1>1, MemoryMapAssumption DEF MapInv, LinesKept, InfoKept
  <1>3. n \in 0..(count - 1)
      BY <1>1, <1>2 DEF SizeofMmap
  <1>4. /\ info.array[mmap].region = reported[n + 1] /\ info.array[mmap].length = NextLength
        /\ reported[n + 1] \in Regions
    <2>1. info.array[mmap] = [length |-> NextLength, region |-> reported[n + 1]]
        BY <1>1, <1>2, <1>3 DEF MapInv, InfoKept
    <2> QED
        BY <1>1, <1>3, <2>1
  <1> DEFINE l == Line(reported[n + 1])
  <1>5. shown' = [low |-> shown.low, high |-> shown.high, lines |-> Append(shown.lines, l)]
      BY <1>2, <1>4 DEF PrintLine
  <1>7. l \in Lines
      BY <1>4
  <1> HIDE DEF l, Lines
  <1>8. /\ shown'.lines \in Seq(Lines) /\ Len(shown'.lines) = n + 1
        /\ (\A i \in 1..n : shown'.lines[i] = shown.lines[i]) /\ shown'.lines[n + 1] = l
      BY <1>2, <1>5, <1>7
  <1>6. \/ HeadRows + (n + 1) >= Rows /\ step' = "scroll" /\ mmap' = mmap
        \/ HeadRows + (n + 1) < Rows /\ step' = "walk" /\ mmap' = (n + 1) * SizeofMmap
    <2>1. CASE HeadRows + (n + 1) >= Rows
        BY <2>1, <1>8 DEF PrintLine, Scrolls
    <2>2. CASE ~(HeadRows + (n + 1) >= Rows)
      <3>1. step' = step /\ mmap' = mmap + info.array[mmap].length + SizeofSize
          BY <2>2, <1>8 DEF PrintLine, Scrolls
      <3> QED
          BY <2>2, <3>1, <1>1, <1>2, <1>4 DEF NextLength, SizeofMmap, SizeofSize
    <2> QED
        BY <2>1, <2>2
  <1>9. MapTypeOK' /\ EntriesKept'
    <2>1. mmap' \in Nat
        BY <1>2, <1>6 DEF SizeofMmap
    <2>2. step = "walk" /\ step' \in {"walk", "scroll"}
        BY <1>1, <1>6
    <2>3. MapTypeOK'
        BY <1>1, <2>1, <2>2 DEF MapInv, MapTypeOK
    <2>4. EntriesKept'
        BY <1>1, <2>2 DEF MapInv, EntriesKept
    <2> QED
        BY <2>3, <2>4
  <1>10. InfoKept'
      BY <1>1 DEF MapInv, InfoKept, IsLastSize
  <1>11. LinesKept'
    <2>1. \A i \in 1..(n + 1) : shown'.lines[i] = Line(reported[i])
      <3> TAKE i \in 1..(n + 1)
      <3>1. CASE i = n + 1
          BY <3>1, <1>8 DEF l
      <3>2. CASE i # n + 1
        <4>1. i \in 1..n
            BY <3>2, <1>2
        <4> QED
            BY <4>1, <1>2, <1>8
      <3> QED
          BY <3>1, <3>2
    <2>2. shown' = [low |-> shown'.low, high |-> shown'.high, lines |-> shown'.lines]
          /\ shown'.low = shown.low /\ shown'.high = shown.high
        BY <1>5
    <2>3. Len(shown'.lines) <= count
        BY <1>1, <1>3, <1>8
    <2>4. step' = "scroll" => Len(shown'.lines) = Rows - HeadRows
        BY <1>2, <1>6, <1>8
    <2>5. step' = "walk" => /\ mmap' = Len(shown'.lines) * SizeofMmap
                            /\ HeadRows + Len(shown'.lines) < Rows
        BY <1>2, <1>6, <1>8
    <2>6. step' \in {"walk", "scroll"}
        BY <1>6
    <2>7. info' = info /\ reported' = reported /\ count' = count
        BY <1>1
    <2>8. \A i \in 1..Len(shown'.lines) : shown'.lines[i] = Line(reported'[i])
        BY <1>8, <2>1, <2>7
    <2>9. shown'.low = Decimal(info'.lower) /\ shown'.high = Decimal(info'.upper)
        BY <1>2, <2>2, <2>7
    <2>10. shown'.lines \in Seq({Line(r) : r \in Regions})
        BY <1>8 DEF Lines
    <2> HIDE DEF n
    <2> QED
        BY <2>2, <2>3, <2>4, <2>5, <2>6, <2>7, <2>8, <2>9, <2>10 DEF LinesKept
  <1> QED
      BY <1>9, <1>10, <1>11 DEF MapInv

\* The kernel stops behind the last entry.
LEMMA PrintedInv ==
    ASSUME MapInv, Printed
    PROVE  MapInv'
  <1> USE DEF Printed
  <1>1. MapTypeOK' /\ EntriesKept'
      BY DEF MapInv, MapTypeOK, EntriesKept
  <1>2. InfoKept'
      BY DEF MapInv, InfoKept, IsLastSize
  <1>3. LinesKept'
    <2>1. /\ count \in Nat /\ Len(shown.lines) <= count /\ Len(shown.lines) \in Nat
          /\ mmap = Len(shown.lines) * SizeofMmap /\ info.length = count * SizeofMmap
          /\ mmap >= info.length
        BY MemoryMapAssumption DEF MapInv, LinesKept, InfoKept, MapTypeOK
    <2>2. Len(shown.lines) = count
        BY <2>1 DEF SizeofMmap
    <2> QED
        BY <2>2 DEF MapInv, LinesKept
  <1> QED
      BY <1>1, <1>2, <1>3 DEF MapInv

\* The end that PrintMemoryMap() computes, wrapping like the machine, is the
\* last address of the region.
LEMMA EndIsLast ==
    ASSUME NEW r \in Regions
    PROVE  EndOf(r.base, r.size) = LastAddress(r) /\ LastAddress(r) \in 0..(AddressSpace - 1)
  <1>1. PICK p : Powers(p, HexBase, HexDigits) /\ AddressSpace = p[HexDigits]
      BY PowerHistory, MemoryMapAssumption
  <1>2. AddressSpace \in Nat
      BY <1>1, MemoryMapAssumption DEF Powers
  <1>3. r.base \in 0..(AddressSpace - 1) /\ r.size \in 0..(AddressSpace - 1)
      BY MemoryMapAssumption
  <1> DEFINE b == r.base
             s == r.size
             M == AddressSpace
  <1>4. ASSUME NEW x \in 0..(M - 1), NEW y \in 0..(M - 1)
        PROVE  (x + y) % M = IF x + y < M THEN x + y ELSE x + y - M
      BY <1>2
  <1>5. (b + s) % M = IF b + s < M THEN b + s ELSE b + s - M
      BY <1>3, <1>4
  <1> HIDE DEF b, s, M
  <1> QED
      BY <1>2, <1>3, <1>5 DEF EndOf, LastAddress, b, s, M

\* The line printed for a region shows it.
LEMMA LineShows ==
    ASSUME NEW r \in Regions
    PROVE  LineIs(Line(r), r)
  <1>1. r.base \in 0..(AddressSpace - 1) /\ r.type \in Nat
      BY MemoryMapAssumption
  <1>2. EndOf(r.base, r.size) = LastAddress(r) /\ LastAddress(r) \in 0..(AddressSpace - 1)
      BY EndIsLast
  <1>3. Value(Hex(r.base), HexBase) = r.base
      BY <1>1, HexReads
  <1>4. Value(Hex(LastAddress(r)), HexBase) = LastAddress(r)
      BY <1>2, HexReads
  <1>5. TypeOf(r) = IF r.type \in 1..5 THEN r.type ELSE 5
      BY <1>1 DEF TypeOf
  <1> QED
      BY <1>2, <1>3, <1>4, <1>5 DEF LineIs, Line

\* The sizes in the multiboot information are those of the last regions.
LEMMA LastSizeIs ==
    ASSUME NEW v, NEW area, IsLastSize(v, area), reported \in Seq(Regions)
    PROVE  LastSize(area) = v
  <1> DEFINE hits == {i \in 1..Len(reported) : Usable(reported[i]) /\ reported[i].base \in area}
             IsLast(i) == i \in hits /\ \A j \in hits : j <= i
  <1>1. CASE v = 0 /\ \A i \in 1..Len(reported) : ~Counts(reported[i], area)
    <2>1. hits = {}
        BY <1>1 DEF Counts
    <2> QED
        BY <1>1, <2>1 DEF LastSize
  <1>2. CASE \E i \in 1..Len(reported) :
                /\ Counts(reported[i], area)
                /\ \A j \in (i + 1)..Len(reported) : ~Counts(reported[j], area)
                /\ v = (reported[i].size \div Kilo) % CountSpace
    <2>1. PICK i \in 1..Len(reported) :
                /\ Counts(reported[i], area)
                /\ \A j \in (i + 1)..Len(reported) : ~Counts(reported[j], area)
                /\ v = (reported[i].size \div Kilo) % CountSpace
        BY <1>2
    <2>2. IsLast(i) /\ i \in hits
        BY <2>1 DEF Counts
    <2>3. hits # {} /\ hits \subseteq Int
        BY <2>2
    <2> DEFINE k == CHOOSE k \in hits : \A j \in hits : j <= k
    <2>4. LastSize(area) = (reported[k].size \div Kilo) % CountSpace
        BY <2>3 DEF LastSize
    <2> HIDE DEF hits
    <2>5. k \in hits /\ \A j \in hits : j <= k
        BY <2>2, Zenon
    <2> HIDE DEF k
    <2>6. k = i
        BY <2>2, <2>3, <2>5
    <2> QED
        BY <2>1, <2>4, <2>6
  <1> QED
      BY <1>1, <1>2 DEF IsLastSize

\* Where the kernel stops, its lines show the map.
LEMMA MapInvShows == MapInv => KernelShowsMap
  <1> SUFFICES ASSUME MapInv, step \in {"halt", "scroll"} PROVE KernelShowsMap
      BY DEF KernelShowsMap
  <1>1. /\ reported \in Seq(Regions) /\ Len(shown.lines) <= Len(reported)
        /\ Len(shown.lines) = IF step = "halt" THEN Len(reported) ELSE Rows - HeadRows
        /\ Len(shown.lines) \in Nat
        /\ \A i \in 1..Len(shown.lines) : shown.lines[i] = Line(reported[i])
        /\ shown.low = Decimal(info.lower) /\ shown.high = Decimal(info.upper)
        /\ IsLastSize(info.lower, LowArea) /\ IsLastSize(info.upper, HighArea)
        /\ info.lower \in Nat /\ info.upper \in Nat
    <2>1. /\ shown.lines \in Seq({Line(r) : r \in Regions}) /\ reported \in Seq(Regions)
          /\ count = Len(reported) /\ info.lower \in Nat /\ info.upper \in Nat
        BY MemoryMapAssumption DEF MapInv, MapTypeOK, EntriesKept, LinesKept
    <2>2. IsLastSize(info.lower, LowArea) /\ IsLastSize(info.upper, HighArea)
        BY DEF MapInv, InfoKept
    <2> QED
        BY <2>1, <2>2 DEF MapInv, LinesKept
  <1>2. \A i \in 1..Len(shown.lines) : LineIs(shown.lines[i], reported[i])
      BY <1>1, LineShows
  <1>3. LastSize(LowArea) = info.lower /\ LastSize(HighArea) = info.upper
      BY <1>1, LastSizeIs
  <1>4. Shows(shown.low, LastSize(LowArea)) /\ Shows(shown.high, LastSize(HighArea))
      BY <1>1, <1>3, DecimalReads DEF Shows
  <1> QED
      BY <1>1, <1>2, <1>4 DEF KernelShowsMap, LowArea, HighArea

-----------------------------------------------------------------------------
(* The whole startup. *)

Inv == LineInv /\ MapInv

\* A step of the program or of the hardware keeps both invariants.
LEMMA NextInv == Inv /\ [Next]_vars => Inv'
  <1> SUFFICES ASSUME Inv, [Next]_vars PROVE Inv'
      OBVIOUS
  <1>1. CASE EnableA20 /\ UNCHANGED mapVars
      BY <1>1, LineNextInv, MapStutter DEF Inv, LineNext
  <1>2. CASE GateRises /\ UNCHANGED mapVars
      BY <1>2, LineNextInv, MapStutter DEF Inv, LineNext
  <1>3. CASE LineEnabled
      BY <1>3, LineStutter, BeginLoadInv DEF Inv, LineEnabled
  <1>4. CASE Load /\ UNCHANGED lineVars
      BY <1>4, LineStutter, LoadEntryInv, LoadStopsInv DEF Inv, Load
  <1>5. CASE MBGenInfo /\ UNCHANGED lineVars
      BY <1>5, LineStutter, MBGenInfoInv DEF Inv
  <1>6. CASE Kernel /\ UNCHANGED lineVars
      BY <1>6, LineStutter, PrintSizesInv, PrintLineInv, PrintedInv DEF Inv, Kernel
  <1>7. CASE UNCHANGED vars
      BY <1>7, LineStutter, MapStutter DEF Inv, vars
  <1> QED
      BY <1>1, <1>2, <1>3, <1>4, <1>5, <1>6, <1>7 DEF Next, Program

\* The inductive invariant holds throughout.
THEOREM Invariance == Spec => []Inv
  <1>1. Init => Inv
      BY LineInitInv, MapInitInv DEF Init, Inv
  <1> QED
      BY <1>1, NextInv, PTL DEF Spec

\* The variables of the startup keep their types.
THEOREM TypeCorrect == Spec => []TypeOK
  <1>1. Inv => TypeOK
      BY DEF Inv, LineInv, MapInv, TypeOK
  <1> QED
      BY <1>1, Invariance, PTL

\* EnableA20() answers what is true of the address line, whatever the
\* controller does and however late the line rises.
THEOREM VerdictCorrect == Spec => []VerdictIsTrue
  <1>1. Inv => VerdictIsTrue
      BY DEF Inv, LineInv, TestKnows, VerdictIsTrue
  <1> QED
      BY <1>1, Invariance, PTL

\* The test of the line puts the byte at 0000:0500 back (not the one 1 MiB above
\* it), a machine without a controller gets no byte, and no write to port A
\* resets the machine.
THEOREM LowByteRestored == Spec => []LeavesNoTrace
  <1>1. Inv => LeavesNoTrace
      BY DEF Inv, LineInv, ByteKept, PortsKept, LeavesNoTrace
  <1> QED
      BY <1>1, Invariance, PTL

\* The kernel shows the memory map the BIOS reported.
THEOREM MapShown == Spec => []KernelShowsMap
  <1>1. Inv => KernelShowsMap
      BY MapInvShows DEF Inv
  <1> QED
      BY <1>1, Invariance, PTL
=============================================================================
