--------------------------------- MODULE A20 ---------------------------------
(***************************************************************************)
(* EnableA20() of lib/pm86/a20.cpp with the keyboard controller of         *)
(* include/device/PS2Controller.h and the system control port of           *)
(* include/device/SysCtrl.h.                                               *)
(*                                                                         *)
(* The loader tests whether the address line A20 is on by writing to a     *)
(* byte and to the byte one megabyte above it, and tries three ways to     *)
(* turn it on.  One step is one access to memory or to a port, because the *)
(* line may rise between any two of them.  The hardware is external: which *)
(* of the ways work, whether there is a controller, what it answers.       *)
(***************************************************************************)
EXTENDS Naturals

CONSTANTS
    Rounds,     \* rounds of EnableA20() (256)
    Tries,      \* tries of one TestA20() (100)
    Polls,      \* polls of one DrainBuffers() (100000)
    MaxFF,      \* polls with status 0xFF in a row that are tolerated (32)
    Ways        \* the sets of ways that may work on a machine

ASSUME A20Assumption ==
    /\ Rounds \in Nat \ {0}
    /\ Tries \in Nat \ {0}
    /\ Polls \in Nat \ {0}
    /\ MaxFF \in Nat
    /\ Ways \subseteq SUBSET {"int15", "ps2", "fast"}

VARIABLES
    works,      \* hardware: the ways that work on this machine
    present,    \* hardware: there is a keyboard controller
    gate,       \* hardware: the A20 line is on
    rising,     \* hardware: it was turned on and will rise
    portA,      \* hardware: bits that are set in system control port A
    mem,        \* the bytes at 0000:0500 and one megabyte above it
    pc,         \* next access of the program
    round,      \* i of EnableA20()
    test,       \* which of the calls of TestA20() in a round: 1..4
    try,        \* i of TestA20()
    old,        \* old of TestA20()
    drain,      \* which of the calls of DrainBuffers(): 1..4
    poll,       \* i of DrainBuffers()
    ffCount,    \* ffCount of DrainBuffers()
    drained,    \* result of the last DrainBuffers() of a call
    result,     \* what TestA20() and EnableA20() return
    onBefore,   \* history: the line was on when the last test began
    touched     \* history: bytes were written to the controller's ports

hardware == <<works, present, gate, rising, portA>>
tester == <<mem, try, old, onBefore>>
keyboard == <<drain, poll, ffCount, drained, touched>>
lineVars == <<hardware, tester, keyboard, pc, round, test, result>>

\* A byte: what was there, or one of the two patterns of try i.  0xAA ^ i and
\* 0x55 ^ j differ for all i and j below 128.
Byte(kind, i) == <<kind, i>>
OldLow == Byte("old", 0)
Bytes == {OldLow, Byte("high", 0)} \cup ({"aa", "55"} \X (0..(Tries - 1)))

PortBits == {"reset", "a20", "lock"}

\* The cell that ffff:0510 is, with the line on and off.
HighCell == IF gate THEN "high" ELSE "low"

LineInit ==
    /\ works \in Ways
    /\ present \in BOOLEAN
    /\ gate \in BOOLEAN
    /\ rising = FALSE
    /\ portA \in {{}, {"reset", "lock"}}
    /\ mem = [low |-> OldLow, high |-> Byte("high", 0)]
    /\ pc = "begin"
    /\ round = 0
    /\ test = 1
    /\ try = 0
    /\ old = OldLow
    /\ drain = 1
    /\ poll = 0
    /\ ffCount = 0
    /\ drained = FALSE
    /\ result = FALSE
    /\ onBefore = FALSE
    /\ touched = FALSE

-----------------------------------------------------------------------------
(* TestA20 *)

TestBegin ==
    /\ pc = "begin"
    /\ old' = mem["low"]
    /\ try' = 0
    /\ onBefore' = gate
    /\ pc' = "pokeLow"
    /\ UNCHANGED <<hardware, keyboard, mem, round, test, result>>

PokeLow ==
    /\ pc = "pokeLow"
    /\ mem' = [mem EXCEPT !["low"] = Byte("aa", try)]
    /\ pc' = "pokeHigh"
    /\ UNCHANGED <<hardware, keyboard, try, old, onBefore, round, test, result>>

PokeHigh ==
    /\ pc = "pokeHigh"
    /\ mem' = [mem EXCEPT ![HighCell] = Byte("55", try)]
    /\ pc' = "peekLow"
    /\ UNCHANGED <<hardware, keyboard, try, old, onBefore, round, test, result>>

\* Mutant: only the byte above one megabyte is compared.
PeekLowSkipped ==
    /\ pc = "peekLow"
    /\ pc' = "peekHigh"
    /\ UNCHANGED <<hardware, tester, keyboard, round, test, result>>

\* The first half of the comparison, which is all there is if it fails.
PeekLow ==
    /\ pc = "peekLow"
    /\ mem["low"] = Byte("aa", try)
    /\ pc' = "peekHigh"
    /\ UNCHANGED <<hardware, tester, keyboard, round, test, result>>

Differs ==
    \/ pc = "peekLow" /\ mem["low"] # Byte("aa", try)
    \/ pc = "peekHigh" /\ mem[HighCell] # Byte("55", try)

PeekHigh ==
    /\ pc = "peekHigh"
    /\ mem[HighCell] = Byte("55", try)
    /\ result' = TRUE
    /\ pc' = "restore"
    /\ UNCHANGED <<hardware, tester, keyboard, round, test>>

TryAgain ==
    /\ Differs
    /\ try + 1 < Tries
    /\ try' = try + 1
    /\ pc' = "pokeLow"
    /\ UNCHANGED <<hardware, keyboard, mem, old, onBefore, round, test, result>>

TestFails ==
    /\ Differs
    /\ try + 1 = Tries
    /\ result' = FALSE
    /\ pc' = "restore"
    /\ UNCHANGED <<hardware, tester, keyboard, round, test>>

\* Where EnableA20() goes on after a test that failed.
AfterTest ==
    CASE test = 1 -> "int15"
      [] test = 2 -> "ps2"
      [] test = 3 -> "fast"
      [] test = 4 -> IF round + 1 < Rounds THEN "begin" ELSE "done"

NextRound ==
    IF ~result /\ AfterTest = "begin"
    THEN round' = round + 1 /\ test' = 1
    ELSE UNCHANGED <<round, test>>

\* Mutant: the old byte is only put back when the test failed.
RestoreOnFailure ==
    /\ pc = "restore"
    /\ mem' = IF result THEN mem ELSE [mem EXCEPT !["low"] = old]
    /\ pc' = IF result THEN "done" ELSE AfterTest
    /\ try' = 0
    /\ NextRound
    /\ UNCHANGED <<hardware, keyboard, old, onBefore, result>>

\* Both exits of TestA20() put the old byte back; EnableA20() returns, tries
\* the next way, or begins the next round.  A local variable that is out of
\* scope is set to its first value here and below.
Restore ==
    /\ pc = "restore"
    /\ mem' = [mem EXCEPT !["low"] = old]
    /\ pc' = IF result THEN "done" ELSE AfterTest
    /\ try' = 0
    /\ NextRound
    /\ UNCHANGED <<hardware, keyboard, old, onBefore, result>>

-----------------------------------------------------------------------------
(* The three ways of EnableA20 *)

TurnOn(way) == rising' = (rising \/ way \in works)

Int15 ==
    /\ pc = "int15"
    /\ TurnOn("int15")
    /\ test' = 2
    /\ pc' = "begin"
    /\ UNCHANGED <<works, present, gate, portA, tester, keyboard, round, result>>

\* EnableA20Gate() begins with DrainBuffers().
BeginDrain(n) == drain' = n /\ poll' = 0 /\ ffCount' = 0 /\ pc' = "drain"

EnableA20Gate ==
    /\ pc = "ps2"
    /\ BeginDrain(1)
    /\ UNCHANGED <<hardware, tester, drained, touched, round, test, result>>

\* What the status port may say: without a controller it reads as 0xFF.
Statuses == IF present THEN {"ff", "output", "input", "clear"} ELSE {"ff"}

\* Mutant: the counter is advanced at the end of the loop, which "continue"
\* does not reach.
PollAgainUncounted(status) ==
    /\ pc = "drain"
    /\ poll < Polls
    /\ status # "clear"
    /\ status = "ff" => ffCount <= MaxFF
    /\ ffCount' = IF status = "ff" THEN ffCount + 1 ELSE 0
    /\ poll' = IF status = "input" THEN poll + 1 ELSE poll
    /\ UNCHANGED <<hardware, tester, drain, drained, touched, pc, round, test, result>>

\* One turn of the loop of DrainBuffers() that does not leave it: 0xFF that is
\* still tolerated, data that is read and dropped, or a command in progress.
PollAgain(status) ==
    /\ pc = "drain"
    /\ poll < Polls
    /\ status # "clear"
    /\ status = "ff" => ffCount <= MaxFF
    /\ ffCount' = IF status = "ff" THEN ffCount + 1 ELSE 0
    /\ poll' = poll + 1
    /\ UNCHANGED <<hardware, tester, drain, drained, touched, pc, round, test, result>>

\* What follows the n-th DrainBuffers(): only the first result is looked at.
AfterDrain(n, ok) ==
    CASE n = 1 -> IF ok THEN "command" ELSE "fast"
      [] n = 2 -> "data"
      [] n = 3 -> "null"
      [] n = 4 -> "begin"

DrainReturns(ok) ==
    /\ drained' = (ok /\ drain < 4)
    /\ pc' = AfterDrain(drain, ok)
    /\ test' = IF drain = 4 THEN 3 ELSE test
    /\ poll' = 0
    /\ ffCount' = 0
    /\ UNCHANGED <<hardware, tester, drain, touched, round, result>>

Drained(status) ==
    /\ pc = "drain"
    /\ poll < Polls
    /\ status = "clear"
    /\ DrainReturns(TRUE)

NoController(status) ==
    /\ pc = "drain"
    /\ poll < Polls
    /\ status = "ff" /\ ffCount > MaxFF
    /\ DrainReturns(FALSE)

DrainTimesOut ==
    /\ pc = "drain"
    /\ poll = Polls
    /\ DrainReturns(FALSE)

\* Command 0xd1, data byte 0xdf and the null command 0xff.  A byte that is
\* sent while the controller is still busy may be lost.
Command ==
    /\ pc = "command"
    /\ touched' = TRUE
    /\ BeginDrain(2)
    /\ UNCHANGED <<hardware, tester, drained, round, test, result>>

Data(lost) ==
    /\ pc = "data"
    /\ lost => ~drained
    /\ IF lost THEN UNCHANGED rising ELSE TurnOn("ps2")
    /\ touched' = TRUE
    /\ BeginDrain(3)
    /\ UNCHANGED <<works, present, gate, portA, tester, drained, round, test, result>>

NullCommand ==
    /\ pc = "null"
    /\ touched' = TRUE
    /\ BeginDrain(4)
    /\ UNCHANGED <<hardware, tester, drained, round, test, result>>

\* EnableFastA20: port A is read, one bit set, one cleared, and written back.
FastBits(bits) == (bits \cup {"a20"}) \ {"reset"}

EnableFastA20 ==
    /\ pc = "fast"
    /\ portA' = FastBits(portA)
    /\ TurnOn("fast")
    /\ test' = 4
    /\ pc' = "begin"
    /\ UNCHANGED <<works, present, gate, tester, keyboard, round, result>>

-----------------------------------------------------------------------------
\* Hardware: the line rises some time after it was turned on.
GateRises ==
    /\ rising
    /\ ~gate
    /\ gate' = TRUE
    /\ UNCHANGED <<works, present, rising, portA, tester, keyboard, pc, round, test, result>>

TestA20 == TestBegin \/ PokeLow \/ PokeHigh \/ PeekLow \/ PeekHigh
           \/ TryAgain \/ TestFails \/ Restore

DrainBuffers ==
    \/ DrainTimesOut
    \/ \E status \in Statuses : PollAgain(status) \/ Drained(status) \/ NoController(status)

EnableA20 == TestA20 \/ Int15 \/ EnableA20Gate \/ DrainBuffers \/ Command
             \/ (\E lost \in BOOLEAN : Data(lost)) \/ NullCommand \/ EnableFastA20

LineNext == EnableA20 \/ GateRises

LineSpec == LineInit /\ [][LineNext]_lineVars

-----------------------------------------------------------------------------
(***************************************************************************)
(* Properties                                                              *)
(***************************************************************************)
Testing == pc \in {"pokeLow", "pokeHigh", "peekLow", "peekHigh", "restore"}

\* The type of each variable of the module.
LineTypeOK ==
    /\ works \in Ways
    /\ present \in BOOLEAN /\ gate \in BOOLEAN /\ rising \in BOOLEAN
    /\ portA \subseteq PortBits
    /\ mem \in [{"low", "high"} -> Bytes]
    /\ pc \in {"begin", "pokeLow", "pokeHigh", "peekLow", "peekHigh", "restore", "int15",
               "ps2", "drain", "command", "data", "null", "fast", "done"}
    /\ round \in 0..(Rounds - 1) /\ test \in 1..4
    /\ try \in 0..(Tries - 1) /\ old \in Bytes
    /\ drain \in 1..4 /\ poll \in 0..Polls /\ ffCount \in 0..(MaxFF + 1)
    /\ drained \in BOOLEAN /\ result \in BOOLEAN
    /\ onBefore \in BOOLEAN /\ touched \in BOOLEAN

\* EnableA20() tells the truth although the line may rise at any time, also
\* between the accesses of one test: it returns true only if the line is on,
\* and false only if it was still off when the last test began.
VerdictIsTrue == pc = "done" => IF result THEN gate ELSE ~onBefore

\* The attempts leave no trace where something else lives: outside of a test the
\* byte at 0000:0500 (BIOS data) is what it was, whichever way the test ended, a
\* machine without a controller gets no byte on its ports, and the port that can
\* reset the machine is only written with that bit clear.  The byte 1 MiB above,
\* which nothing uses yet, is not restored: it keeps the last pattern.
LeavesNoTrace ==
    /\ ~Testing => mem["low"] = OldLow
    /\ touched => present
    /\ "a20" \in portA => "reset" \notin portA
=============================================================================
