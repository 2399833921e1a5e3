------------------------------- MODULE Startup -------------------------------
(***************************************************************************)
(* What main() of the second stage does before it touches the file system, *)
(* and what the kernel makes of it: EnableA20(), then the memory map.      *)
(* Everything in between (file system, script, kernel) is in Stage2.       *)
(***************************************************************************)
EXTENDS A20, MemoryMap

vars == <<lineVars, mapVars>>

Init == LineInit /\ MapInit

\* EnableA20() returned true: mmap.Load() is called.  When it returned false
\* the loader halts.
LineEnabled ==
    /\ pc = "done"
    /\ result
    /\ BeginLoad
    /\ UNCHANGED lineVars

Program ==
    \/ EnableA20 /\ UNCHANGED mapVars
    \/ LineEnabled
    \/ Load /\ UNCHANGED lineVars
    \/ MBGenInfo /\ UNCHANGED lineVars
    \/ Kernel /\ UNCHANGED lineVars

Next == Program \/ (GateRises /\ UNCHANGED mapVars)

\* The processor runs the program; nothing is assumed of the hardware.
Spec == Init /\ [][Next]_vars /\ WF_vars(Program)

-----------------------------------------------------------------------------
(***************************************************************************)
(* Properties                                                              *)
(***************************************************************************)

\* The variables of both parts keep their types.
TypeOK == LineTypeOK /\ MapTypeOK

\* The screen has room for the lines of the map and the row behind them.
FitsScreen == ~Scrolls(Len(reported))

\* With a controller that never answers, a BIOS that never ends its list, or
\* ways that do not work, the loader still decides: it halts because of the line
\* or the map, or it gets to the kernel.  The kernel prints and halts if the map
\* fits on the screen; if it does not, it is caught in ScrollUp() (see the run
\* video_scroll), and nowhere else.
Settles == <>(\/ pc = "done" /\ ~result
              \/ step = "fail"
              \/ step = "halt" /\ FitsScreen
              \/ step = "scroll" /\ ~FitsScreen)
=============================================================================
