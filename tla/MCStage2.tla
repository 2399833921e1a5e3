------------------------------- MODULE MCStage2 -------------------------------
(* Stage2 with small kernel files: a chunk is 4 words, a header 2. *)
EXTENDS Stage2, Sequences

MCMemory == 16..57

Hdr(hdrAddr, from, end, bss) ==
    [wantVideo |-> FALSE, haveLayout |-> TRUE, hdrAddr |-> hdrAddr, load |-> from,
     loadEnd |-> end, bssEnd |-> bss, entry |-> from]

KernelFile(size, magic, at, h) ==
    [size |-> size, reach |-> size, magic |-> magic \cup {at}, hdr |-> [p \in {at} |-> h]]

\* Kernels linked the way kernel/kernel.ld does it: the file begins with the
\* text, and all sizes are multiples of the chunk.
AtStart == KernelFile(12, {}, 0, Hdr(16, 16, 24, 28))
Inside == KernelFile(8, {1, 3}, 6, Hdr(38, 32, 40, 44))

\* Kernels that are linked in other ways: the text ends inside a chunk, with the
\* file or before it; something is in front of the text, and there is no BSS.  Two
\* of them go where AtStart goes.
Ragged == KernelFile(10, {}, 0, Hdr(16, 16, 26, 29))
Followed == KernelFile(12, {}, 1, Hdr(17, 16, 22, 32))
InFront == KernelFile(14, {}, 2, Hdr(32, 32, 40, 32))

\* Files whose chain of clusters ends early: inside the text, at its end, and in
\* front of it.
CutShort == [KernelFile(12, {}, 0, Hdr(32, 32, 44, 46)) EXCEPT !.reach = 8]
CutBehind == [KernelFile(12, {}, 0, Hdr(48, 48, 54, 58)) EXCEPT !.reach = 7]
CutAway == [AtStart EXCEPT !.reach = 0]

\* Headers that are refused.
WantsVideo == KernelFile(4, {}, 1, [Hdr(17, 16, 20, 20) EXCEPT !.wantVideo = TRUE])
NoLayout == KernelFile(4, {}, 1, [Hdr(17, 16, 20, 20) EXCEPT !.haveLayout = FALSE])
TooShort == KernelFile(7, {}, 1, Hdr(17, 16, 24, 28))
NoHeader == [size |-> 12, reach |-> 12, magic |-> {5, 6}, hdr |-> <<>>]

Fixed == <<AtStart, Inside, Ragged, Followed, InFront, CutShort, CutBehind, CutAway,
           WantsVideo, NoLayout, TooShort, NoHeader>>

\* Every way the magic number can occur in a file of FileWords words, with at
\* most one valid header, which is refused for its missing layout.  Number n
\* has the set of magic numbers in its lower bits, the place of the header
\* above them.
FileWords == 5
Refused == NoLayout.hdr[1]

MagicOf(n) == {p \in 0..(FileWords - 1) : (n \div 2^p) % 2 = 1}
ValidOf(n) == MagicOf(n) \cap {n \div 2^FileWords}
Searched(n) ==
    [size |-> FileWords, reach |-> FileWords, magic |-> MagicOf(n),
     hdr |-> [p \in ValidOf(n) |-> Refused]]

MCKernels == [n \in 1..(Len(Fixed) + 2^FileWords * FileWords) |->
                IF n <= Len(Fixed) THEN Fixed[n] ELSE Searched(n - Len(Fixed) - 1)]

\* Two words of something else in front of the text.
WithPrefix == <<KernelFile(14, {}, 2, Hdr(16, 16, 24, 28))>>
=============================================================================
