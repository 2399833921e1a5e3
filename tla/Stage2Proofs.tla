---------------------------- MODULE Stage2Proofs -----------------------------
(***************************************************************************)
(* Proofs about Stage2, for all kernel files, sizes of chunks and of BOOT.CFG*)
(* and lengths of the script.                                              *)
(***************************************************************************)
EXTENDS Stage2, Induction, TLAPS

(***************************************************************************)
(* Blocks of the heap and minima.                                          *)
(***************************************************************************)

\* What malloc() takes from the heap.
LEMMA BlockSizes ==
    ASSUME NEW n \in Nat
    PROVE  BlockSize(n) \in Nat /\ BlockSize(n) >= n + 8 /\ BlockSize(n) <= n + 11
  BY DEF BlockSize

\* The blocks of fixed size.
LEMMA FixedBlocks == BufferSize = 1032 /\ FsBytes = 580 /\ InfoSize = 136
  BY DEF BufferSize, FsBytes, InfoSize, BlockSize

\* A part of a sum shrinks.
LEMMA SumShrinks ==
    ASSUME NEW a \in Nat, NEW b \in Nat, NEW c \in Nat, NEW h \in Nat, a + b + c <= h,
           NEW d \in Nat, d <= a
    PROVE  d + b + c <= h
  OBVIOUS

\* A part of it goes over into another.
LEMMA SumMoves ==
    ASSUME NEW a \in Nat, NEW b \in Nat, NEW c \in Nat, NEW h \in Nat, a + b + c <= h,
           NEW d \in Nat, d <= a + b
    PROVE  d \in 0..h /\ 0 \in 0..h /\ d + 0 + c <= h
  OBVIOUS

\* The smaller one of two numbers.
LEMMA MinOfTwo ==
    ASSUME NEW a \in Int, NEW b \in Int
    PROVE  Min({a, b}) = IF a <= b THEN a ELSE b
  <1> DEFINE m == IF a <= b THEN a ELSE b
  <1>1. m \in {a, b} /\ \A y \in {a, b} : m <= y
      OBVIOUS
  <1>2. \A x \in {a, b} : (\A y \in {a, b} : x <= y) => x = m
      OBVIOUS
  <1> HIDE DEF m
  <1>3. Min({a, b}) = m
      BY <1>1, <1>2 DEF Min
  <1> QED
      BY <1>3 DEF m

\* The larger one of two numbers.
LEMMA MaxOfTwo ==
    ASSUME NEW a \in Int, NEW b \in Int
    PROVE  Max({a, b}) = IF a >= b THEN a ELSE b
  <1> DEFINE m == IF a >= b THEN a ELSE b
  <1>1. m \in {a, b} /\ \A y \in {a, b} : m >= y
      OBVIOUS
  <1>2. \A x \in {a, b} : (\A y \in {a, b} : x >= y) => x = m
      OBVIOUS
  <1> HIDE DEF m
  <1>3. Max({a, b}) = m
      BY <1>1, <1>2 DEF Max
  <1> QED
      BY <1>3 DEF m

\* How much ReadAt gives: no more than was asked for and than can be read, and
\* nothing only behind the last word that can.
LEMMA WordsRead ==
    ASSUME NEW f \in 1..NumKernels, NEW at \in Nat, NEW n \in Nat, NEW r,
           r = WordsOf(Kernels[f], at, n)
    PROVE  /\ r \in Nat /\ r <= n /\ Kernels[f].reach \in Nat
           /\ r > 0 => at + r <= Kernels[f].reach
           /\ r = n \/ at + r >= Kernels[f].reach
           /\ \A m \in Nat : m <= n /\ at + m <= Kernels[f].reach => m <= r
  <1>1. Kernels[f].reach \in Nat
      BY Stage2Assumption DEF KernelOK
  <1>2. PICK e \in Nat : e = Kernels[f].reach
      BY <1>1
  <1>3. PICK m \in Int : m = Min({n, e - at}) /\ m = IF n <= e - at THEN n ELSE e - at
      BY MinOfTwo
  <1>4. r = IF 0 >= m THEN 0 ELSE m
    <2>1. r = Max({0, m})
        BY <1>2, <1>3 DEF WordsOf
    <2> QED
        BY <2>1, MaxOfTwo
  <1>5. /\ r \in Nat /\ r <= n
        /\ r > 0 => at + r <= e
        /\ r = n \/ at + r >= e
      BY <1>3, <1>4
  <1>6. ASSUME NEW x \in Nat, x <= n, at + x <= e PROVE x <= r
      BY <1>3, <1>4, <1>6
  <1> QED
      BY <1>1, <1>2, <1>5, <1>6

\* It is a number.
LEMMA WordsNatural ==
    ASSUME NEW f \in 1..NumKernels, NEW at \in Nat, NEW n \in Nat
    PROVE  WordsOf(Kernels[f], at, n) \in Nat
  <1>1. PICK r : r = WordsOf(Kernels[f], at, n)
      OBVIOUS
  <1>2. r \in Nat
      BY <1>1, WordsRead
  <1> QED
      BY <1>1, <1>2, Zenon

-----------------------------------------------------------------------------
(***************************************************************************)
(* The inductive invariant.                                                *)
(***************************************************************************)

\* The heap: what is free, what BOOT.CFG, a leaked buffer and a buffer in use
\* take.  As long as everything was allocated, the sum is known exactly.
InUse == pc \in {"search", "word", "load"}
Taken == left + config + leaked + (IF InUse THEN BufferSize ELSE 0)

HeapInv ==
    /\ Taken <= heapMaxSize
    /\ buffers = "ok" /\ pc \notin {"init", "boot", "halt"} =>
            Taken = heapMaxSize - FsBytes - BlockSize(clusterSize)
    /\ BootInfoFits
    /\ leaked # 0 => pc \in {"done", "boot", "halt"}
    /\ pc \in {"init", "config"} => config = 0
    /\ pc = "init" => left = heapMaxSize
    /\ clusterSize \in ClusterSizes /\ mapCount \in MapCounts

\* The first valid header of a file.
IsFirst(n, p) == p \in DOMAIN Kernels[n].hdr /\ \A q \in DOMAIN Kernels[n].hdr : p <= q

\* The search has passed over no header, and ends at the first one.
SearchInv ==
    /\ pc \in {"search", "word", "layout", "load"} => k \in 1..NumKernels
    /\ NoHeaderSkipped
    /\ pc = "layout" => IsFirst(k, offset)

Inv == TypeOK /\ HeapInv /\ SearchInv

\* The initial state.
LEMMA InitInv == Init => Inv
  <1> SUFFICES ASSUME Init PROVE Inv
      OBVIOUS
  <1>4. haveKernel \in BOOLEAN
      BY Zenon DEF Init
  <1> USE FixedBlocks DEF Init, heapMaxSize
  <1>1. TypeOK
    <2>1. 0 \in 0..MaxLines /\ 0 \in 0..NumKernels /\ 0 \in 0..(Wrap - 1)
        BY Stage2Assumption
    <2>2. left \in 0..8192 /\ config \in 0..8192 /\ left + config + leaked <= 8192
        OBVIOUS
    <2>3. DOMAIN mem = Memory
        OBVIOUS
    <2>4. /\ offset \in Nat /\ i \in Nat /\ ret \in Nat /\ dst \in Nat /\ leaked \in {0, BufferSize}
          /\ stop \in 0..(Wrap - 1) /\ k \in 0..NumKernels /\ lines \in 0..MaxLines
        BY <2>1
    <2> QED
        BY <1>4, <2>2, <2>3, <2>4 DEF TypeOK
  <1>2. HeapInv
    <2>1. ~InUse /\ Taken = 8192
        BY DEF Taken, InUse
    <2>2. BootInfoFits
        BY DEF BootInfoFits
    <2> QED
        BY <2>1, <2>2 DEF HeapInv
  <1>3. SearchInv
      BY DEF SearchInv, NoHeaderSkipped
  <1> QED
      BY <1>1, <1>2, <1>3 DEF Inv

\* What is known of the header the loader is at.
LEMMA AtHeader ==
    ASSUME Inv, pc = "layout"
    PROVE  /\ k \in 1..NumKernels /\ offset \in Nat /\ offset < Kernel.size
           /\ Kernel.size \in 0..(Wrap - 1) /\ Header \in Headers
  <1>1. k \in 1..NumKernels /\ offset \in DOMAIN Kernel.hdr
      BY DEF Inv, SearchInv, IsFirst, Kernel
  <1>2. KernelOK(Kernel)
      BY <1>1, Stage2Assumption DEF Kernel
  <1>3. offset \in 0..(Kernel.size - 1) /\ Kernel.size \in 0..(Wrap - 1) /\ Header \in Headers
      BY <1>1, <1>2 DEF KernelOK, Header
  <1> QED
      BY <1>1, <1>3, Stage2Assumption

\* The heap can hold the MultiBootInfo and the memory map, also in two pieces.
LEMMA RoomForInfo ==
    ASSUME Inv, pc = "done", buffers = "ok"
    PROVE  Room(InfoSize, MapSize)
  <1>1. /\ left \in Nat /\ config \in Nat /\ leaked \in {0, 1032}
        /\ left + config + leaked = 7612 - BlockSize(clusterSize)
      BY FixedBlocks DEF Inv, TypeOK, HeapInv, Taken, InUse, heapMaxSize
  <1>2. BlockSize(clusterSize) \in Nat /\ BlockSize(clusterSize) <= 4104
    <2>1. clusterSize \in {512, 1024, 2048, 4096, 8192, 16384, 32768, 65536}
        BY Stage2Assumption DEF Inv, HeapInv
    <2> QED
        BY <1>1, <2>1 DEF BlockSize
  <1>3. InfoSize = 136 /\ MapSize \in Nat /\ MapSize <= 779
    <2>1. mapCount \in 0..32
        BY Stage2Assumption DEF Inv, HeapInv
    <2>2. 24 * mapCount \in Nat /\ 24 * mapCount <= 768
        BY <2>1
    <2> QED
        BY <2>2, FixedBlocks, BlockSizes DEF MapSize
  <1>6. PICK a \in Nat : a = InfoSize /\ a = 136
      BY <1>3
  <1>7. PICK b \in Nat : b = MapSize /\ b <= 779
      BY <1>3
  <1>8. left + config + leaked >= 3508
      BY <1>1, <1>2
  <1>4. CASE leaked = 0
    <2>1. Holes = <<config + left>> /\ DOMAIN Holes = {1} /\ Holes[1] = config + left
        BY <1>4 DEF Holes
    <2>2. a <= Holes[1] /\ b <= Holes[1] - a
        BY <1>1, <1>4, <1>6, <1>7, <1>8, <2>1
    <2> QED
        BY <1>1, <1>6, <1>7, <2>1, <2>2 DEF Room
  <1>5. CASE leaked # 0
    <2>1. Holes = <<config, left>> /\ DOMAIN Holes = {1, 2} /\ Holes[1] = config /\ Holes[2] = left
        BY <1>5 DEF Holes
    <2>2. PICK j \in {1, 2} : /\ a <= Holes[j]
                              /\ \A l \in {1, 2} : a <= Holes[l] => Holes[j] <= Holes[l]
      <3>1. a <= config \/ a <= left
          BY <1>1, <1>5, <1>6, <1>7, <1>8
      <3>2. CASE a <= config /\ (config <= left \/ ~(a <= left))
          BY <1>1, <1>6, <2>1, <3>2
      <3>3. CASE a <= left /\ (left <= config \/ ~(a <= config))
          BY <1>1, <1>6, <2>1, <3>3
      <3> QED
          BY <1>1, <1>6, <3>1, <3>2, <3>3
    <2>3. b <= Holes[j] - a \/ \E l \in {1, 2} \ {j} : b <= Holes[l]
      <3>1. CASE j = 1
        <4>1. b <= config - a \/ b <= left
            BY <1>1, <1>5, <1>6, <1>7, <1>8
        <4> QED
            BY <2>1, <3>1, <4>1
      <3>2. CASE j = 2
        <4>1. b <= left - a \/ b <= config
            BY <1>1, <1>5, <1>6, <1>7, <1>8
        <4> QED
            BY <2>1, <3>2, <4>1
      <3> QED
          BY <3>1, <3>2
    <2> QED
        BY <1>6, <1>7, <2>1, <2>2, <2>3 DEF Room
  <1> QED
      BY <1>4, <1>5

\* What does not fit is not taken from the heap.
LEMMA RoomIsThere ==
    ASSUME Inv, NEW a \in Nat, NEW b \in Nat, Room(a, b)
    PROVE  a + b <= left + config
  <1>1. left \in Nat /\ config \in Nat
      BY DEF Inv, TypeOK
  <1>2. PICK j \in DOMAIN Holes : /\ a <= Holes[j]
                                  /\ b <= Holes[j] - a \/ \E l \in DOMAIN Holes \ {j} : b <= Holes[l]
      BY DEF Room
  <1>3. CASE leaked = 0
    <2>1. DOMAIN Holes = {1} /\ Holes[1] = config + left
        BY <1>3 DEF Holes
    <2> QED
        BY <1>1, <1>2, <2>1
  <1>4. CASE leaked # 0
    <2>1. DOMAIN Holes = {1, 2} /\ Holes[1] = config /\ Holes[2] = left
        BY <1>4 DEF Holes
    <2> QED
        BY <1>1, <1>2, <2>1
  <1> QED
      BY <1>3, <1>4

-----------------------------------------------------------------------------
(***************************************************************************)
(* Every step preserves it.                                                *)
(***************************************************************************)

\* The types.
LEMMA TypeStep == Inv /\ [Next]_vars => TypeOK'
  <1> SUFFICES ASSUME Inv, [Next]_vars PROVE TypeOK'
      OBVIOUS
  <1> USE DEF setup, search, load, result
  <1>1. TypeOK /\ HeapInv /\ SearchInv
      BY DEF Inv
  <1>21. heapMaxSize \in Nat /\ BufferSize \in Nat
      BY FixedBlocks DEF heapMaxSize
  <1>23. left \in Nat /\ config \in Nat /\ leaked \in Nat /\ left + config + leaked <= heapMaxSize
      BY <1>1, <1>21 DEF TypeOK
  <1>2. CASE UNCHANGED vars
      BY <1>1, <1>2 DEF TypeOK, vars
  <1>3. ASSUME InitFails \/ ConfigFails \/ ConfigTooBig PROVE TypeOK'
      BY <1>1, <1>3 DEF TypeOK, InitFails, ConfigFails, ConfigTooBig, Halt
  <1>4. ASSUME Mount PROVE TypeOK'
    <2>1. left' \in 0..heapMaxSize
      <3>1. BlockSize(clusterSize) \in Nat
        <4>1. clusterSize \in Nat
            BY <1>1, Stage2Assumption DEF HeapInv
        <4> QED
            BY <4>1, BlockSizes
      <3>2. left = heapMaxSize /\ left' = left - FsBytes - (IF WindowFits THEN BlockSize(clusterSize) ELSE 0)
          BY <1>1, <1>4 DEF HeapInv, Mount
      <3>3. heapMaxSize = 8192 /\ FsBytes = 580
          BY FixedBlocks DEF heapMaxSize
      <3> QED
        <4>1. PICK size \in Nat : size = BlockSize(clusterSize)
            BY <3>1
        <4>2. CASE WindowFits
          <5>1. 580 + size <= 8192 /\ left' = 8192 - 580 - size
              BY <3>2, <3>3, <4>1, <4>2 DEF WindowFits
          <5> QED
              BY <3>3, <5>1
        <4>3. CASE ~WindowFits
          <5>1. left' = 8192 - 580
              BY <3>2, <3>3, <4>3
          <5> QED
              BY <3>3, <5>1
        <4> QED
            BY <4>2, <4>3
    <2>2. leaked = 0 /\ config = 0
        BY <1>1, <1>4 DEF HeapInv, Mount
    <2> QED
        BY <1>1, <1>4, <2>1, <2>2 DEF TypeOK, Mount
  <1>5. ASSUME LoadConfig PROVE TypeOK'
    <2>1. PICK size \in ConfigSizes :
            /\ buffers' = IF HasRoom(size + 1) THEN buffers ELSE "null"
            /\ config' = IF HasRoom(size + 1) THEN BlockSize(size + 1) ELSE 0
            /\ left' = left - config'
        BY <1>5 DEF LoadConfig
    <2>2. size + 1 \in Nat /\ BlockSize(size + 1) \in Nat
      <3>1. size \in Nat
          BY Stage2Assumption
      <3> QED
          BY <3>1, BlockSizes
    <2>3. config' \in 0..heapMaxSize /\ left' \in 0..heapMaxSize /\ left' + config' + leaked <= heapMaxSize
        BY <1>1, <1>21, <2>1, <2>2 DEF HasRoom, TypeOK
    <2> QED
        BY <1>1, <1>5, <2>1, <2>3 DEF TypeOK, LoadConfig
  <1>6. ASSUME OtherLine \/ BadLine \/ EndOfScript PROVE TypeOK'
    <2>1. UNCHANGED <<left, setup, search, load, result>> /\ pc' \in {pc, "done"}
        BY <1>6 DEF OtherLine, BadLine, EndOfScript
    <2>2. lines' \in 0..MaxLines
      <3>1. lines' = lines \/ (lines < MaxLines /\ lines' = lines + 1)
          BY <1>6, Zenon DEF OtherLine, BadLine, EndOfScript, NextLine
      <3> QED
          BY <1>1, <3>1, Stage2Assumption DEF TypeOK
    <2> QED
        BY <1>1, <2>1, <2>2 DEF TypeOK
  <1>7. ASSUME NEW f \in 1..NumKernels, MultibootLine(f) PROVE TypeOK'
    <2>1. left' \in 0..heapMaxSize /\ left' <= left /\ left' \in Nat
        BY <1>1, <1>7, <1>21 DEF TypeOK, MultibootLine, HasRoom, BufferSize
    <2>2. lines' \in 0..MaxLines
        BY <1>1, <1>7, Stage2Assumption DEF TypeOK, MultibootLine, NextLine
    <2>3. left' + config + leaked <= heapMaxSize
        BY <1>21, <1>23, <2>1, SumShrinks
    <2>4. f \in 0..NumKernels
        BY Stage2Assumption
    <2>5. pc' \in {"search", "done"}
        BY <1>7 DEF MultibootLine
    <2>6. k' = f /\ offset' = 0 /\ i' = 0 /\ ret' = 0 /\ UNCHANGED <<setup, load, result>>
        BY <1>7 DEF MultibootLine
    <2> QED
        BY <1>1, <2>1, <2>2, <2>3, <2>4, <2>5, <2>6 DEF TypeOK
  <1>8. ASSUME ReadChunk PROVE TypeOK'
    <2>1. k \in 1..NumKernels
        BY <1>1, <1>8 DEF SearchInv, ReadChunk
    <2>2. ret' \in Nat
      <3>1. Chunk \in Nat /\ offset \in Nat
          BY <1>1, Stage2Assumption DEF TypeOK
      <3>2. ReadWords(offset, Chunk) \in Nat
          BY <2>1, <3>1, WordsNatural DEF ReadWords, Kernel
      <3> QED
          BY <1>8, <3>2 DEF ReadChunk
    <2> QED
        BY <1>1, <1>8, <2>2 DEF TypeOK, ReadChunk
  <1>22. ASSUME InUse PROVE /\ left + BufferSize \in 0..heapMaxSize
                            /\ left + BufferSize + config + leaked <= heapMaxSize
      BY <1>1, <1>21, <1>22 DEF TypeOK, HeapInv, Taken
  <1>9. ASSUME SearchFails PROVE TypeOK'
    <2>1. left' = left + BufferSize /\ InUse /\ UNCHANGED <<config, leaked>>
        BY <1>9 DEF SearchFails, InUse
    <2>2. left' \in 0..heapMaxSize /\ left' + config' + leaked' <= heapMaxSize
        BY <1>22, <2>1
    <2> QED
        BY <1>1, <1>9, <2>2 DEF TypeOK, SearchFails
  <1>10. ASSUME SkipWord PROVE TypeOK'
      BY <1>1, <1>10 DEF TypeOK, SkipWord
  <1>11. ASSUME FalseHeader PROVE TypeOK'
    <2>1. k \in 1..NumKernels /\ offset + i \in Nat
        BY <1>1, <1>11 DEF SearchInv, TypeOK, FalseHeader
    <2>2. ret' \in Nat
      <3>1. HdrWords \in Nat
          BY Stage2Assumption
      <3>2. ReadWords(offset + i, HdrWords) \in Nat
          BY <2>1, <3>1, WordsNatural DEF ReadWords, Kernel
      <3> QED
          BY <1>11, <3>2 DEF FalseHeader
    <2> QED
        BY <1>1, <1>11, <2>2 DEF TypeOK, FalseHeader
  <1>12. ASSUME FoundHeader PROVE TypeOK'
    <2>1. left' = left + BufferSize /\ InUse /\ UNCHANGED <<config, leaked>>
        BY <1>12 DEF FoundHeader, InUse
    <2>2. left' \in 0..heapMaxSize /\ left' + config' + leaked' <= heapMaxSize
        BY <1>22, <2>1
    <2> QED
        BY <1>1, <1>12, <2>2 DEF TypeOK, FoundHeader
  <1>13. ASSUME EndOfChunk PROVE TypeOK'
      BY <1>1, <1>13 DEF TypeOK, EndOfChunk
  <1>14. ASSUME RefuseKernel PROVE TypeOK'
      BY <1>1, <1>14 DEF TypeOK, RefuseKernel
  <1>15. ASSUME BeginLoad PROVE TypeOK'
    <2>1. /\ Header \in Headers /\ Wrap \in Nat \ {0} /\ offset \in Nat
        BY <1>15, AtHeader, Stage2Assumption DEF BeginLoad
    <2>2. FileStart(Header, offset) \in Nat /\ Header.load \in Nat
        BY <1>15, <2>1 DEF BeginLoad, LayoutOK, FileStart, Headers
    <2>3. LoopEnd(Header, offset) \in 0..(Wrap - 1)
      <3>1. Count(Header) \in Int
          BY <2>1 DEF Headers, Count
      <3> QED
          BY <2>1, <2>2, <3>1 DEF LoopEnd
    <2>4. left' \in 0..heapMaxSize /\ left' <= left /\ left' \in Nat
        BY <1>1, <1>15, <1>21 DEF TypeOK, BeginLoad, HasRoom, BufferSize
    <2>5. left' + config + leaked <= heapMaxSize
        BY <1>21, <1>23, <2>4, SumShrinks
    <2> QED
        BY <1>1, <1>15, <2>2, <2>3, <2>4, <2>5 DEF TypeOK, BeginLoad
  <1>16. ASSUME CopyChunk PROVE TypeOK'
    <2>1. k \in 1..NumKernels /\ offset \in Nat
        BY <1>1, <1>16 DEF SearchInv, TypeOK, CopyChunk
    <2>2. ReadWords(offset, Chunk) \in Nat
      <3>1. Chunk \in Nat
          BY Stage2Assumption
      <3> QED
          BY <2>1, <3>1, WordsNatural DEF ReadWords, Kernel
    <2>3. dst' \in Nat /\ offset' \in Nat
        BY <1>1, <1>16, <2>2 DEF TypeOK, CopyChunk
    <2>4. DOMAIN mem' = Memory
        BY <1>16 DEF CopyChunk
    <2> QED
        BY <1>1, <1>16, <2>3, <2>4 DEF TypeOK, CopyChunk
  <1>17. ASSUME LoadFails PROVE TypeOK'
    <2>1. leaked' = BufferSize /\ leaked = 0 /\ InUse /\ UNCHANGED <<left, config>>
        BY <1>1, <1>17 DEF HeapInv, LoadFails, InUse
    <2>2. left' + config' + leaked' <= heapMaxSize
        BY <1>1, <1>21, <1>22, <2>1 DEF TypeOK
    <2> QED
        BY <1>1, <1>17, <2>1, <2>2 DEF TypeOK, LoadFails
  <1>18. ASSUME EndLoad PROVE TypeOK'
    <2>1. haveKernel' \in BOOLEAN
        BY <1>18, Zenon DEF EndLoad
    <2>2. left' \in 0..heapMaxSize /\ left' + config + leaked <= heapMaxSize
      <3>1. left' = left + BufferSize /\ InUse
          BY <1>18 DEF EndLoad, InUse
      <3> QED
          BY <1>22, <3>1
    <2>3. DOMAIN mem' = Memory
        BY <1>18 DEF EndLoad
    <2> QED
        BY <1>1, <1>18, <2>1, <2>2, <2>3 DEF TypeOK, EndLoad
  <1>19. ASSUME Boot PROVE TypeOK'
    <2>1. MapSize \in Nat
      <3>1. 24 * mapCount \in Nat
          BY <1>1, Stage2Assumption DEF HeapInv
      <3> QED
          BY <3>1, BlockSizes DEF MapSize
    <2>2. Room(InfoSize, MapSize) => InfoSize + MapSize <= left + config
        BY <2>1, RoomIsThere, FixedBlocks
    <2>3. left' \in Nat /\ left' <= left + config
      <3>1. InfoSize \in Nat /\ left \in Nat /\ config \in Nat
          BY <1>1, <1>21, FixedBlocks DEF TypeOK
      <3>2. left' = left + config - (IF Room(InfoSize, MapSize) THEN InfoSize + MapSize ELSE 0)
          BY <1>19 DEF Boot
      <3> QED
          BY <2>1, <2>2, <3>1, <3>2
    <2>4. config' = 0 /\ UNCHANGED leaked /\ bootInfo' \in {"ok", "null"}
        BY <1>19 DEF Boot
    <2>5. /\ left' \in 0..heapMaxSize /\ config' \in 0..heapMaxSize
          /\ left' + config' + leaked' <= heapMaxSize
      <3>1. left' \in 0..heapMaxSize /\ 0 \in 0..heapMaxSize /\ left' + 0 + leaked <= heapMaxSize
          BY <1>21, <1>23, <2>3, SumMoves
      <3> QED
          BY <2>4, <3>1
    <2> QED
        BY <1>1, <1>19, <2>4, <2>5 DEF TypeOK, Boot
  <1>20. ASSUME NoKernel PROVE TypeOK'
    <2>1. left' \in 0..heapMaxSize /\ left' + config' + leaked' <= heapMaxSize
        BY <1>1, <1>20, <1>21 DEF TypeOK, NoKernel
    <2>2. config' \in 0..heapMaxSize
        BY <1>20, <1>21 DEF NoKernel
    <2> QED
        BY <1>1, <1>20, <2>1, <2>2 DEF TypeOK, NoKernel
  <1> QED
      BY <1>2, <1>3, <1>4, <1>5, <1>6, <1>7, <1>8, <1>9, <1>10, <1>11, <1>12, <1>13, <1>14, <1>15,
         <1>16, <1>17, <1>18, <1>19, <1>20 DEF Next, Script, FindHeader, LoadKernel

\* The steps of the script only move bytes between the parts of the heap.
LEMMA HeapKept ==
    ASSUME Inv, Taken' = Taken, UNCHANGED <<buffers, clusterSize, mapCount>>,
           pc \in {"line", "search", "word", "layout", "load"},
           pc' \in {"line", "search", "word", "layout", "load", "done"},
           leaked' # 0 => pc' = "done"
    PROVE  HeapInv'
  BY DEF Inv, HeapInv, BootInfoFits

\* The heap.
LEMMA HeapStep == Inv /\ [Next]_vars => HeapInv'
  <1> SUFFICES ASSUME Inv, [Next]_vars PROVE HeapInv'
      OBVIOUS
  <1> USE DEF setup, search, load, result
  <1>1. TypeOK /\ HeapInv /\ SearchInv
      BY DEF Inv
  <1>2. heapMaxSize \in Nat /\ BufferSize \in Nat /\ FsBytes \in Nat
      BY FixedBlocks DEF heapMaxSize
  <1>3. left \in Nat /\ config \in Nat /\ leaked \in Nat
      BY <1>1, <1>2 DEF TypeOK
  <1>4. pc \in {"line", "search", "word", "layout", "load"} => leaked = 0
      BY <1>1 DEF HeapInv
  <1>5. CASE UNCHANGED vars
      BY <1>1, <1>5 DEF HeapInv, Taken, InUse, BootInfoFits, vars
  <1>6. ASSUME InitFails \/ ConfigFails \/ ConfigTooBig PROVE HeapInv'
    <2>1. /\ pc \in {"init", "config"} /\ pc' = "halt"
          /\ UNCHANGED <<left, config, leaked, clusterSize, mapCount, buffers, bootInfo>>
        BY <1>6 DEF InitFails, ConfigFails, ConfigTooBig, Halt
    <2>2. Taken' = Taken
        BY <2>1 DEF Taken, InUse
    <2> QED
        BY <1>1, <2>1, <2>2 DEF HeapInv, BootInfoFits
  <1>7. ASSUME Mount PROVE HeapInv'
    <2>1. /\ pc = "init" /\ pc' = "config" /\ buffers' = (IF WindowFits THEN "ok" ELSE "null")
          /\ left' = left - FsBytes - (IF WindowFits THEN BlockSize(clusterSize) ELSE 0)
          /\ UNCHANGED <<config, leaked, clusterSize, mapCount, bootInfo>>
        BY <1>7 DEF Mount
    <2>2. left = heapMaxSize /\ config = 0 /\ leaked = 0
        BY <1>1, <2>1 DEF HeapInv
    <2>3. PICK size \in Nat : size = BlockSize(clusterSize)
      <3>1. clusterSize \in Nat
          BY <1>1, Stage2Assumption DEF HeapInv
      <3> QED
          BY <3>1, BlockSizes
    <2>4. Taken' = left'
      <3>1. PICK x \in Int : x = left'
          BY <1>2, <1>3, <2>1, <2>3
      <3>2. Taken' = x + 0 + 0 + 0
          BY <2>1, <2>2, <3>1 DEF Taken, InUse
      <3>3. x + 0 + 0 + 0 = x
          OBVIOUS
      <3> QED
          BY <3>1, <3>2, <3>3
    <2>5. CASE WindowFits
      <3>1. Taken' = heapMaxSize - FsBytes - size /\ Taken' <= heapMaxSize
          BY <1>2, <2>1, <2>2, <2>3, <2>4, <2>5
      <3> QED
          BY <1>1, <2>1, <2>2, <2>3, <3>1 DEF HeapInv, BootInfoFits
    <2>6. CASE ~WindowFits
      <3>1. Taken' <= heapMaxSize
          BY <1>2, <2>1, <2>2, <2>4, <2>6
      <3> QED
          BY <1>1, <2>1, <2>2, <2>6, <3>1 DEF HeapInv, BootInfoFits
    <2> QED
        BY <2>5, <2>6
  <1>8. ASSUME LoadConfig PROVE HeapInv'
    <2>1. PICK size \in ConfigSizes :
            /\ buffers' = IF HasRoom(size + 1) THEN buffers ELSE "null"
            /\ config' = IF HasRoom(size + 1) THEN BlockSize(size + 1) ELSE 0
            /\ left' = left - config'
        BY <1>8 DEF LoadConfig
    <2>2. config' \in Nat
      <3>1. size \in Nat
          BY Stage2Assumption
      <3>2. BlockSize(size + 1) \in Nat
          BY <3>1, BlockSizes
      <3> QED
          BY <2>1, <3>2
    <2>3. /\ pc = "config" /\ pc' = "line" /\ UNCHANGED <<leaked, clusterSize, mapCount, bootInfo>>
        BY <1>8 DEF LoadConfig
    <2>4. config = 0 /\ leaked = 0
        BY <1>1, <2>3 DEF HeapInv
    <2>5. Taken' = Taken
      <3>1. PICK c \in Nat : c = config'
          BY <2>2
      <3>2. Taken' = (left - c) + c + 0 + 0 /\ Taken = left + 0 + 0 + 0
          BY <2>1, <2>3, <2>4, <3>1 DEF Taken, InUse
      <3>3. PICK x \in Nat : x = left
          BY <1>3
      <3>4. (x - c) + c + 0 + 0 = x + 0 + 0 + 0
          OBVIOUS
      <3> QED
          BY <3>2, <3>3, <3>4
    <2>6. buffers' = "ok" => buffers = "ok"
        BY <2>1
    <2> QED
        BY <1>1, <2>3, <2>4, <2>5, <2>6 DEF HeapInv, BootInfoFits
  <1>9. ASSUME OtherLine \/ BadLine \/ EndOfScript \/ ReadChunk \/ SkipWord \/ FalseHeader
               \/ EndOfChunk \/ RefuseKernel \/ CopyChunk
        PROVE  HeapInv'
    <2>1. /\ UNCHANGED <<left, config, leaked, clusterSize, mapCount, buffers, bootInfo>>
          /\ \/ pc \in {"line", "layout"} /\ pc' \in {"line", "done"}
             \/ pc \in {"search", "word", "load"} /\ pc' \in {"search", "word", "load"}
        BY <1>9 DEF OtherLine, BadLine, EndOfScript, ReadChunk, SkipWord, FalseHeader, EndOfChunk,
                    RefuseKernel, CopyChunk, NextLine
    <2>2. Taken' = Taken
        BY <2>1 DEF Taken, InUse
    <2> QED
        BY <1>4, <2>1, <2>2, HeapKept
  <1>10. ASSUME NEW f \in 1..NumKernels, MultibootLine(f) PROVE HeapInv'
    <2>1. /\ UNCHANGED <<config, leaked, clusterSize, mapCount, buffers, bootInfo>>
          /\ pc = "line"
          /\ \/ pc' = "search" /\ left' = left - BufferSize
             \/ pc' = "done" /\ left' = left
        BY <1>10 DEF MultibootLine, NextLine
    <2>2. Taken' = Taken
      <3>1. CASE pc' = "search"
          BY <1>2, <1>3, <2>1, <3>1 DEF Taken, InUse
      <3>2. CASE pc' = "done" /\ left' = left
          BY <2>1, <3>2 DEF Taken, InUse
      <3> QED
          BY <2>1, <3>1, <3>2
    <2> QED
        BY <1>4, <2>1, <2>2, HeapKept
  <1>11. ASSUME SearchFails \/ FoundHeader \/ EndLoad PROVE HeapInv'
    <2>1. /\ UNCHANGED <<config, leaked, clusterSize, mapCount, buffers, bootInfo>>
          /\ pc \in {"search", "word", "load"} /\ pc' \in {"line", "layout", "done"}
          /\ left' = left + BufferSize
        BY <1>11 DEF SearchFails, FoundHeader, EndLoad
    <2>2. Taken' = Taken
        BY <1>2, <1>3, <2>1 DEF Taken, InUse
    <2> QED
        BY <1>4, <2>1, <2>2, HeapKept
  <1>12. ASSUME BeginLoad PROVE HeapInv'
    <2>1. /\ UNCHANGED <<config, leaked, clusterSize, mapCount, buffers, bootInfo>>
          /\ pc = "layout" /\ pc' = "load" /\ left' = left - BufferSize
        BY <1>12 DEF BeginLoad
    <2>2. Taken' = Taken
        BY <1>2, <1>3, <2>1 DEF Taken, InUse
    <2> QED
        BY <1>4, <2>1, <2>2, HeapKept
  <1>13. ASSUME LoadFails PROVE HeapInv'
    <2>1. /\ UNCHANGED <<left, config, clusterSize, mapCount, buffers, bootInfo>>
          /\ pc = "load" /\ pc' = "done" /\ leaked' = BufferSize
        BY <1>13 DEF LoadFails
    <2>2. Taken' = Taken
      <3>1. leaked = 0
          BY <1>4, <2>1
      <3> QED
          BY <1>2, <1>3, <2>1, <3>1 DEF Taken, InUse
    <2> QED
        BY <2>1, <2>2, HeapKept
  <1>14. ASSUME Boot PROVE HeapInv'
    <2>1. /\ UNCHANGED <<leaked, clusterSize, mapCount, buffers>>
          /\ pc = "done" /\ pc' = "boot"
          /\ bootInfo' = IF Room(InfoSize, MapSize) THEN "ok" ELSE "null"
        BY <1>14 DEF Boot
    <2>2. BootInfoFits'
        BY <2>1, RoomForInfo DEF BootInfoFits
    <2>3. Taken' <= heapMaxSize
      <3>1. Taken' = left' + config' + leaked' + 0
          BY <2>1 DEF Taken, InUse
      <3>2. TypeOK'
          BY TypeStep
      <3>7. left' \in 0..heapMaxSize /\ config' \in 0..heapMaxSize /\ leaked' \in {0, BufferSize}
          BY <3>2 DEF TypeOK
      <3>3. left' \in Int /\ config' \in Int /\ leaked' \in Int
          BY <1>2, <3>7
      <3>4. left' + config' + leaked' <= heapMaxSize
          BY <3>2 DEF TypeOK
      <3>5. PICK x \in Int, y \in Int, z \in Int : x = left' /\ y = config' /\ z = leaked'
          BY <3>3
      <3>6. x + y + z + 0 = x + y + z
          OBVIOUS
      <3> QED
          BY <3>1, <3>4, <3>5, <3>6
    <2> QED
        BY <1>1, <2>1, <2>2, <2>3 DEF HeapInv
  <1>15. ASSUME NoKernel PROVE HeapInv'
    <2>1. /\ UNCHANGED <<leaked, clusterSize, mapCount, buffers, bootInfo>>
          /\ pc = "done" /\ pc' = "halt"
        BY <1>15 DEF NoKernel
    <2>2. BootInfoFits'
        BY <2>1 DEF BootInfoFits
    <2>3. Taken' <= heapMaxSize
      <3>1. Taken' = left' + config' + leaked' + 0
          BY <2>1 DEF Taken, InUse
      <3>2. TypeOK'
          BY TypeStep
      <3>7. left' \in 0..heapMaxSize /\ config' \in 0..heapMaxSize /\ leaked' \in {0, BufferSize}
          BY <3>2 DEF TypeOK
      <3>3. left' \in Int /\ config' \in Int /\ leaked' \in Int
          BY <1>2, <3>7
      <3>4. left' + config' + leaked' <= heapMaxSize
          BY <3>2 DEF TypeOK
      <3>5. PICK x \in Int, y \in Int, z \in Int : x = left' /\ y = config' /\ z = leaked'
          BY <3>3
      <3>6. x + y + z + 0 = x + y + z
          OBVIOUS
      <3> QED
          BY <3>1, <3>4, <3>5, <3>6
    <2> QED
        BY <1>1, <2>1, <2>2, <2>3 DEF HeapInv
  <1> QED
      BY <1>5, <1>6, <1>7, <1>8, <1>9, <1>10, <1>11, <1>12, <1>13, <1>14, <1>15
         DEF Next, Script, FindHeader, LoadKernel

\* The search.
LEMMA SearchStep == Inv /\ [Next]_vars => SearchInv'
  <1> SUFFICES ASSUME Inv, [Next]_vars PROVE SearchInv'
      OBVIOUS
  <1> USE DEF setup, search, load, result
  <1>1. TypeOK /\ SearchInv
      BY DEF Inv
  <1>2. offset \in Nat /\ i \in Nat /\ ret \in Nat
      BY <1>1 DEF TypeOK
  <1>3. ASSUME NEW p, k \in 1..NumKernels, p \in DOMAIN Kernel.hdr PROVE p \in Nat /\ p \in Kernel.magic
    <2>1. KernelOK(Kernel)
        BY <1>3, Stage2Assumption DEF Kernel
    <2> QED
        BY <1>3, <2>1 DEF KernelOK
  <1>4. CASE UNCHANGED vars
      BY <1>1, <1>4 DEF SearchInv, NoHeaderSkipped, Kernel, vars
  <1>5. ASSUME pc' \notin {"search", "word", "layout", "load"} PROVE SearchInv'
      BY <1>5 DEF SearchInv, NoHeaderSkipped
  <1>6. ASSUME InitFails \/ ConfigFails \/ ConfigTooBig \/ Mount \/ LoadConfig \/ OtherLine \/ BadLine
               \/ EndOfScript \/ SearchFails \/ RefuseKernel \/ LoadFails \/ EndLoad \/ Boot \/ NoKernel
        PROVE  SearchInv'
    <2>1. pc' \in {"halt", "config", "line", "done", "boot"}
        BY <1>6 DEF InitFails, ConfigFails, ConfigTooBig, Halt, Mount, LoadConfig, OtherLine, BadLine,
                    EndOfScript, SearchFails, RefuseKernel, LoadFails, EndLoad, Boot, NoKernel, NextLine
    <2> QED
        BY <1>5, <2>1
  <1>7. ASSUME NEW f \in 1..NumKernels, MultibootLine(f) PROVE SearchInv'
    <2>1. k' = f /\ offset' = 0 /\ pc' \in {"search", "done"}
        BY <1>7 DEF MultibootLine
    <2>2. \A p \in DOMAIN Kernels[f].hdr : p \in Nat
        BY Stage2Assumption DEF KernelOK
    <2> QED
        BY <2>1, <2>2 DEF SearchInv, NoHeaderSkipped, Kernel
  <1>8. ASSUME ReadChunk PROVE SearchInv'
    <2>1. pc = "search" /\ pc' = "word" /\ k' = k /\ offset' = offset /\ i' = 0
        BY <1>8 DEF ReadChunk
    <2>2. k \in 1..NumKernels /\ \A p \in DOMAIN Kernel.hdr : p >= offset
        BY <1>1, <2>1 DEF SearchInv, NoHeaderSkipped
    <2> QED
        BY <1>2, <2>1, <2>2 DEF SearchInv, NoHeaderSkipped, Kernel
  <1>9. ASSUME SkipWord \/ FalseHeader PROVE SearchInv'
    <2>1. /\ pc = "word" /\ pc' = "word" /\ k' = k /\ offset' = offset /\ i' = i + 1
          /\ offset + i \notin DOMAIN Kernel.hdr \/ k \notin 1..NumKernels
        BY <1>3, <1>9 DEF SkipWord, FalseHeader
    <2>2. k \in 1..NumKernels /\ \A p \in DOMAIN Kernel.hdr : p >= offset + i
        BY <1>1, <2>1 DEF SearchInv, NoHeaderSkipped
    <2>3. \A p \in DOMAIN Kernel.hdr : p >= offset + (i + 1)
        BY <1>2, <1>3, <2>1, <2>2
    <2> QED
        BY <2>1, <2>2, <2>3 DEF SearchInv, NoHeaderSkipped, Kernel
  <1>10. ASSUME FoundHeader PROVE SearchInv'
    <2>1. /\ pc = "word" /\ pc' = "layout" /\ k' = k /\ offset' = offset + i
          /\ offset + i \in DOMAIN Kernel.hdr
        BY <1>10 DEF FoundHeader
    <2>2. k \in 1..NumKernels /\ \A p \in DOMAIN Kernel.hdr : p >= offset + i
        BY <1>1, <2>1 DEF SearchInv, NoHeaderSkipped
    <2>3. \A p \in DOMAIN Kernel.hdr : offset + i <= p
        BY <1>2, <1>3, <2>2
    <2> QED
        BY <2>1, <2>2, <2>3 DEF SearchInv, NoHeaderSkipped, IsFirst, Kernel
  <1>11. ASSUME EndOfChunk PROVE SearchInv'
    <2>1. pc = "word" /\ pc' = "search" /\ k' = k /\ offset' = offset + ret /\ i >= ret
        BY <1>11 DEF EndOfChunk
    <2>2. k \in 1..NumKernels /\ \A p \in DOMAIN Kernel.hdr : p >= offset + i
        BY <1>1, <2>1 DEF SearchInv, NoHeaderSkipped
    <2>3. \A p \in DOMAIN Kernel.hdr : p >= offset + ret
        BY <1>2, <1>3, <2>1, <2>2
    <2> QED
        BY <2>1, <2>2, <2>3 DEF SearchInv, NoHeaderSkipped, Kernel
  <1>12. ASSUME BeginLoad \/ CopyChunk PROVE SearchInv'
    <2>1. pc \in {"layout", "load"} /\ pc' = "load" /\ k' = k
        BY <1>12 DEF BeginLoad, CopyChunk
    <2> QED
        BY <1>1, <2>1 DEF SearchInv, NoHeaderSkipped
  <1> QED
      BY <1>4, <1>6, <1>7, <1>8, <1>9, <1>10, <1>11, <1>12 DEF Next, Script, FindHeader, LoadKernel

-----------------------------------------------------------------------------
(***************************************************************************)
(* The theorems that need nothing of the kernels.                          *)
(***************************************************************************)

\* The heap, the search and the types stay as Inv says.
THEOREM Invariance == Spec => []Inv
  <1>1. Inv /\ [Next]_vars => Inv'
      BY TypeStep, HeapStep, SearchStep DEF Inv
  <1> QED
      BY <1>1, InitInv, PTL DEF Spec

\* The type invariant; the heap is never overdrawn.
THEOREM TypeCorrect == Spec => []TypeOK
  BY Invariance, PTL DEF Inv

\* MBFindHeader passes over no valid header, whatever magic numbers are in the
\* file.
THEOREM NoneSkipped == Spec => []NoHeaderSkipped
  <1>1. Inv => NoHeaderSkipped
      BY DEF Inv, SearchInv
  <1> QED
      BY <1>1, Invariance, PTL

\* MBGenInfo always gets its memory, also after a load that failed.
THEOREM InfoFits == Spec => []BootInfoFits
  <1>1. Inv => BootInfoFits
      BY DEF Inv, HeapInv
  <1> QED
      BY <1>1, Invariance, PTL

-----------------------------------------------------------------------------
(***************************************************************************)
(* Loading.                                                                *)
(***************************************************************************)

\* The header p of file n is one that MBLoadKernel accepts.
Loadable(n, p) ==
    LET h == Kernels[n].hdr[p]
    IN  ~h.wantVideo /\ h.haveLayout /\ LayoutOK(h, p, Kernels[n].size)

Chosen(n, p) == n \in 1..NumKernels /\ p \in DOMAIN Kernels[n].hdr /\ Loadable(n, p)

\* A whole number of chunks.
WholeChunks(x) == \E q \in Nat : x = q * Chunk

\* Where in the file the text begins, and how much of it has been copied.
TextStart == FileStart(Loaded, hdrAt)
Done == offset - TextStart

\* The copy loop has copied what is between the beginning of the text and offset:
\* whole chunks, or everything that can be read; no more than the chunks that
\* the text begins.
CopyInv ==
    /\ Chosen(k, hdrAt)
    /\ stop = LoopEnd(Loaded, hdrAt)
    /\ Done >= 0 /\ dst = Loaded.load + Done
    /\ WholeChunks(Done) \/ offset >= Kernel.reach
    /\ TextStart <= Count(Loaded) => Done <= WordsOf(Kernel, TextStart, RoundUp(Count(Loaded)))
    /\ \A a \in Memory : Loaded.load <= a /\ a < dst => mem[a] = <<k, TextStart + (a - Loaded.load)>>

\* The load that is going on, or one that failed, has overwritten this word.
Disturbed(a) == (pc = "load" \/ leaked # 0) /\ Loaded.load <= a /\ a < dst

\* The kernel that was loaded last is in memory but for such words.
TextAt(a) == EntryHeader.load <= a /\ a < EntryHeader.loadEnd => mem[a] = TextWord(a)
BssAt(a) ==
    EntryHeader.loadEnd <= a /\ EntryEnd <= a /\ a < EntryHeader.bssEnd => mem[a] = Clear
KernelInv == WholeEntry => \A a \in Memory : Disturbed(a) \/ (TextAt(a) /\ BssAt(a))

LoadInv ==
    /\ pc = "load" => CopyInv
    /\ haveKernel => KernelInv
    /\ pc = "boot" => haveKernel

\* What is known of a header that is accepted.
LEMMA ChosenHeader ==
    ASSUME NEW n, NEW p, Chosen(n, p), NEW h, h = Kernels[n].hdr[p]
    PROVE  /\ h.load \in Nat /\ h.loadEnd \in Nat /\ h.bssEnd \in Nat
           /\ n \in 1..NumKernels /\ FileStart(h, p) \in Nat
           /\ Count(h) \in Nat /\ Count(h) < Wrap /\ h.loadEnd = h.load + Count(h)
           /\ Wrap \in Nat
  <1>1. n \in 1..NumKernels /\ p \in DOMAIN Kernels[n].hdr /\ Loadable(n, p)
      BY DEF Chosen
  <1>2. KernelOK(Kernels[n]) /\ Wrap \in Nat
      BY <1>1, Stage2Assumption
  <1>3. h \in Headers /\ p \in Nat
      BY <1>1, <1>2 DEF KernelOK
  <1>4. /\ h.load \in Nat /\ h.loadEnd \in Nat /\ h.bssEnd \in Nat /\ h.hdrAddr \in Nat
        /\ h.loadEnd < Wrap
    <2>1. /\ h.load \in 0..(Wrap - 1) /\ h.loadEnd \in 0..(Wrap - 1)
          /\ h.bssEnd \in 0..(Wrap - 1) /\ h.hdrAddr \in 0..(Wrap - 1)
        BY <1>3 DEF Headers
    <2> QED
        BY <1>2, <2>1
  <1>5. h.load < h.loadEnd /\ h.load <= h.hdrAddr /\ h.hdrAddr - h.load <= p
      BY <1>1 DEF Loadable, LayoutOK
  <1>6. FileStart(h, p) \in Nat
      BY <1>3, <1>4, <1>5 DEF FileStart
  <1>7. Count(h) \in Nat /\ Count(h) < Wrap /\ h.loadEnd = h.load + Count(h)
      BY <1>2, <1>4, <1>5 DEF Count
  <1> QED
      BY <1>1, <1>2, <1>4, <1>6, <1>7

\* Chunks stay whole.
LEMMA OneMoreChunk ==
    ASSUME NEW b \in Nat, NEW q \in Nat, NEW r \in Nat, q * b < r * b
    PROVE  q * b + b <= r * b /\ q * b + b = (q + 1) * b /\ q + 1 \in Nat
  <1>1. q + 1 <= r
      OBVIOUS
  <1>2. (q + 1) * b <= r * b
      BY <1>1
  <1> QED
      BY <1>2

\* RoundUp gives whole chunks.
LEMMA RoundsUp ==
    ASSUME NEW n \in Nat
    PROVE  RoundUp(n) \in Nat /\ n <= RoundUp(n) /\ WholeChunks(RoundUp(n))
  <1>1. Chunk \in Nat \ {0}
      BY Stage2Assumption
  <1>2. PICK x \in Nat : x = n + Chunk - 1
      BY <1>1
  <1>3. PICK q : q = x \div Chunk
      OBVIOUS
  <1>4. PICK r : r = x % Chunk
      OBVIOUS
  <1>5. q \in Nat /\ r \in 0..(Chunk - 1) /\ x = q * Chunk + r
      BY <1>1, <1>2, <1>3, <1>4, DivMod
  <1>6. PICK y : y = q * Chunk
      OBVIOUS
  <1>7. y \in Nat
      BY <1>1, <1>5, <1>6
  <1>8. n <= y
      BY <1>1, <1>2, <1>5, <1>6, <1>7
  <1>9. RoundUp(n) = y
      BY <1>2, <1>3, <1>6 DEF RoundUp
  <1> QED
      BY <1>5, <1>6, <1>7, <1>8, <1>9 DEF WholeChunks

\* What CopyInv says, in numbers.
LEMMA CopyNumbers ==
    ASSUME Inv, CopyInv
    PROVE  /\ k \in 1..NumKernels /\ Chunk \in Nat \ {0} /\ Kernel.reach \in Nat
           /\ Loaded.load \in Nat /\ Loaded.loadEnd \in Nat /\ Loaded.bssEnd \in Nat
           /\ Count(Loaded) \in Nat /\ Loaded.loadEnd = Loaded.load + Count(Loaded)
           /\ offset \in Nat /\ TextStart \in Nat /\ Done \in Nat /\ dst \in Nat
           /\ offset = TextStart + Done /\ dst = Loaded.load + Done
           /\ TextStart <= Count(Loaded) => stop = Count(Loaded) - TextStart
  <1>1. Chosen(k, hdrAt)
      BY DEF CopyInv
  <1>2. /\ Loaded.load \in Nat /\ Loaded.loadEnd \in Nat /\ Loaded.bssEnd \in Nat
        /\ k \in 1..NumKernels /\ TextStart \in Nat
        /\ Count(Loaded) \in Nat /\ Count(Loaded) < Wrap /\ Wrap \in Nat
        /\ Loaded.loadEnd = Loaded.load + Count(Loaded)
      BY <1>1, ChosenHeader DEF Loaded, Kernel, TextStart
  <1>3. offset \in Nat /\ dst \in Nat
      BY DEF Inv, TypeOK
  <1>4. Done \in Nat /\ offset = TextStart + Done /\ dst = Loaded.load + Done
      BY <1>2, <1>3 DEF CopyInv, Done
  <1>5. TextStart <= Count(Loaded) => stop = Count(Loaded) - TextStart
    <2>1. PICK c \in Nat : c = Count(Loaded) /\ c < Wrap
        BY <1>2
    <2>2. PICK s \in Nat : s = TextStart
        BY <1>2
    <2>3. stop = (c - s) % Wrap
        BY <2>1, <2>2 DEF CopyInv, LoopEnd, TextStart
    <2>4. s <= c => (c - s) % Wrap = c - s
        BY <1>2, <2>1
    <2> QED
        BY <2>1, <2>2, <2>3, <2>4
  <1>6. Kernel.reach \in Nat /\ Chunk \in Nat \ {0}
      BY <1>2, Stage2Assumption DEF Kernel, KernelOK
  <1> QED
      BY <1>2, <1>3, <1>4, <1>5, <1>6

\* One round of the copy loop: whole chunks stay whole, and no more is copied
\* than the chunks that the text begins.
LEMMA CopyStays ==
    ASSUME Inv, CopyInv, CopyChunk, NEW n, n = ReadWords(offset, Chunk)
    PROVE  /\ n \in Nat
           /\ WholeChunks(Done + n) \/ offset + n >= Kernel.reach
           /\ TextStart <= Count(Loaded) =>
                Done + n <= WordsOf(Kernel, TextStart, RoundUp(Count(Loaded)))
  <1>1. /\ k \in 1..NumKernels /\ Chunk \in Nat \ {0} /\ Kernel.reach \in Nat /\ Count(Loaded) \in Nat
        /\ offset \in Nat /\ TextStart \in Nat /\ Done \in Nat /\ offset = TextStart + Done
        /\ TextStart <= Count(Loaded) => stop = Count(Loaded) - TextStart
      BY CopyNumbers
  <1>2. offset < stop /\ n > 0
      BY DEF CopyChunk
  <1>3. /\ n \in Nat /\ n <= Chunk /\ offset + n <= Kernel.reach
        /\ n = Chunk \/ offset + n >= Kernel.reach
      BY <1>1, <1>2, WordsRead DEF ReadWords, Kernel
  <1>4. PICK q \in Nat : Done = q * Chunk
      BY <1>1, <1>2, <1>3 DEF CopyInv, WholeChunks
  <1>5. n = Chunk => WholeChunks(Done + n)
    <2>1. q * Chunk + Chunk = (q + 1) * Chunk /\ q + 1 \in Nat
        BY <1>1
    <2> QED
        BY <1>4, <2>1 DEF WholeChunks
  <1>6. ASSUME TextStart <= Count(Loaded)
        PROVE  Done + n <= WordsOf(Kernel, TextStart, RoundUp(Count(Loaded)))
    <2>1. PICK c \in Nat : c = RoundUp(Count(Loaded)) /\ Count(Loaded) <= c /\ WholeChunks(c)
        BY <1>1, RoundsUp
    <2>2. PICK r \in Nat : c = r * Chunk
        BY <2>1 DEF WholeChunks
    <2>3. Done < c
        BY <1>1, <1>2, <1>6, <2>1
    <2>4. q * Chunk + Chunk <= r * Chunk
        BY <1>1, <1>4, <2>2, <2>3, OneMoreChunk
    <2>5. Done + n <= c
        BY <1>1, <1>3, <1>4, <2>1, <2>2, <2>4
    <2>6. TextStart + (Done + n) <= Kernel.reach /\ Done + n \in Nat
        BY <1>1, <1>3
    <2> QED
        BY <1>1, <2>1, <2>5, <2>6, WordsRead DEF Kernel
  <1> QED
      BY <1>3, <1>5, <1>6

\* When the loop ends and all of the text can be read from the beginning of the
\* file on, all of it was copied.
LEMMA CopyEnds ==
    ASSUME Inv, CopyInv, EndLoad, Whole(Kernel, Loaded, hdrAt)
    PROVE  dst >= Loaded.loadEnd
  <1>1. /\ k \in 1..NumKernels /\ Chunk \in Nat \ {0} /\ Count(Loaded) \in Nat
        /\ Loaded.load \in Nat /\ Loaded.loadEnd = Loaded.load + Count(Loaded)
        /\ offset \in Nat /\ TextStart \in Nat /\ Done \in Nat /\ offset = TextStart + Done
        /\ dst = Loaded.load + Done /\ Kernel.reach \in Nat
        /\ TextStart <= Count(Loaded) => stop = Count(Loaded) - TextStart
      BY CopyNumbers
  <1>2. TextStart = 0 /\ Count(Loaded) <= Kernel.reach
      BY DEF Whole, TextStart
  <1>3. CASE offset >= stop
      BY <1>1, <1>2, <1>3
  <1>4. CASE ReadWords(offset, Chunk) = 0
    <2>1. offset + 0 >= Kernel.reach
      <3>1. PICK r : r = WordsOf(Kernels[k], offset, Chunk)
          OBVIOUS
      <3>2. r = Chunk \/ offset + r >= Kernels[k].reach
          BY <1>1, <3>1, WordsRead
      <3> QED
          BY <1>1, <1>4, <3>1, <3>2 DEF ReadWords, Kernel
    <2> QED
        BY <1>1, <1>2, <2>1
  <1> QED
      BY <1>3, <1>4 DEF EndLoad

\* How far the copy has got.
LEMMA CopyBounded ==
    ASSUME Inv, CopyInv, TextStart <= Count(Loaded)
    PROVE  /\ CopyEnd(Kernel, Loaded, hdrAt) \in Nat /\ dst <= CopyEnd(Kernel, Loaded, hdrAt)
           /\ Loaded.load <= dst
  <1>1. /\ k \in 1..NumKernels /\ Count(Loaded) \in Nat /\ Loaded.load \in Nat
        /\ TextStart \in Nat /\ Done \in Nat /\ dst = Loaded.load + Done
      BY CopyNumbers
  <1>2. PICK w : w = WordsOf(Kernel, TextStart, RoundUp(Count(Loaded)))
      OBVIOUS
  <1>3. w \in Nat
      BY <1>1, <1>2, RoundsUp, WordsRead DEF Kernel
  <1>4. Done <= w
      BY <1>2 DEF CopyInv
  <1>5. CopyEnd(Kernel, Loaded, hdrAt) = Loaded.load + w
      BY <1>2 DEF CopyEnd, TextStart
  <1> QED
      BY <1>1, <1>3, <1>4, <1>5

\* Loading begins with nothing copied.
LEMMA LoadBegins ==
    ASSUME Inv, BeginLoad
    PROVE  CopyInv'
  <1>1. /\ pc = "layout" /\ k' = k /\ hdrAt' = offset /\ dst' = Header.load /\ mem' = mem
        /\ stop' = LoopEnd(Header, offset) /\ offset' = FileStart(Header, offset)
      BY DEF BeginLoad, result
  <1>2. Chosen(k, offset)
    <2>1. k \in 1..NumKernels /\ offset \in DOMAIN Kernels[k].hdr
        BY <1>1 DEF Inv, SearchInv, IsFirst
    <2>2. Loadable(k, offset)
        BY DEF BeginLoad, Loadable, Header, Kernel
    <2> QED
        BY <2>1, <2>2 DEF Chosen
  <1>3. Header.load \in Nat /\ FileStart(Header, offset) \in Nat /\ Count(Header) \in Nat
      BY <1>2, ChosenHeader DEF Header, Kernel
  <1>4. Loaded' = Header /\ Kernel' = Kernel /\ TextStart' = FileStart(Header, offset)
      BY <1>1 DEF Loaded, Header, Kernel, TextStart
  <1>5. Done' = 0
      BY <1>1, <1>3, <1>4 DEF Done
  <1>6. WholeChunks(0)
    <2>1. 0 = 0 * Chunk
        BY Stage2Assumption
    <2> QED
        BY <2>1 DEF WholeChunks
  <1>7. 0 <= WordsOf(Kernel, FileStart(Header, offset), RoundUp(Count(Header)))
    <2>1. PICK r : r = WordsOf(Kernel, FileStart(Header, offset), RoundUp(Count(Header)))
        OBVIOUS
    <2>2. r \in Nat
        BY <1>2, <1>3, <2>1, RoundsUp, WordsRead DEF Kernel, Chosen
    <2> QED
        BY <2>1, <2>2
  <1>8. \A a \in Memory : ~(Header.load <= a /\ a < Header.load)
    <2>1. \A a \in Memory : a \in Nat
        BY Stage2Assumption
    <2> QED
        BY <1>3, <2>1
  <1>9. WholeChunks(Done') /\ dst' = Header.load + Done' /\ Done' >= 0
      BY <1>1, <1>3, <1>5, <1>6
  <1> QED
      BY <1>1, <1>2, <1>4, <1>5, <1>7, <1>8, <1>9 DEF CopyInv

\* A round of the loop copies the next part of the text.
LEMMA LoadGoesOn ==
    ASSUME Inv, CopyInv, CopyChunk
    PROVE  CopyInv'
  <1>1. PICK n : n = ReadWords(offset, Chunk)
      OBVIOUS
  <1>2. /\ n \in Nat
        /\ WholeChunks(Done + n) \/ offset + n >= Kernel.reach
        /\ TextStart <= Count(Loaded) =>
             Done + n <= WordsOf(Kernel, TextStart, RoundUp(Count(Loaded)))
      BY <1>1, CopyStays
  <1>3. /\ dst' = dst + n /\ offset' = offset + n /\ UNCHANGED <<k, stop, hdrAt>>
        /\ mem' = [a \in Memory |-> IF dst <= a /\ a < dst + n
                                    THEN <<k, offset + (a - dst)>> ELSE mem[a]]
      BY <1>1 DEF CopyChunk
  <1>4. /\ Loaded.load \in Nat /\ offset \in Nat /\ TextStart \in Nat /\ Done \in Nat /\ dst \in Nat
        /\ offset = TextStart + Done /\ dst = Loaded.load + Done
      BY CopyNumbers
  <1>5. Loaded' = Loaded /\ Kernel' = Kernel /\ TextStart' = TextStart
      BY <1>3 DEF Loaded, Kernel, TextStart
  <1>6. Done' = Done + n /\ Done' >= 0 /\ dst' = Loaded.load + Done'
      BY <1>2, <1>3, <1>4, <1>5 DEF Done
  <1>7. ASSUME NEW a \in Memory, Loaded.load <= a /\ a < dst + n
        PROVE  mem'[a] = <<k, TextStart + (a - Loaded.load)>>
    <2>1. a \in Nat
        BY Stage2Assumption
    <2>2. CASE dst <= a
      <3>1. mem'[a] = <<k, offset + (a - dst)>>
          BY <1>3, <1>7, <2>2
      <3>2. offset + (a - dst) = TextStart + (a - Loaded.load)
          BY <1>4, <2>1
      <3> QED
          BY <3>1, <3>2
    <2>3. CASE a < dst
      <3>1. mem'[a] = mem[a]
          BY <1>3, <1>4, <2>1, <2>3
      <3> QED
          BY <1>7, <2>3, <3>1 DEF CopyInv
    <2> QED
        BY <1>4, <2>1, <2>2, <2>3
  <1>8. Chosen(k, hdrAt) /\ stop = LoopEnd(Loaded, hdrAt)
      BY DEF CopyInv
  <1>9. WholeChunks(Done') \/ offset' >= Kernel'.reach
      BY <1>2, <1>3, <1>5, <1>6
  <1>10. TextStart' <= Count(Loaded') =>
             Done' <= WordsOf(Kernel', TextStart', RoundUp(Count(Loaded')))
      BY <1>2, <1>5, <1>6
  <1>11. \A a \in Memory : Loaded'.load <= a /\ a < dst' =>
             mem'[a] = <<k', TextStart' + (a - Loaded'.load)>>
      BY <1>3, <1>5, <1>7
  <1>12. Chosen(k', hdrAt') /\ stop' = LoopEnd(Loaded', hdrAt')
      BY <1>3, <1>5, <1>8
  <1> QED
      BY <1>6, <1>9, <1>10, <1>11, <1>12, <1>5 DEF CopyInv

\* At its end the kernel is complete, if it can be.
LEMMA LoadIsDone ==
    ASSUME Inv, CopyInv, EndLoad
    PROVE  KernelInv'
  <1>1. /\ kernelEntry' = <<k, hdrAt>> /\ UNCHANGED <<k, hdrAt>>
        /\ mem' = [a \in Memory |-> IF dst <= a /\ a < dst + BSSSize(Loaded)
                                    THEN Clear ELSE mem[a]]
      BY DEF EndLoad, search, load
  <1>2. /\ EntryKernel' = Kernel /\ EntryHeader' = Loaded /\ kernelEntry'[1] = k /\ kernelEntry'[2] = hdrAt
        /\ EntryEnd' = CopyEnd(Kernel, Loaded, hdrAt)
      BY <1>1 DEF EntryHeader, EntryKernel, EntryEnd, Loaded, Kernel
  <1>3. SUFFICES ASSUME Whole(Kernel, Loaded, hdrAt), NEW a \in Memory
                 PROVE  TextAt(a)' /\ BssAt(a)'
      BY <1>2 DEF KernelInv, WholeEntry
  <1>4. /\ Loaded.load \in Nat /\ Loaded.loadEnd \in Nat /\ Loaded.bssEnd \in Nat /\ dst \in Nat
        /\ Count(Loaded) \in Nat /\ TextStart \in Nat
      BY CopyNumbers
  <1>5. a \in Nat
      BY Stage2Assumption
  <1>6. dst >= Loaded.loadEnd
      BY <1>3, CopyEnds
  <1>7. ASSUME Loaded.load <= a /\ a < Loaded.loadEnd
        PROVE  mem'[a] = <<k, FileStart(Loaded, hdrAt) + (a - Loaded.load)>>
    <2>1. a < dst /\ ~(dst <= a)
        BY <1>4, <1>5, <1>6, <1>7
    <2>2. mem'[a] = mem[a]
        BY <1>1, <2>1
    <2> QED
        BY <1>7, <2>1, <2>2 DEF CopyInv, TextStart
  <1>8. ASSUME Loaded.loadEnd <= a, CopyEnd(Kernel, Loaded, hdrAt) <= a, a < Loaded.bssEnd
        PROVE  mem'[a] = Clear
    <2>1. /\ CopyEnd(Kernel, Loaded, hdrAt) \in Nat
          /\ dst <= CopyEnd(Kernel, Loaded, hdrAt)
      <3>1. TextStart <= Count(Loaded)
          BY <1>3, <1>4 DEF Whole, TextStart
      <3> QED
          BY <3>1, CopyBounded
    <2>2. BSSSize(Loaded) = Loaded.bssEnd - Loaded.loadEnd
        BY <1>4, <1>5, <1>8 DEF BSSSize
    <2>3. dst <= a /\ a < dst + BSSSize(Loaded)
        BY <1>4, <1>5, <1>6, <1>8, <2>1, <2>2
    <2> QED
        BY <1>1, <2>3
  <1>9. TextAt(a)'
      BY <1>2, <1>7 DEF TextAt, TextWord
  <1>10. BssAt(a)'
      BY <1>2, <1>8 DEF BssAt
  <1> QED
      BY <1>9, <1>10

\* What was loaded stays, but for the words another load overwrites.
LEMMA KernelStays ==
    ASSUME haveKernel => KernelInv, UNCHANGED <<haveKernel, kernelEntry>>,
           \A a \in Memory : Disturbed(a)' \/ (~Disturbed(a) /\ mem'[a] = mem[a])
    PROVE  haveKernel' => KernelInv'
  <1> SUFFICES ASSUME haveKernel, WholeEntry', NEW a \in Memory, ~Disturbed(a)'
               PROVE  TextAt(a)' /\ BssAt(a)'
      BY DEF KernelInv
  <1>1. /\ EntryHeader' = EntryHeader /\ EntryKernel' = EntryKernel /\ EntryEnd' = EntryEnd
        /\ WholeEntry /\ mem'[a] = mem[a] /\ TextWord(a)' = TextWord(a)
      BY DEF EntryHeader, EntryKernel, EntryEnd, WholeEntry, TextWord
  <1>2. TextAt(a) /\ BssAt(a)
      BY <1>1 DEF KernelInv
  <1> QED
      BY <1>1, <1>2 DEF TextAt, BssAt

\* Loading, and what was loaded.
LEMMA LoadStep == Inv /\ LoadInv /\ [Next]_vars => LoadInv'
  <1> SUFFICES ASSUME Inv, LoadInv, [Next]_vars PROVE LoadInv'
      OBVIOUS
  <1> USE DEF setup, search, load, result
  <1>1. CASE UNCHANGED vars
    <2>1. /\ UNCHANGED <<pc, leaked, k, hdrAt, offset, stop, dst, haveKernel, kernelEntry, mem>>
          /\ Loaded' = Loaded /\ Kernel' = Kernel /\ TextStart' = TextStart /\ Done' = Done
        BY <1>1 DEF vars, Loaded, Kernel, TextStart, Done
    <2>2. CopyInv => CopyInv'
        BY <2>1 DEF CopyInv
    <2>3. haveKernel' => KernelInv'
      <3>1. \A a \in Memory : Disturbed(a)' = Disturbed(a)
          BY <2>1 DEF Disturbed
      <3>2. /\ EntryHeader' = EntryHeader /\ EntryKernel' = EntryKernel /\ EntryEnd' = EntryEnd
          BY <2>1 DEF EntryHeader, EntryKernel, EntryEnd
      <3> QED
          BY <2>1, <3>1, <3>2 DEF LoadInv, KernelInv, WholeEntry, TextAt, BssAt, TextWord
    <2> QED
        BY <2>1, <2>2, <2>3 DEF LoadInv
  <1>2. leaked # 0 => pc \in {"done", "boot", "halt"}
      BY DEF Inv, HeapInv
  <1>3. ASSUME NEW a PROVE pc \notin {"load", "done", "boot", "halt"} => ~Disturbed(a)
      BY <1>2 DEF Disturbed
  <1>4. ASSUME UNCHANGED <<haveKernel, kernelEntry, mem>>, pc' # "load", pc' = "boot" => haveKernel,
               \A a \in Memory : Disturbed(a)' \/ ~Disturbed(a)
        PROVE  LoadInv'
    <2>1. haveKernel' => KernelInv'
        BY <1>4, KernelStays DEF LoadInv
    <2> QED
        BY <1>4, <2>1 DEF LoadInv
  <1>5. ASSUME InitFails \/ ConfigFails \/ ConfigTooBig \/ Mount \/ LoadConfig \/ OtherLine \/ BadLine
               \/ EndOfScript \/ (\E f \in 1..NumKernels : MultibootLine(f)) \/ ReadChunk
               \/ SearchFails \/ SkipWord \/ FalseHeader \/ FoundHeader \/ EndOfChunk \/ RefuseKernel
        PROVE  LoadInv'
    <2>1. UNCHANGED <<haveKernel, kernelEntry, mem>>
        BY <1>5 DEF InitFails, ConfigFails, ConfigTooBig, Halt, Mount, LoadConfig, OtherLine, BadLine,
                    EndOfScript, MultibootLine, ReadChunk, SearchFails, SkipWord, FalseHeader,
                    FoundHeader, EndOfChunk, RefuseKernel
    <2>2. pc' \notin {"load", "boot"} /\ pc \notin {"load", "done", "boot", "halt"}
        BY <1>5 DEF InitFails, ConfigFails, ConfigTooBig, Halt, Mount, LoadConfig, OtherLine, BadLine,
                    EndOfScript, MultibootLine, ReadChunk, SearchFails, SkipWord, FalseHeader,
                    FoundHeader, EndOfChunk, RefuseKernel, NextLine
    <2> QED
        BY <1>3, <1>4, <2>1, <2>2
  <1>6. ASSUME Boot \/ NoKernel PROVE LoadInv'
    <2>1. /\ UNCHANGED <<haveKernel, kernelEntry, mem, leaked, k, hdrAt, dst>>
          /\ pc = "done" /\ pc' \in {"boot", "halt"} /\ (pc' = "boot" => haveKernel)
        BY <1>6 DEF Boot, NoKernel
    <2>2. \A a \in Memory : Disturbed(a)' = Disturbed(a)
        BY <2>1 DEF Disturbed, Loaded, Kernel
    <2> QED
        BY <1>4, <2>1, <2>2
  <1>7. ASSUME LoadFails PROVE LoadInv'
    <2>1. /\ UNCHANGED <<haveKernel, kernelEntry, mem, k, hdrAt, dst>>
          /\ pc = "load" /\ pc' = "done" /\ leaked' # 0
        BY <1>7, FixedBlocks DEF LoadFails
    <2>2. \A a \in Memory : Disturbed(a)' = Disturbed(a)
        BY <2>1 DEF Disturbed, Loaded, Kernel
    <2> QED
        BY <1>4, <2>1, <2>2
  <1>8. ASSUME BeginLoad PROVE LoadInv'
    <2>1. pc = "layout" /\ pc' = "load" /\ UNCHANGED <<haveKernel, kernelEntry, mem>> /\ CopyInv'
        BY <1>8, LoadBegins DEF BeginLoad
    <2>2. haveKernel' => KernelInv'
        BY <1>3, <2>1, KernelStays DEF LoadInv
    <2> QED
        BY <2>1, <2>2 DEF LoadInv
  <1>9. ASSUME CopyChunk PROVE LoadInv'
    <2>1. /\ pc = "load" /\ pc' = "load" /\ UNCHANGED <<haveKernel, kernelEntry>> /\ CopyInv
          /\ UNCHANGED <<k, hdrAt>>
        BY <1>9 DEF CopyChunk, LoadInv
    <2>2. CopyInv'
        BY <1>9, <2>1, LoadGoesOn
    <2>3. ASSUME NEW a \in Memory PROVE Disturbed(a)' \/ (~Disturbed(a) /\ mem'[a] = mem[a])
      <3>1. PICK n : n = ReadWords(offset, Chunk)
          OBVIOUS
      <3>2. /\ n \in Nat /\ dst \in Nat /\ Loaded.load \in Nat /\ Done \in Nat
            /\ dst = Loaded.load + Done
          BY <1>9, <2>1, <3>1, CopyStays, CopyNumbers
      <3>3. /\ dst' = dst + n /\ Loaded' = Loaded
            /\ mem' = [b \in Memory |-> IF dst <= b /\ b < dst + n
                                        THEN <<k, offset + (b - dst)>> ELSE mem[b]]
          BY <1>9, <2>1, <3>1 DEF CopyChunk, Loaded, Kernel
      <3>4. a \in Nat
          BY Stage2Assumption
      <3>5. CASE dst <= a /\ a < dst + n
          BY <2>1, <3>2, <3>3, <3>4, <3>5 DEF Disturbed
      <3>6. CASE ~(dst <= a /\ a < dst + n)
        <4>1. mem'[a] = mem[a]
            BY <3>3, <3>6
        <4>2. Disturbed(a) => Disturbed(a)'
            BY <2>1, <3>2, <3>3, <3>4 DEF Disturbed
        <4> QED
            BY <4>1, <4>2
      <3> QED
          BY <3>5, <3>6
    <2>4. haveKernel' => KernelInv'
        BY <2>1, <2>3, KernelStays DEF LoadInv
    <2> QED
        BY <2>1, <2>2, <2>4 DEF LoadInv
  <1>10. ASSUME EndLoad PROVE LoadInv'
    <2>1. pc = "load" /\ pc' = "line" /\ CopyInv
        BY <1>10 DEF EndLoad, LoadInv
    <2>2. KernelInv'
        BY <1>10, <2>1, LoadIsDone
    <2> QED
        BY <2>1, <2>2 DEF LoadInv
  <1> QED
      BY <1>1, <1>5, <1>6, <1>7, <1>8, <1>9, <1>10 DEF Next, Script, FindHeader, LoadKernel

\* LoadInv is invariant.
THEOREM LoadInvariance == Spec => []LoadInv
  <1>1. Init => LoadInv
      BY DEF Init, LoadInv
  <1> QED
      BY <1>1, LoadStep, Invariance, PTL DEF Spec

\* The text and the data of the kernel that is started are in memory, if its file
\* begins with them and can be read to their end, but for what a load that failed
\* after it has overwritten, whatever other lines of the script loaded before.
THEOREM TextIsLoaded == Spec => []TextLoaded
  <1>1. LoadInv => TextLoaded
    <2> SUFFICES ASSUME LoadInv, pc = "boot", WholeEntry, NEW a \in Memory, ~Spoiled(a)
                 PROVE  EntryHeader.load <= a /\ a < EntryHeader.loadEnd => mem[a] = TextWord(a)
        BY DEF TextLoaded
    <2>1. ~Disturbed(a) /\ KernelInv
        BY DEF LoadInv, Disturbed, Spoiled
    <2> QED
        BY <2>1 DEF KernelInv, TextAt
  <1> QED
      BY <1>1, LoadInvariance, PTL

\* Under the same conditions its BSS is zero from where the copy ended.
THEOREM BssIsCleared == Spec => []BssCleared
  <1>1. LoadInv => BssCleared
    <2> SUFFICES ASSUME LoadInv, pc = "boot", WholeEntry, NEW a \in Memory, ~Spoiled(a)
                 PROVE  EntryHeader.loadEnd <= a /\ EntryEnd <= a /\ a < EntryHeader.bssEnd
                            => mem[a] = Clear
        BY DEF BssCleared
    <2>1. ~Disturbed(a) /\ KernelInv
        BY DEF LoadInv, Disturbed, Spoiled
    <2> QED
        BY <2>1 DEF KernelInv, BssAt
  <1> QED
      BY <1>1, LoadInvariance, PTL

\* A load writes nothing below the load address, and nothing behind the last
\* chunk of the text and as many words as the BSS has, as long as no more is in
\* front of the text than the text is long.
THEOREM StaysInside == Spec => WritesStayInside
  <1>1. Inv /\ LoadInv /\ [Next]_vars =>
            [\A a \in Memory : mem'[a] # mem[a] /\ FileStart(Loaded, hdrAt) <= Count(Loaded) =>
                /\ Loaded.load <= a
                /\ a < CopyEnd(Kernel, Loaded, hdrAt) + Max({0, Loaded.bssEnd - Loaded.loadEnd})]_vars
    <2> DEFINE last == CopyEnd(Kernel, Loaded, hdrAt)
    <2> SUFFICES ASSUME Inv, LoadInv, [Next]_vars, NEW a \in Memory, mem'[a] # mem[a],
                        TextStart <= Count(Loaded)
                 PROVE  Loaded.load <= a /\ a < last + Max({0, Loaded.bssEnd - Loaded.loadEnd})
        BY DEF TextStart
    <2>1. CopyChunk \/ EndLoad
        BY DEF Next, Script, FindHeader, LoadKernel, InitFails, ConfigFails, ConfigTooBig, Halt, Mount,
               LoadConfig, OtherLine, BadLine, MultibootLine, EndOfScript, ReadChunk, SearchFails,
               SkipWord, FalseHeader, FoundHeader, EndOfChunk, RefuseKernel, BeginLoad, LoadFails,
               Boot, NoKernel, result, vars
    <2>2. CopyInv
        BY <2>1 DEF CopyChunk, EndLoad, LoadInv
    <2>3. /\ Loaded.load \in Nat /\ Loaded.loadEnd \in Nat /\ Loaded.bssEnd \in Nat /\ dst \in Nat
          /\ a \in Nat /\ last \in Nat /\ dst <= last /\ Loaded.load <= dst
        BY <2>2, CopyNumbers, CopyBounded, Stage2Assumption
    <2>4. PICK b \in Nat : /\ b = Max({0, Loaded.bssEnd - Loaded.loadEnd}) /\ b = BSSSize(Loaded)
      <3>1. PICK x \in Int : x = Loaded.bssEnd - Loaded.loadEnd
          BY <2>3
      <3>2. Max({0, x}) = IF 0 >= x THEN 0 ELSE x
          BY MaxOfTwo
      <3>3. BSSSize(Loaded) = IF 0 >= x THEN 0 ELSE x
          BY <2>3, <3>1 DEF BSSSize
      <3> QED
          BY <3>1, <3>2, <3>3
    <2> HIDE DEF last
    <2>5. CASE EndLoad
      <3>1. dst <= a /\ a < dst + b
          BY <2>4, <2>5 DEF EndLoad
      <3> QED
          BY <2>3, <2>4, <3>1
    <2>6. CASE CopyChunk
      <3>1. PICK n : n = ReadWords(offset, Chunk)
          OBVIOUS
      <3>2. dst <= a /\ a < dst + n
          BY <2>6, <3>1 DEF CopyChunk
      <3>3. n \in Nat /\ dst + n <= last
        <4>1. PICK w : w = WordsOf(Kernel, TextStart, RoundUp(Count(Loaded)))
            OBVIOUS
        <4>2. n \in Nat /\ Done + n <= w
            BY <2>2, <2>6, <3>1, <4>1, CopyStays
        <4>3. last = Loaded.load + w
            BY <4>1 DEF last, CopyEnd, TextStart
        <4>4. Done \in Nat /\ dst = Loaded.load + Done
            BY <2>2, CopyNumbers
        <4>5. w \in Nat
          <5>1. k \in 1..NumKernels /\ TextStart \in Nat /\ RoundUp(Count(Loaded)) \in Nat
              BY <2>2, CopyNumbers, RoundsUp
          <5> QED
              BY <4>1, <5>1, WordsNatural DEF Kernel
        <4> QED
            BY <2>3, <4>2, <4>3, <4>4, <4>5
      <3> QED
          BY <2>3, <2>4, <3>2, <3>3
    <2> QED
        BY <2>1, <2>5, <2>6
  <1> QED
      BY <1>1, Invariance, LoadInvariance, PTL DEF Spec, WritesStayInside
=============================================================================
