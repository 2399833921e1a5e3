------------------------------- MODULE Stage2 -------------------------------
(***************************************************************************)
(* The second stage (stage2/stage2.cpp): it sets itself up, reads BOOT.CFG,*)
(* executes the script in it line by line, and starts the kernel the last  *)
(* successful "multiboot" line loaded.  Every read from the disk may fail. *)
(*                                                                         *)
(* Files and high memory are counted in words.  A word of a kernel file is *)
(* known by its place <<k, j>> (word j of kernel k); what the file system  *)
(* returns is taken from module FatFs: the words asked for, fewer at the   *)
(* end of the file or where its chain of clusters ends or is taken to end  *)
(* (reach), or an error.                                                   *)
(***************************************************************************)
EXTENDS Integers, FiniteSetsExt

CONSTANTS
    NumKernels,
    Kernels,        \* 1..NumKernels -> kernel file, see KernelOK
    Chunk,          \* words of the 1024 byte buffer
    HdrWords,       \* words of a MultiBootHeader
    MaxSearch,      \* multiBootMaxSearch, in words
    Wrap,           \* 2^32: where uint32_t arithmetic wraps around
    ClusterSizes,   \* bytes per cluster of the boot partition
    ConfigSizes,    \* bytes of BOOT.CFG
    MapCounts,      \* entries of the BIOS memory map
    MaxLines,       \* bound: commands in BOOT.CFG
    Memory          \* the addresses of high memory

bootConfigMaxSize == 4096
heapMaxSize == 8192

Old == <<0, 0>>     \* a word nobody wrote
Clear == <<0, 1>>   \* a zero word

\* The fields of a MultiBootHeader that are used: two flags and addresses.
Headers ==
    [wantVideo : BOOLEAN, haveLayout : BOOLEAN, hdrAddr : 0..(Wrap - 1), load : 0..(Wrap - 1),
     loadEnd : 0..(Wrap - 1), bssEnd : 0..(Wrap - 1), entry : 0..(Wrap - 1)]

\* A kernel file: its size, how many of its words can be read, where the magic
\* number occurs in it, and the header at those places where IsValid() accepts
\* what is read (of a header that is cut off, the rest is what was in hdr before).
KernelOK(f) ==
    /\ f.size \in 0..(Wrap - 1)
    /\ f.reach \in 0..f.size
    /\ f.magic \subseteq 0..(f.size - 1)
    /\ DOMAIN f.hdr \subseteq f.magic
    /\ \A p \in DOMAIN f.hdr : f.hdr[p] \in Headers

\* A cluster of a FAT file system is a power of two of sectors, at most 128;
\* the memory map of the second stage has room for 32 entries.
ASSUME Stage2Assumption ==
    /\ Wrap \in Nat \ {0}
    /\ NumKernels \in Nat /\ DOMAIN Kernels = 1..NumKernels
    /\ \A n \in 1..NumKernels : KernelOK(Kernels[n])
    /\ Chunk \in Nat /\ HdrWords \in 1..Chunk
    /\ MaxSearch \in Nat /\ MaxLines \in Nat
    /\ ClusterSizes \subseteq {512, 1024, 2048, 4096, 8192, 16384, 32768, 65536}
    /\ ConfigSizes \subseteq Nat
    /\ MapCounts \subseteq 0..32
    /\ Memory \subseteq 0..(Wrap - 1)

VARIABLES
    pc,         \* where main() is, see the actions
    left,       \* free bytes of the heap, in one piece until BOOT.CFG is freed
    config,     \* bytes of the block that holds BOOT.CFG
    leaked,     \* bytes behind it that nobody will free
    clusterSize, mapCount,
    buffers,    \* the windows of FatFs and fileBuffer: "none", "ok" or "null"
    bootInfo,   \* the MultiBootInfo and its memory map: "none", "ok" or "null"
    lines,      \* bound: lines executed
    k,          \* the kernel file of the current "multiboot" line
    offset,     \* position in that file
    i, ret,     \* locals of MBFindHeader
    dst, stop,  \* MBLoadKernel: where to copy to, where the loop ends
    hdrAt,      \* MBLoadKernel: where in the file the header is
    haveKernel,
    kernelEntry,\* <<kernel, position of its header>>
    mem         \* high memory

vars == <<pc, left, config, leaked, clusterSize, mapCount, buffers, bootInfo, lines,
          k, offset, i, ret, dst, stop, hdrAt, haveKernel, kernelEntry, mem>>
search == <<k, offset, i, ret>>
load == <<dst, stop, hdrAt>>
result == <<haveKernel, kernelEntry, mem>>
setup == <<config, leaked, clusterSize, mapCount, buffers, bootInfo>>

\* malloc(n) on a heap in which nothing was freed: a header and whole words.
BlockSize(n) == 8 + (((n + 3) \div 4) * 4)
BufferSize == BlockSize(1024)
\* Mutant: malloc() always succeeds.
HasRoomAlways(n) == TRUE

HasRoom(n) == left >= BlockSize(n)

Kernel == Kernels[k]
ScanSize == Min({Kernel.size, MaxSearch})

\* The result of ReadAt() where no read fails.
WordsOf(f, from, n) == Max({0, Min({n, f.reach - from})})
ReadWords(from, n) == WordsOf(Kernel, from, n)

-----------------------------------------------------------------------------
Init ==
    /\ pc = "init"
    /\ left = heapMaxSize
    /\ config = 0 /\ leaked = 0
    /\ clusterSize \in ClusterSizes
    /\ mapCount \in MapCounts
    /\ buffers = "none" /\ bootInfo = "none"
    /\ lines = 0
    /\ k = 0 /\ offset = 0 /\ i = 0 /\ ret = 0
    /\ dst = 0 /\ stop = 0 /\ hdrAt = 0
    /\ haveKernel = FALSE
    /\ kernelEntry = <<0, 0>>
    /\ mem = [a \in Memory |-> Old]

(***************************************************************************)
(* main(): initialization and the config file                              *)
(***************************************************************************)
Halt ==
    /\ pc' = "halt"
    /\ UNCHANGED <<left, setup, lines, search, load, result>>

\* The drive, the A20 line or the memory map cannot be set up.
InitFails == pc = "init" /\ Halt

\* The objects BIOSBlockDevice (20 bytes) and FatFs (24 bytes) and the two
\* windows of FatFs are allocated.  Nothing checks the windows for nullptr.
FsBytes == BlockSize(20) + BlockSize(24) + BlockSize(512)
WindowFits == FsBytes + BlockSize(clusterSize) <= left

Mount ==
    /\ pc = "init"
    /\ buffers' = IF WindowFits THEN "ok" ELSE "null"
    /\ left' = left - FsBytes - (IF WindowFits THEN BlockSize(clusterSize) ELSE 0)
    /\ pc' = "config"
    /\ UNCHANGED <<config, leaked, clusterSize, mapCount, bootInfo, lines, search, load, result>>

\* No BOOT.CFG, or it cannot be read.
ConfigFails == pc = "config" /\ Halt

ConfigTooBig ==
    /\ pc = "config"
    /\ \E size \in ConfigSizes : size > bootConfigMaxSize
    /\ Halt

LoadConfig ==
    /\ pc = "config"
    /\ \E size \in ConfigSizes :
        /\ size <= bootConfigMaxSize
        /\ buffers' = IF HasRoom(size + 1) THEN buffers ELSE "null"
        /\ config' = IF HasRoom(size + 1) THEN BlockSize(size + 1) ELSE 0
        /\ left' = left - config'
    /\ pc' = "line"
    /\ UNCHANGED <<leaked, clusterSize, mapCount, bootInfo, lines, search, load, result>>

(***************************************************************************)
(* RunScript: a line that fails ends the script, not the boot.             *)
(***************************************************************************)
NextLine == pc = "line" /\ lines < MaxLines /\ lines' = lines + 1

\* echo, info and lines without a command.
OtherLine ==
    /\ NextLine
    /\ UNCHANGED <<pc, left, setup, search, load, result>>

\* Unknown commands, info about something unknown, a kernel file that is not
\* there.
BadLine ==
    /\ NextLine
    /\ pc' = "done"
    /\ UNCHANGED <<left, setup, search, load, result>>

\* CmdMultiboot found the file; MBFindHeader gets its buffer or gives up.
MultibootLine(f) ==
    /\ NextLine
    /\ k' = f /\ offset' = 0 /\ i' = 0 /\ ret' = 0
    /\ IF HasRoom(1024)
       THEN pc' = "search" /\ left' = left - BufferSize
       ELSE pc' = "done" /\ UNCHANGED left
    /\ UNCHANGED <<setup, load, result>>

EndOfScript ==
    /\ pc = "line"
    /\ pc' = "done"
    /\ UNCHANGED <<left, setup, lines, search, load, result>>

(***************************************************************************)
(* MBFindHeader.  ret is the length of the chunk first, and of the header  *)
(* that was read last once a magic number was seen.                        *)
(***************************************************************************)
ReadChunk ==
    /\ pc = "search" /\ offset < ScanSize
    /\ ReadWords(offset, Chunk) > 0
    /\ ret' = ReadWords(offset, Chunk)
    /\ i' = 0
    /\ pc' = "word"
    /\ UNCHANGED <<left, setup, lines, k, offset, load, result>>

\* fail: the buffer is freed; so it is when nothing was found, or not read.
SearchFails ==
    /\ \/ pc = "search"
       \/ pc = "word" /\ i < ret /\ offset + i \in Kernel.magic
    /\ pc' = "done"
    /\ left' = left + BufferSize
    /\ UNCHANGED <<setup, lines, search, load, result>>

SkipWord ==
    /\ pc = "word" /\ i < ret
    /\ offset + i \notin Kernel.magic
    /\ i' = i + 1
    /\ UNCHANGED <<pc, left, setup, lines, k, offset, ret, load, result>>

\* IsValid() refuses what follows the magic number.
FalseHeader ==
    /\ pc = "word" /\ i < ret
    /\ offset + i \in Kernel.magic \ DOMAIN Kernel.hdr
    /\ ReadWords(offset + i, HdrWords) > 0
    /\ ret' = ReadWords(offset + i, HdrWords)
    /\ i' = i + 1
    /\ UNCHANGED <<pc, left, setup, lines, k, offset, load, result>>

FoundHeader ==
    /\ pc = "word" /\ i < ret
    /\ offset + i \in DOMAIN Kernel.hdr
    /\ ReadWords(offset + i, HdrWords) > 0
    /\ offset' = offset + i
    /\ left' = left + BufferSize
    /\ pc' = "layout"
    /\ UNCHANGED <<setup, lines, k, i, ret, load, result>>

\* Mutants: the offset advances by a whole chunk; not at all.
EndOfChunkWhole ==
    /\ pc = "word" /\ i >= ret
    /\ offset' = offset + Chunk
    /\ pc' = "search"
    /\ UNCHANGED <<left, setup, lines, k, i, ret, load, result>>

EndOfChunkStays ==
    /\ pc = "word" /\ i >= ret
    /\ pc' = "search"
    /\ UNCHANGED <<left, setup, lines, search, load, result>>

EndOfChunk ==
    /\ pc = "word" /\ i >= ret
    /\ offset' = offset + ret
    /\ pc' = "search"
    /\ UNCHANGED <<left, setup, lines, k, i, ret, load, result>>

(***************************************************************************)
(* MultiBootHeader::ExtractMemLayout and MBLoadKernel                      *)
(***************************************************************************)
Count(h) == h.loadEnd - h.load
FileStart(h, at) == at - (h.hdrAddr - h.load)
\* Mutants: the last word is missed; the BSS is taken to begin at the text.
BSSSizeShort(h) == h.bssEnd - h.loadEnd - 1
BSSSizeWhole(h) == h.bssEnd - h.load

BSSSize(h) == IF h.bssEnd > h.loadEnd THEN h.bssEnd - h.loadEnd ELSE 0

LayoutOK(h, at, size) ==
    /\ h.load < h.loadEnd
    /\ h.load <= h.bssEnd
    /\ h.load <= h.hdrAddr /\ h.hdrAddr < h.loadEnd
    /\ h.load <= h.entry /\ h.entry < h.loadEnd
    /\ h.hdrAddr - h.load <= at
    /\ Count(h) <= size - FileStart(h, at)

Header == Kernel.hdr[offset]

RefuseKernel ==
    /\ pc = "layout"
    /\ \/ Header.wantVideo \/ ~Header.haveLayout
       \/ ~LayoutOK(Header, offset, Kernel.size)
       \/ ~HasRoom(1024)
    /\ pc' = "done"
    /\ UNCHANGED <<left, setup, lines, search, load, result>>

\* The bound of the copy loop is count - fileStart, in 32 bits.
LoopEnd(h, at) == (Count(h) - FileStart(h, at)) % Wrap

BeginLoad ==
    /\ pc = "layout"
    /\ ~Header.wantVideo /\ Header.haveLayout
    /\ LayoutOK(Header, offset, Kernel.size)
    /\ HasRoom(1024)
    /\ left' = left - BufferSize
    /\ dst' = Header.load
    /\ stop' = LoopEnd(Header, offset)
    /\ hdrAt' = offset
    /\ offset' = FileStart(Header, offset)
    /\ pc' = "load"
    /\ UNCHANGED <<setup, lines, k, i, ret, result>>

\* From here on offset is the position of the copy loop.
Loaded == Kernel.hdr[hdrAt]

\* Mutant: every chunk goes to the same place.
CopyChunkInPlace ==
    /\ pc = "load" /\ offset < stop
    /\ LET n == ReadWords(offset, Chunk)
       IN  /\ n > 0
           /\ mem' = [a \in Memory |-> IF dst <= a /\ a < dst + n
                                       THEN <<k, offset + (a - dst)>> ELSE mem[a]]
           /\ offset' = offset + n
    /\ UNCHANGED <<pc, left, setup, lines, k, i, ret, load, haveKernel, kernelEntry>>

\* One round of the loop; CopyMemory32 runs in protected mode.
CopyChunk ==
    /\ pc = "load" /\ offset < stop
    /\ LET n == ReadWords(offset, Chunk)
       IN  /\ n > 0
           /\ mem' = [a \in Memory |-> IF dst <= a /\ a < dst + n
                                       THEN <<k, offset + (a - dst)>> ELSE mem[a]]
           /\ dst' = dst + n
           /\ offset' = offset + n
    /\ UNCHANGED <<pc, left, setup, lines, k, i, ret, stop, hdrAt, haveKernel, kernelEntry>>

\* The buffer is not freed on this path.
LoadFails ==
    /\ pc = "load" /\ offset < stop /\ offset < Kernel.size
    /\ leaked' = BufferSize
    /\ pc' = "done"
    /\ UNCHANGED <<left, config, clusterSize, mapCount, buffers, bootInfo, lines, search, load,
                   result>>

\* ClearMemory32 from where the copy ended, then back to the script.  Nothing
\* tells a read that ends early from the end of the file.
EndLoad ==
    /\ pc = "load"
    /\ offset >= stop \/ ReadWords(offset, Chunk) = 0
    /\ mem' = [a \in Memory |-> IF dst <= a /\ a < dst + BSSSize(Loaded)
                                THEN Clear ELSE mem[a]]
    /\ left' = left + BufferSize
    /\ haveKernel' = TRUE
    /\ kernelEntry' = <<k, hdrAt>>
    /\ pc' = "line"
    /\ UNCHANGED <<setup, lines, search, load>>

(***************************************************************************)
(* main(), after the script                                                *)
(***************************************************************************)

\* Mutant: the config file is still in memory.
HolesBeforeFree == <<left>>

\* The pieces of free memory once the config file is freed: one, or two with
\* the leaked buffer between them.  malloc() takes the smallest one that fits.
Holes == IF leaked = 0 THEN <<config + left>> ELSE <<config, left>>

Room(a, b) ==
    \E j \in DOMAIN Holes :
        /\ a <= Holes[j]
        /\ \A l \in DOMAIN Holes : a <= Holes[l] => Holes[j] <= Holes[l]
        /\ b <= Holes[j] - a \/ \E l \in DOMAIN Holes \ {j} : b <= Holes[l]

InfoSize == BlockSize(128)                  \* sizeof(MultiBootInfo)
MapSize == BlockSize(24 * mapCount)         \* sizeof(MultiBootMmap) each

\* MBGenInfo() does not look at what operator new returned.
Boot ==
    /\ pc = "done" /\ haveKernel
    /\ bootInfo' = IF Room(InfoSize, MapSize) THEN "ok" ELSE "null"
    /\ config' = 0
    /\ left' = left + config - (IF Room(InfoSize, MapSize) THEN InfoSize + MapSize ELSE 0)
    /\ pc' = "boot"
    /\ UNCHANGED <<leaked, clusterSize, mapCount, buffers, lines, search, load, result>>

NoKernel ==
    /\ pc = "done" /\ ~haveKernel
    /\ config' = 0
    /\ left' = left + config
    /\ pc' = "halt"
    /\ UNCHANGED <<leaked, clusterSize, mapCount, buffers, bootInfo, lines, search, load, result>>

-----------------------------------------------------------------------------
FindHeader ==
    ReadChunk \/ SearchFails \/ SkipWord \/ FalseHeader \/ FoundHeader \/ EndOfChunk
LoadKernel == RefuseKernel \/ BeginLoad \/ CopyChunk \/ LoadFails \/ EndLoad
Script == OtherLine \/ BadLine \/ (\E f \in 1..NumKernels : MultibootLine(f)) \/ EndOfScript

Next ==
    \/ InitFails \/ Mount \/ ConfigFails \/ ConfigTooBig \/ LoadConfig
    \/ Script \/ FindHeader \/ LoadKernel
    \/ Boot \/ NoKernel

Spec == Init /\ [][Next]_vars

\* One thread, no interrupts to wait for: the loader keeps running until it
\* halts or starts the kernel.  No single branch is promised.
FairSpec == Spec /\ WF_vars(Next)

-----------------------------------------------------------------------------
(***************************************************************************)
(* Properties                                                              *)
(***************************************************************************)

\* The type of each variable of the second stage.
TypeOK ==
    /\ pc \in {"init", "config", "line", "search", "word", "layout", "load", "done",
               "boot", "halt"}
    /\ left \in 0..heapMaxSize
    /\ config \in 0..heapMaxSize /\ leaked \in {0, BufferSize}
    /\ left + config + leaked <= heapMaxSize
    /\ buffers \in {"none", "ok", "null"} /\ bootInfo \in {"none", "ok", "null"}
    /\ lines \in 0..MaxLines
    /\ k \in 0..NumKernels
    /\ offset \in Nat /\ i \in Nat /\ ret \in Nat /\ dst \in Nat
    /\ stop \in 0..(Wrap - 1)
    /\ haveKernel \in BOOLEAN
    /\ DOMAIN mem = Memory

EntryKernel == Kernels[kernelEntry[1]]
EntryHeader == EntryKernel.hdr[kernelEntry[2]]

\* Nothing is in front of its text, and all of the text can be read.
Whole(f, h, at) == FileStart(h, at) = 0 /\ Count(h) <= f.reach
WholeEntry == Whole(EntryKernel, EntryHeader, kernelEntry[2])

\* A load that failed got as far as this word.
Spoiled(a) == leaked # 0 /\ Loaded.load <= a /\ a < dst

\* Where the copy of a kernel ends: the chunk the text ends in is copied to its
\* end, or to that of the file.
RoundUp(n) == ((n + Chunk - 1) \div Chunk) * Chunk
CopyEnd(f, h, at) == h.load + WordsOf(f, FileStart(h, at), RoundUp(Count(h)))
EntryEnd == CopyEnd(EntryKernel, EntryHeader, kernelEntry[2])

TextWord(a) == <<kernelEntry[1], FileStart(EntryHeader, kernelEntry[2]) + (a - EntryHeader.load)>>

\* When a kernel is started whose file begins with the text and can be read to
\* the end of it, text and data are in memory as they are in the file, at the
\* place the header asks for, but for what a later load that failed has put
\* there.  Other kernels that were loaded to the same place have left nothing.
TextLoaded ==
    pc = "boot" /\ WholeEntry =>
        \A a \in Memory : EntryHeader.load <= a /\ a < EntryHeader.loadEnd /\ ~Spoiled(a) =>
            mem[a] = TextWord(a)

\* And its BSS is zero, from where the copy ended: a text that ends inside a
\* chunk and not with the file is followed by words of the file.
BssCleared ==
    pc = "boot" /\ WholeEntry =>
        \A a \in Memory : EntryHeader.loadEnd <= a /\ EntryEnd <= a /\ a < EntryHeader.bssEnd
                          /\ ~Spoiled(a) => mem[a] = Clear

\* A kernel that is started is in memory as it is in the file: what "multiboot"
\* is for.
StartedIsComplete ==
    pc = "boot" =>
        \A a \in Memory : EntryHeader.load <= a /\ a < EntryHeader.loadEnd => mem[a] = TextWord(a)

\* When the kernel is started, the MultiBootInfo and the memory map it gets
\* were allocated, although nothing checks that and a failed load leaks its
\* buffer into the middle of the heap.
BootInfoFits == pc = "boot" /\ buffers = "ok" => bootInfo = "ok"

\* The search passes over no valid header, so the header it stops at is the
\* first one, also when the magic number occurs before it by chance and ret is
\* overwritten with the length of the false header.
NoHeaderSkipped ==
    /\ pc = "search" => \A p \in DOMAIN Kernel.hdr : p >= offset
    /\ pc = "word" => \A p \in DOMAIN Kernel.hdr : p >= offset + i

\* Loading a file that has at most as many words in front of the text as the text
\* has writes only to the memory between the load address and the end of the
\* last chunk, and as many words behind that as the BSS has.
WritesStayInside ==
    [][\A a \in Memory : mem'[a] # mem[a] /\ FileStart(Loaded, hdrAt) <= Count(Loaded) =>
            /\ Loaded.load <= a
            /\ a < CopyEnd(Kernel, Loaded, hdrAt) + Max({0, Loaded.bssEnd - Loaded.loadEnd})]_vars

\* However the reads and the script go, the loader ends up halted or in the
\* kernel.
Decides == <>(pc \in {"boot", "halt"})

=============================================================================
