# Formal models of hausboot

TLA+ models of hausboot, a BIOS boot loader in C++ with a demo kernel and two
host tools. TLC checks them on small instances; TLAPS proves all their safety
properties for every instance. `PROJECT.json` lists the runs, the source lines
behind each definition, the mutants that show each property can fail, the
findings, the hazards and the theorems.

## The system

| Component | Source | State it keeps | Operations |
|---|---|---|---|
| MBR, VBR | `mbr/`, `vbr/`, `include/part/`, `include/Stage2Header.h` | boot sector, drive, partition entry, second stage header | pick the active partition, load a sector; load up to 30 reserved sectors, verify, jump |
| second stage | `stage2/stage2.cpp`, `include/kernel/MultiBootHeader.h` | config buffer, `haveKernel`, `kernelEntry`, high memory | set up, read `BOOT.CFG`, `echo`/`info`/`multiboot`, start the kernel |
| heap | `stage2/heap.cpp` | list of headers in 8 KiB behind the stack | `HeapInit`, `malloc`, `free` |
| FAT reader | `include/fs/FatFs.h` | one table sector, one data cluster | `FindByPath`, `ReadAt` |
| BIOS services | `include/BIOS/`, `lib/BIOS/e820.S` | drive geometry, memory map | read sectors by CHS, E820, text output |
| A20, mode switch | `lib/pm86/`, `include/device/PS2Controller.h`, `SysCtrl.h` | gate A20, processor mode | `EnableA20`, `ProtectedModeCall` |
| kernel | `kernel/`, `include/device/VideoMemory.h`, `TextScreen.h` | video memory, cursor | print the multiboot information, halt |
| fatedit | `tools/fatedit.cpp` | table in memory, image file | `dir`, `type`, `mkdir`, `pack`, write back |
| installfat | `tools/installfat.cpp` | image file | install VBR and second stage |

They meet in four places. The image on the disk: `installfat` and `fatedit`
write what VBR, second stage and `FatFs` read. The memory map: the second stage
gets it from the BIOS and the kernel prints it. The heap: the second stage, the
windows of `FatFs` and the information for the kernel share 8192 bytes. High
memory: the second stage fills it, the kernel runs in it.

hausboot is one thread; the only thing that moves beside it is the hardware: the
A20 line rises some time after it was turned on, and the keyboard controller is
busy as long as it likes. What is hard is failure and order: a read may fail at
every sector and leaves caches half loaded; a host tool may die between any two
writes; two tools edit the same reserved sectors; malloc may fail in the middle of a script; and loops
walk lists and chains that earlier operations left behind. The arithmetic is
done in bytes with boundaries at entries, chunks, clusters and rows.

What makes the parts correct: the heap never overlaps blocks or loses memory;
the editor's chains stay disjoint and its view is what was asked for; the reader
returns what is on the disk, which is what the editor finds there; the boot
sectors start a whole second stage or none, as far as a sum can tell; the verdict
on the A20 line is true; a kernel that is started is complete; the console shows
the text; every loop ends. Not all of that is so, see the violated runs.

## Modules

| Module | Models | State and actions |
|---|---|---|
| `Heap` | `stage2/heap.cpp` | `next` and `reserved` are the header fields, `it`, `found` and `pc` the loops. `CallMalloc`, `Scan`, `MallocFail`, `Reserve` are `malloc()`; `CallFree`, `Merge`, `MergeSkip`, `MergeDone` are `free()`, one loop turn per step. `live` is a history variable: what the callers hold. |
| `BlockPool` | nothing: the promise of malloc and free | `Ask`, `Grant`, `Refuse`, `Release` without a list. |
| `FatEdit` | `tools/fatedit.cpp` | `fat` is the table in memory, `imgFat`, `data`, `fsinfo` the image. `Open`; `CreateDirectory`, `PackDirectory` and their failures; `Write` and `Extend` are `FileWriter::Append`; `AppendDirectoryEntry`; `WriteTable`, `WriteFsInfo`. `Crash` can be added anywhere. `tree`, `saved`, `lost` are history. |
| `FatName` | `include/fs/FatName.h`, `FatDirent.h`, `FatDirentLong.h`, `ScanDirectory` of fatedit | no state: short names, how an entry stores one (`Stored`) and gives it back (`NameToString`), and the editor's reading of a directory as a fold over its slots. |
| `FatFs` (extends `FatName`) | `include/fs/FatFs.h` | `fatSector`/`dataCluster` are what the code believes is in the windows, `fatWindow`/`dataWindow` what is. Calls, loop heads, sector loads, table lookups, copying, scanning are steps; each load has a failing twin. `want` is history: the answers computed from the disk, and by the editor's `FindFile`. |
| `Stage2` | `stage2/stage2.cpp`, `MultiBootHeader.h` | `pc` follows `main()`, the script, `MBFindHeader` and `MBLoadKernel`; `left`, `config`, `leaked` are the heap as far as the loader sees it; `mem` is high memory. |
| `A20` | `lib/pm86/a20.cpp`, `PS2Controller.h`, `SysCtrl.h` | `gate`, `rising`, `works`, `present`, `portA` are hardware, `mem` the two bytes of the test. Each access to memory or to a port is a step; `GateRises` may come between any two. |
| `MemoryMap` | `BIOS/MemoryMap.h`, `e820.S`, `MultiBootInfo.h`, `MultiBootMmap.h`, `MBGenInfo`, `PrintMemoryMap`, `TextScreen.h` | `ent`, `count`, `temp`, `ebx` are the E820 loop, `info` the structure for the kernel, `mmap` the kernel's pointer, `shown` its output. `LoadEntry`, `LoadEnds`, `LoadFails` are the three answers of the BIOS. |
| `Startup` | the part of `main()` that joins them | composes `A20` and `MemoryMap`: the map is loaded only when the line is on. |
| `BiosDisk` | `CHSPacked.h`, `BiosDisk.h` | no state: packing, LBA to CHS, registers, and what the BIOS makes of them. |
| `BootChain` (extends `BiosDisk`) | `installfat.cpp`, `mbr.cpp`, `vbr.cpp`, `Stage2Header.h`, `MBREntry.h`, `BIOSBlockDevice.h` | `img` is the image, sector by sector; `inst` the installer, one sector written per step, `InstallStops` at any of them; `boot` the chain from power on to the open partition, `BiosError` at any call; `EditImage` is the end of a fatedit session. `complete`, `fault` are history. |
| `Arithmetic` | nothing: powers, for numbers of so many digits or bits | no state. |
| `VideoMemory` | `VideoMemory.h`, `kernel.cpp` | `x`, `y`, `cells`, `cursor`; one action per class of character, `ScrollUp` one cell per step. |

`HeapProofs`, `FatEditProofs`, `FatFsProofs`, `Stage2Proofs`, `StartupProofs`,
`BootChainProofs` and `VideoProofs` hold the theorems about the module in their
name; `Induction` holds the lemmas about recursion they share.
`MC*` modules give constants their values. Operators marked "Mutant" are faulty
variants of the definition that follows them; no specification uses them.

### Abstractions

- Heap: none but the payload. Addresses and sizes are bytes.
- FatEdit: data is counted in directory slots (32 bytes), a slot is an entry, a
  numbered piece of a host file, zero or old data. Names are atoms: short names
  without blanks, which the 8.3 encoding gives back unchanged (`FatName` and
  `FatFs` have the encoding and the other names). The tool never writes long or
  deleted entries, so images have none. The super block is written back as it
  was read; what that does to its neighbours is `EditImage` of `BootChain`.
- FatFs: data is counted in units (a directory slot); a unit is identified by
  its place on the disk, so a wrong unit cannot look right. Images are well
  formed (`ImageOK`); table entries are 28 bits of link plus 4 bits.
  Entries are bytes of names, flags, cluster and size; a part of a long name has
  its number, checksum and text. A buffer that `NameToString` did not fill matches
  or not, as it happens. On failure the code leaves the last directory in its result, the model `NoFile`;
  no caller looks at it then. No call follows a failed one, as in `stage2.cpp`, and
  no byte of an empty file is asked for: the code takes a size of 0 for no bound,
  but `main` asks for as many bytes as the file has and `MBFindHeader` reads nothing
  of such a file.
- Stage2: files and memory in words; a kernel file is its size, how many of its
  words can be read, the places of the magic number, and the headers at those of
  them that are valid. Reads return what `FatFs` was checked to return (what is
  there up to the end of the file, or up to where its chain of clusters ends or is
  taken to end), or fail. `BOOT.CFG` is a choice of lines. The heap is exact as long as only its last block is freed, which holds
  until the script ends; from there `Holes` gives its free pieces. Object sizes
  are those of the 32 bit build.
- A20: a byte is what was there or one of the patterns of a try, which differ for
  all tries the code makes. Without a controller the status port reads 0xFF. A
  byte sent while the controller is busy may be lost.
- MemoryMap: addresses and sizes are numbers with a wrap, digits have the base
  the constants say. Fixed texts are left out, but for the rows they take: a line of
  the map that makes the screen scroll is the last one, as `ScrollUp()` does not end
  (`VideoMemory` models it).
- BootChain: a sector of a second stage is its file, its place and the sum of its
  words, the only thing the header check looks at; a file that is not padded
  leaves the rest of its last sector as it was. Behind the file the vector of
  `ReadAll` holds zeros, as its last `resize()` put them there. Sectors are 512
  bytes and at least two are reserved, as `mkfs.fat` makes them. CHS and LBA of a
  partition agree. The BIOS reads on over the end of a track.
- VideoMemory: characters are classes. Colours are left out. The loop that does
  not end writes ordinary memory, so a compiler may assume that it ends; GCC 12
  with the flags of `meson.build` compiles it to a loop, and the model follows.

## Runs

| Run | Shows | Result |
|---|---|---|
| `heap` | structure, disjoint blocks, coalescing, best fit, termination, refinement of `BlockPool` | passes, 74k states |
| `fatedit` | two sessions of commands, with exceptions and a kill at any step, on images with and without old data: the view is the tree, chains partition the used clusters, all tables are written, nothing is overwritten, saved files survive | passes, 408k states |
| `fatfs` | answers match the disk and what fatedit finds there, windows match what they are believed to hold, calls return | passes, 39k states |
| `stage2` | no header is skipped, for all patterns of magic numbers; of started kernels that begin their file and can be read, text and BSS are in place; writes stay near the kernel, boot information is allocated, the loader decides | passes, 489k states |
| `startup` | the verdict on the A20 line is true, the attempts restore the byte of the BIOS data area, the kernel shows the map the BIOS reported as far as the screen goes, and halts when it fits | passes, 780k states |
| `boot_chain` | no torn second stage is started that a sum can detect, an installed one is, the metadata stays findable and the tables untouched, the second stage reads the right partition | passes, 79k states |
| `video` | the screen shows the text, the cursor follows, the kernel halts when the text fits | passes, 41k states |
| `fatedit_full_directory` | an intact chain is reported as broken | violated |
| `fatedit_lost_table` | entries that name clusters marked free | violated |
| `fatfs_upper_bits` | a file is read only in part where the upper bits of a table entry are set | violated |
| `stage2_prefix` | a kernel with data in front of its text is started in part | violated |
| `video_scroll` | the kernel never halts once it has to scroll | violated |

A violated run is a disagreement between the code and what its documentation,
comments or messages say; the finding in `PROJECT.json` quotes the text.

### Limits the models show without a run of their own

- `FindFreeCluster` looks at entries `0 .. total - 1`, and data clusters have the
  indices `2 .. total + 1`: an image reports that it is full with two clusters
  free. `FatEdit` models the search as it is.
- `ReadFatIndex` does not mask the upper four bits of an entry, as `fatedit` does.
  Where they are set the chain ends and nothing tells the caller. `AnswersMatchDisk`
  asks for the whole answer only when they are clear, and for a prefix of it
  otherwise; `ReadsWhole` asks for all of it and is violated.
- `MBLoadKernel` takes a read that returns nothing for the end of the file, so a
  kernel whose chain ends early, for this reason or because the table is damaged, is
  started although its end is missing, and its BSS is cleared at the wrong place.
  `TextLoaded` and `BssCleared` ask that all of the text can be read (`Whole`);
  `StartedIsComplete`, which does not, is checked by `stage2_prefix` alone.
- `haveKernel` keeps its value when a later "multiboot" line fails. If that one
  fails in the middle of a kernel for the same addresses, the loader jumps into a mix
  of both. `TextLoaded` and `BssCleared` say which words are spoiled at most
  (`Spoiled`), namely those the failed load has copied, and that all others are right.
- Text and data that end in the middle of a chunk are copied with what follows
  them in the file, and the BSS is cleared from there on (`EntryEnd`): its first
  words keep what the file has there, and as many words behind it are cleared.
  `WritesStayInside` allows for them.
- With more in front of the text than half of it, nothing is loaded; with more
  than the text is long, the bound of the loop wraps and the file is copied to its
  end. `WritesStayInside` is about other files.
- A session of fatedit that was lost leaves entries whose clusters are marked free,
  and the next session may hand them out again. `ChainsPartition` and
  `NeverOverwrites` speak of images on which no session was lost.
- A config file within `bootConfigMaxSize` may be larger than what the windows of
  4096 byte clusters leave on the heap; `malloc` then returns a null pointer that
  `main` uses. `buffers` records this; the model does not follow what becomes of
  the memory at address 0.
- A name with a blank at its end is stored like the name without it, and an entry
  that begins with one makes `ScanDirectory` refuse the whole directory; the FAT
  reader compares with an unfilled buffer there. A Nul or a dot inside of a name
  is given back as the end of the name, or of its first part. `KeptNames` marks the images for
  which `AnswersMatchDisk` speaks of paths: all short names in it are kept. Entries
  that have no short name, such as `.` and `..`, may be anything.
- fatedit finds an entry by its long name, the loader only by the short one, and a
  zero name behind parts of a long one is taken for an entry when its checksum
  agrees with them. `Apart` excludes such directories: no long name is a short
  name other than that of its entry, and no listed entry is the mark of the end. `Unread`
  stands for the answer of fatedit where it has none to compare: the directory is
  refused or not `Apart`, or has no cluster, or the path has a name that is not
  a short name. `EditorAgrees` asks nothing there; all directories of the run
  `fatfs` that can be read are `Apart`.
- The installer takes any second stage that fits the reserved sectors, the VBR
  loads at most 30; it refuses one whose words sum to zero, but only after the
  new boot sector is on the image; and it exits with success after an exception.
  `InstalledBoots` lists these cases, and partitions that do not begin early
  enough in a track for the sector arithmetic of the VBR.
- On an image whose FsInfo sector is not sector 1, an installer killed between
  its first two writes leaves a super block that names the wrong sector.
- `SetMemoryMap` keeps the size of the last usable region below and above 1 MiB,
  not their sum: `KernelShowsMap` says so. `WriteDecimal` has room for nine
  digits; for more the property asks nothing.
- The header check is a sum. Where another mixture of sectors has the sum of a file,
  a torn copy of it may be started; `Ambiguous` is the set of these files, and
  `StartsWhole` says which sectors are in memory for them, but not that they belong
  together.
- The line feed behind the last row calls `ScrollUp()`, which does not end: a map of
  more regions than there are rows below the heading keeps the kernel from its halt
  (`Settles`, and the run `video_scroll`).

### Bounds, and why they are enough

- `heap`: 52 bytes are five entries of minimal size. Requests of 0, 1, 8 and 18
  bytes round to 0, 4, 8 and 20: exact fits, remainders just below and at the
  split threshold, and refusals all occur, and so do merges to the left, to the
  right and of three entries. 54 is no multiple of 4, so `HeapInit` truncates.
- `fatedit`: seven clusters of three slots; a directory overflows into a second
  cluster with its second entry, a file into its second cluster with its fourth
  slot, and the image fills up. Two sessions: one to save, one to continue from
  the image or after a loss. The table has padding behind the last cluster. Each
  instance begins with unused clusters of zeros or of old data.
- `fatfs`: two sectors per cluster (a window can be torn), two entries per table
  sector (chains cross sectors), files of one to three clusters in every order,
  a root directory of two clusters without an end mark, and for files of four
  units the same layouts with the upper bits of one entry set. Thirteen more root
  directories have long names of one and two parts, whole, reordered, orphaned
  and with a wrong checksum, an early end, extensions, blanks in all places, empty
  files, damaged entries without a cluster, and names with a Nul and with a dot inside. The subdirectory has `.` and `..` entries, one of the
  empty files owns a cluster of old data, and a path goes through `..`.
  Names of three and two characters: a full name, a full extension, one too many.
- `stage2`: chunks of four words and headers of two; kernels whose header is in
  the first and in the second chunk, with false magic numbers before it, and all
  reasons to refuse one. Cluster and config sizes leave exactly one buffer, or
  one byte less than that, on the heap. Kernels are laid out as `kernel.ld` does
  (text first, sizes in whole chunks) or with a text that ends inside a chunk, with the
  file or before it, with something in front of the text, or without BSS; three of
  them want the same addresses, and of three others only a part of the file can be
  read: up to the middle of the text, to its last chunk, and nothing.
  Besides these, all 32 sets of magic numbers in five words (two chunks) with
  every place for one valid header. Scripts have up to three lines.
- `startup`: two rounds of two tries of the test, so that a line can be off, rise
  in each of them, or stay off; three polls and one tolerated 0xFF, so that a
  drain can succeed late, give up, or run out; maps of three entries, so that a
  fourth one is cut, on a screen that has rows for two; with regions in low, high and uncounted memory, one that ends
  with the address space, one that wraps, an empty one and an unknown type.
- `boot_chain`: two runs of the installer, so that one can follow another whole or
  interrupted one. Six reserved sectors of which the VBR loads three: second
  stages that fit, that only the installer takes, that are too big, empty,
  unpadded, or sum to zero, and two with second sectors of the same sum. A drive of 3 cylinders, 2 heads and 7 sectors with one
  low bit of cylinder: partitions at the begin and at the end of a track, across
  the border where the upper bit sets in, at the end of the drive, and behind it.
- `video`: two rows of four cells, tabs of two: every text of five characters
  over all classes, so that wrapping, tabs and line feeds meet in the corner.

`CHECK_DEADLOCK FALSE` is used where the program stops: a halted loader or
kernel, a reader that failed, an editor after its last session. The heap is
checked for deadlock.

### Fairness

`Heap`, `FatFs`, `Stage2` and `VideoMemory` are one thread of a machine with
nothing else running; code that was entered keeps executing. Fairness is weak
fairness of the steps inside a call (`Heap`, `FatFs`) or of the whole next-state
relation (`Stage2`, `VideoMemory`) or of the program without the hardware
(`Startup`: the line need not rise, the controller need not answer). No branch is promised: reads may fail or
succeed forever. Callers are under no obligation to call. `FatEdit` and
`BootChain` have no liveness property: their tools may be stopped at any time.

## Proofs

All theorems are about the specifications the runs check, for every value of the
constants that satisfies the named assumptions. A run and a theorem that name the
same property state the same formula. Each proof rests on an inductive invariant.

### Recursion

Chains, sums, powers, positions on the screen and digits are recursive functions
over `0..n`, as the loops of the code compute them. `Induction` proves what the
other modules need of them from the well foundedness of the natural numbers:
a set of numbers that holds 0 and with each number the next one holds all
(`UpTo`, `AllNaturals`; the set stands for the predicate), a function defined
by such a recursion exists, is unique, and stays in every set its step keeps
(`HistoryExists`, `HistoryUnique`, `HistoryType`; `Descent...` for recursion
over `n \div b`, the digits of a number).

### Heap

From `HeapAssumption` (word aligned base above 0, room for one header, requests
that do not wrap when rounded):

- `Invariance`: `Spec => []Inv`;
- `TypeCorrect`, `Disjointness`, `Coalescing`, `Reclaim`: the invariants of the
  run; `ListIsTiling`: the part of `Inv` that matters most;
- `MallocIsBestFit`, `BlocksAreStable`: action properties;
- `HeapImplementsPool`: refinement of `BlockPool`.

None of the safety properties is inductive alone. `Inv` joins the tiling
(`Tiled`, `Covered`), alignment (`Aligned`), the match of flags and callers
(`ReservedAreLive`), sizes (`LargeEnough`), and what the two walks have
established so far (`WalksProgress`), from which best fit and coalescing follow
when a walk ends. That a merge keeps the tiling needs that the absorbed entry
begins where its predecessor ends; that a split keeps it needs alignment, since
the remainder must be a whole number of words. `Reclaim` needs that two
different entries of a fully free tiling would contain free neighbours, which
`Coalesced` excludes. A refusal refines `Refuse` because a gap between blocks
lies within one entry once neighbours are merged.

### Editor

`FatEditProofs` is about `CrashSpec`: commands, exceptions and a kill at any step,
for every number of clusters, slots, tables, names and files that
`FatEditAssumption` allows (at least three slots in a cluster, so that `.`, `..`
and the end fit into one).

- `TypeCorrect`: `TypeOK`. A table entry is free, an end mark or a data cluster.
- `NothingOverwritten`: `NeverOverwrites`.

`Inv` has a part that always holds (`TypeInv`: directory entries, in clusters
and still to be written, lead to data clusters) and one that holds until the first session is lost
(`SafeInv`). Writing is safe because the slots from the writer's position on are
unused (`WriterFresh`). For a new file or a new cluster this follows from
`FreeIsFresh`: nothing is written in a cluster whose entry is 0. For the parent
directory it follows from `Waiting`: the place that `ScanDirectory` counted is
still the end of the list when `AppendDirectoryEntry` gets there, although the
new file was allocated and written in between. That needs that chains only grow
(`ChainGrows`), that they consist of clusters in use (`ChainUsed`, from `Linked`), so
that the writer is in another cluster, and that nothing lies behind the zero
slot (`ZeroEnds`). `Current` is the table that counts: on the image between
sessions, in memory during one. After a loss the second part is false, which is
what `fatedit_lost_table` shows.

A second invariant, `TreeInv`, says that the image holds the tree that the
commands asked for:

- `ViewCorrect` (`ViewIsTree`), `ChainsCorrect` (`ChainsPartition`), `CommitCorrect`
  (`Committed`), `SavedStays` (`SavedSurvives`).

None of the four is inductive. `TreeInv` says that three things exist which the
code does not store: `own`, the chain of each object of the tree; `body`, the
slots that each object is to hold; and `cur`, the object being written, with how
far. `Explained` relates them to the table and the data: each chain is linked as the
table says and no cluster is in two of them, nor used outside of them (`Shape`); a
chain has as many clusters as its body needs (`Space`); bodies are what
the tree says, without the entry that is still to be written (`Texts`);
what has been written of them is on the image (`AllStored`); the writer's
position, its object and the rest of its data (`Position`, `Pending`); and the
files of the last save, with the chains they had (`SavedKept`). `CopiesSame` says
that between sessions all tables agree; after a kill `SavedShown` is what is left. Each
operation takes the witnesses to new ones: a new object gets a chain of one
cluster, `Extend` adds one at its end, `AppendDirectoryEntry` completes the
parent's body. That `FindFile` in the data finds the object of the tree follows
from `Texts` by the induction on paths that `Paths` and `UpTo` allow. TLC checked `TreeInv`, with
the witnesses computed from the state, on all 408k states of the run `fatedit`
before it was proved.

### Reader

`FatFsProofs`, from `FatFsAssumption` (well formed images):

- `TypeCorrect`, `WindowsAreTrue`: `TypeOK` (which has that a copy begins inside of
  the window and takes units of clusters that exist) and `WindowsMatch` (whenever a
  call can be made or uses a window), with failed loads at any sector;
- `AnswersAreTrue`: `AnswersMatchDisk`; `ReadsMatchDisk` is its half about `ReadAt`,
  which needs no hypothesis about names;
- `ReadersAgree`: `EditorAgrees`, the loader opens under a path what fatedit finds there.

`WindowInv` follows a cluster while it is loaded sector by sector; `ReadInv` says
that what was copied, followed by what is left of the chain, is the answer. The
lemmas about pieces of sequences turn copying up to the end of a cluster into a
step from one such equation to the next.

`FindInv` is the same for `FindByPath`, and for two readers of the image, the disk
and fatedit: what this reader still finds under the remaining names, from the
current cluster of the current directory on (`Ahead`), is what it finds under the
whole path. An entry that matches, an entry that does not, the end of a directory,
the next cluster each keep it. It needs that the code's comparison with
`NameToString` is right for the entries it meets, which is a fact about the bytes of
names: an entry whose name is the stored form of a short name is given back as that
name (and only such, as two names with one stored form are one). The attempt showed
that the earlier `KeptNames` did not say enough: a Nul or a dot inside of a stored
name breaks the comparison too. The hypothesis now excludes them, and two images of
the run have such names.

For fatedit, `ScanInv` follows the loop of `ScanDirectory`: as long as it has not
given up, every entry it passed can be read, and either none of them has the name
and the list has no hit for it, or the first entry with the name and the first hit
in the list are the same file (`Matched`). So the rest of a directory behind an
entry with another name gives the same answer as the whole. TLC checked `FindInv`,
for both readers, on the run `fatfs` before it was proved.

### Second stage

`Stage2Proofs`, from `Stage2Assumption` (cluster sizes a FAT file system can have,
at most 32 map entries, header fields and files within the address space):

- `TypeCorrect`, `NoneSkipped`, `InfoFits`;
- `TextIsLoaded`, `BssIsCleared`, `StaysInside`: `TextLoaded`, `BssCleared` and
  `WritesStayInside`. What they ask of a file is part of these properties: for the
  first two, that it begins with the text and can be read to the end of it, as files
  linked with `kernel.ld` do on a sound file system; for the third, that no more is
  in front of the text than the text is long. Nothing is asked of the other files,
  which may want the same memory.

`HeapInv` adds up what is taken from the heap, so that `left` never becomes
negative; `SearchInv` keeps that no header lies before the place reached; `LoadInv`
says which part of the text is in memory while it is copied (`CopyInv`): whole chunks
of it or all that can be read, and no more than the chunks the text begins. Of
the kernel that was loaded before it says that all is right but the words a load in
progress, or one that failed, has overwritten (`Disturbed`).

### Start

`StartupProofs`, from `A20Assumption` and `MemoryMapAssumption` (bases above 1, low
memory ends before high memory): `TypeCorrect`; `VerdictCorrect` and
`LowByteRestored` (`LeavesNoTrace`) about the A20 line, from `LineInv`, which says what a test knows after each of its
accesses to memory when the line may have risen before any of them; `MapShown`:
`KernelShowsMap`, including that the digits printed have the value of the
number, the wrap of the end of a region, and the rows of the screen.

### Boot chain

`BootChainProofs`, from `BiosDiskAssumption` and `BootChainAssumption`:
`TypeCorrect`, `StartsWholeFiles` (`StartsWhole`),
`InstalledFilesBoot` (`InstalledBoots`), `MetaIsFound` (`MetaFound`),
`PartitionHandedOver` (`HandsOver`) and the action property
`InstallerStaysReserved` (`StaysReserved`). Nothing is assumed of the sum:
`StartsWhole` names the files it cannot tell apart. `Inv` relates the image to the installer's progress
(`InstInv`), to the files written completely (`CompleteInv`), and the sectors in
memory to those on the drive (`BootInv`). `InstalledBoots` needs that a file the
installer patched sums to zero (a fold over its words), `HandsOver` that packing
and the conversion between LBA and CHS are inverse on the drive.

### Console

`VideoProofs`, from `VideoAssumption` (a row is a whole number of tabs):
`TypeCorrect` and `ScreenIsRight` (`ScreenShowsText`). `TabInv` holds within a tab,
`ScrollInv` while rows move. `After`, the position behind a character, is a
recursion over the text; its bounds are by induction.

### Only model-checked

Liveness (`CallsReturn` of `Heap` and of `FatFs`, `Decides`, `Settles`,
`HaltsWhenItFits`): it needs fairness and ENABLED, which the prover does not
handle. Every other property of a passing run is stated by a theorem.

## Not modelled

- Mode switching (`pmcall.S`, `copy.cpp`, the `abi.S` files): registers,
  descriptors and stacks, below the state of these models. `Stage2` takes a copy
  to high memory as one step.
- The C++ runtime: a list of destructors that the loader never runs; value types
  are numbers, sets and functions in the models.
- Text output through the BIOS and port access: one instruction or call each.
- Command lines of the tools, splitting of paths and script lines: sequential
  string handling; the models begin with the words.
- In `fatedit`, the buffer of 12 bytes for a name of up to 13: what it overwrites
  depends on the compiler.
- In `stage2.cpp`, the part of a multiboot header that lies behind the end of the
  file and keeps old contents of `hdr`.

Small accessors and constants are modelled by the definitions that use them.

## Plan

1. Done: heap, editor, reader, second stage, console; proofs about the heap.
2. Done: `BootChain` with `BiosDisk`, `Startup` with `A20` and `MemoryMap`, names and
   long entries in `FatName`, the two FAT readers against each other in `FatFs`.
3. Done: proofs about every component: types, the windows and the copies of the
   reader, the loader, the start, the boot chain, the console, and that the
   editor overwrites nothing.
4. Done: the tree of `FatEdit` (`TreeInv`), what a kill leaves of it, `FindByPath` of
   `FatFs` for both readers of an image (`FindInv`), and the scan of `fatedit`
   (`ScanInv`).

No safety property is left without a theorem. What remains outside is the
liveness above and the parts under "Not modelled".
