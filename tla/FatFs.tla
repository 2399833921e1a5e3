-------------------------------- MODULE FatFs --------------------------------
(***************************************************************************)
(* The FAT32 reader of the boot loader (include/fs/FatFs.h).  It keeps one *)
(* sector of the allocation table and one cluster of data in memory; every *)
(* look at the disk is a BIOS call that may fail.  One step is one sector  *)
(* load or one turn of a loop.                                             *)
(*                                                                         *)
(* Data is counted in units: a directory entry slot, or as many bytes of a *)
(* file.  A unit of the disk is known by its place <<cluster, unit>>, so a *)
(* window is known by the cluster each of its sectors was loaded from.     *)
(*                                                                         *)
(* Directory entries and names are those of module FatName, which also has *)
(* fatedit's way to read a directory: the two readers have to agree.       *)
(***************************************************************************)
EXTENDS FatName

CONSTANTS
    Images,             \* well formed file systems, see ImageOK
    SectorsPerCluster,
    UnitsPerSector,
    EntriesPerSector,   \* table entries in one sector
    Paths,              \* the names handed to FindByPath
    Offsets, Sizes      \* the ranges handed to ReadAt, in units

EndMark == 268435440        \* 0x0FFFFFF0: values from here on end a chain
EOC == 268435448            \* 0x0FFFFFF8: the value writers end a chain with
Nothing == 0                \* a window that holds no sector, or a torn one
Root == 2

ClusterUnits == SectorsPerCluster * UnitsPerSector
SectorIdx == 0..(SectorsPerCluster - 1)

\* One entry of the table: 28 bits of link, and 4 bits that belong to nobody.
Link(n) == [high |-> 0, link |-> n]

VARIABLES
    image,      \* the disk: fat, slots (directory contents)
    fatSector,  \* currentFatSector (-1: none yet)
    fatWindow,  \* the table sector that is really in the window, -1: none
    dataCluster,\* currentDataCluster
    dataWindow, \* sector of the window -> cluster it was loaded from
    pc,         \* "ready", "loop", "data", "copy", "fat", "scan", "failed"
    req,        \* the call being executed
    sector,     \* loop variable of LoadDataCluster
    file,       \* the FatFile the last FindByPath produced
    acc,        \* what the call has produced so far
    want        \* history: what the call has to produce

vars == <<image, fatSector, fatWindow, dataCluster, dataWindow, pc, req, sector,
          file, acc, want>>
windows == <<fatSector, fatWindow, dataCluster, dataWindow>>

FatFile(cluster, size, dir) == [cluster |-> cluster, size |-> size, dir |-> dir]
RootDir == FatFile(Root, 0, TRUE)
NoFile == FatFile(-1, 0, FALSE)      \* an empty file has cluster 0
Unread == FatFile(-2, 0, FALSE)      \* what fatedit finds is not known

\* A directory entry with the given name bytes, or a piece of a file ("raw").
Slot(flag, bytes, cluster, size) ==
    [flag |-> flag, name |-> bytes.name, ext |-> bytes.ext, cluster |-> cluster, size |-> size,
     chk |-> 0, part |-> <<>>]
EndSlot == Slot("file", Stored(<<Nul>>), 0, 0)
BytesOf(e) == [name |-> e.name, ext |-> e.ext]

-----------------------------------------------------------------------------
(***************************************************************************)
(* What the disk says: the reference the reader is compared with.          *)
(***************************************************************************)
ClustersOf(im) == DOMAIN im.slots

ChainOf(im, c) ==
    LET upto[n \in 0..Cardinality(ClustersOf(im))] ==
            IF n = 0 THEN <<c>>
            ELSE LET prev == upto[n - 1]
                     next == im.fat[Last(prev)].link
                 IN  IF next < EndMark THEN Append(prev, next) ELSE prev
    IN  upto[Cardinality(ClustersOf(im))]

UnitsOf(im, c) ==
    LET chain == ChainOf(im, c)
    IN  [i \in 1..(Len(chain) * ClusterUnits) |->
            <<chain[((i - 1) \div ClusterUnits) + 1], (i - 1) % ClusterUnits>>]

SlotAt(im, u) == im.slots[u[1]][u[2]]

\* The units offset, offset + 1, ... of a file, size of them if it is long enough.
WantRead(im, f, offset, size) ==
    LET units == UnitsOf(im, f.cluster)
    IN  SubSeq(units, offset + 1, Min({Min({f.size, offset + size}), Len(units)}))

\* A short name that a directory entry keeps as it is: no blank at the
\* beginning or at the end of the name or of the extension.
Canonical(name) ==
    /\ IsShortName(name)
    /\ \A i \in 1..Len(name) : name[i] = Blank =>
        i \in 2..(Len(name) - 1) /\ name[i - 1] # Dot /\ name[i + 1] # Dot

\* The first entry before the end of the directory that was made for the name.
SlotsOf(im, c) == [i \in 1..Len(UnitsOf(im, c)) |-> SlotAt(im, UnitsOf(im, c)[i])]

WantIn(slots, name) ==
    LET ends == {i \in 1..Len(slots) : IsLastInList(slots[i])}
        hits == {i \in 1..Len(slots) : ~IsLong(slots[i]) /\ BytesOf(slots[i]) = Stored(name)
                                        /\ \A e \in ends : i < e}
        hit == slots[Min(hits)]
    IN  IF hits = {} THEN NoFile ELSE FatFile(hit.cluster, hit.size, hit.flag = "dir")

\* A directory without a cluster holds nothing.
WantEntry(im, dir, name) ==
    IF dir.dir /\ dir.cluster \in ClustersOf(im) /\ Canonical(name)
    THEN WantIn(SlotsOf(im, dir.cluster), name) ELSE NoFile

\* What fatedit finds in a directory it can read: the first entry it lists with
\* that name.  Its answer says nothing about a path that FindByPath would not
\* take, nor where one entry has the short name of another one as its long name,
\* or where the mark of the end has the checksum of a long name before it.
Apart(list) ==
    \A i \in 1..Len(list) :
        /\ list[i].short # <<>>
        /\ list[i].long = list[i].short \/ ~IsShortName(list[i].long)

FirstListed(list, name) ==
    LET hits == Listed(list, name)
        hit == list[Min(hits)]
    IN  IF hits = {} THEN NoFile ELSE FatFile(hit.cluster, hit.size, hit.flag = "dir")

EditorFinds(scan, name) ==
    IF scan.ok /\ Apart(scan.list) /\ IsShortName(name)
    THEN FirstListed(scan.list, name) ELSE Unread

EditorEntry(im, dir, name) ==
    IF dir.dir /\ dir.cluster \in ClustersOf(im)
    THEN EditorFinds(ScanDirectory(SlotsOf(im, dir.cluster)), name)
    ELSE IF dir.dir \/ dir = Unread THEN Unread ELSE NoFile

\* Down a path, as the disk or as fatedit has it.
EntryIn(reader, im, dir, name) ==
    IF reader = "disk" THEN WantEntry(im, dir, name) ELSE EditorEntry(im, dir, name)

Find(reader, im, dir, path) ==
    LET found[n \in 0..Len(path)] ==
            IF n = 0 THEN dir ELSE EntryIn(reader, im, found[n - 1], path[n])
    IN  found[Len(path)]

WantPath(im, path) == Find("disk", im, RootDir, path)
FindFile(im, path) == Find("fatedit", im, RootDir, path)

\* A file system as a writer leaves it: chains of existing clusters that end,
\* entries that name existing clusters, and a table whose first entry is the
\* media descriptor.
ImageOK(im) ==
    /\ IsFiniteSet(ClustersOf(im))
    /\ Root \in ClustersOf(im)
    /\ ClustersOf(im) \cup {0} \subseteq DOMAIN im.fat
    /\ \A c \in DOMAIN im.fat : im.fat[c].high \in Nat
    /\ im.fat[0].link = EOC
    /\ \A c \in ClustersOf(im) :
        /\ c \in 2..(EndMark - 1)
        /\ im.fat[c].link \in ClustersOf(im) \cup {EOC}
        /\ im.fat[Last(ChainOf(im, c))].link = EOC
        /\ \A u \in 0..(ClusterUnits - 1) :
            /\ im.slots[c][u].cluster \in ClustersOf(im) \cup {0}
            /\ im.slots[c][u].size \in Nat
            /\ im.slots[c][u].name \in [1..NameLen -> Nat]
            /\ im.slots[c][u].ext \in [1..ExtLen -> Nat]

ASSUME FatFsAssumption ==
    /\ SectorsPerCluster \in Nat \ {0} /\ UnitsPerSector \in Nat \ {0}
    /\ EntriesPerSector \in Nat \ {0}
    /\ Paths \subseteq Seq(Seq(Nat))
    /\ Offsets \subseteq Nat /\ Sizes \subseteq Nat
    /\ \A im \in Images : ImageOK(im)

-----------------------------------------------------------------------------
Idle == [op |-> "none", cluster |-> 0, next |-> 0, offset |-> 0, size |-> 0, path |-> <<>>]

Init ==
    /\ image \in Images
    /\ fatSector = -1
    /\ fatWindow = -1
    /\ dataCluster = -1
    /\ dataWindow = [s \in SectorIdx |-> Nothing]
    /\ pc = "ready"
    /\ req = Idle
    /\ sector = 0
    /\ file = NoFile
    /\ acc = <<>>
    /\ want = [file |-> NoFile, listed |-> NoFile, data |-> <<>>]

(***************************************************************************)
(* The calls of the second stage.  It gives up for good on the first I/O   *)
(* error: every caller then halts or starts the kernel it has.             *)
(***************************************************************************)
\* Mutant: a caller goes on after an error.
MayCallAfterError == pc \in {"ready", "failed"}

MayCall == pc = "ready"

CallFindByPath(path) ==
    /\ MayCall
    /\ req' = [Idle EXCEPT !.op = "find", !.cluster = Root, !.path = path]
    /\ pc' = "loop"
    /\ file' = RootDir
    /\ acc' = <<>>
    /\ want' = [file |-> WantPath(image, path), data |-> <<>>,
                 listed |-> FindFile(image, path)]
    /\ UNCHANGED <<image, windows, sector>>

\* Mutant: somebody reads bytes of an empty file.
CallReadAtAny(offset, size) ==
    /\ MayCall
    /\ file # NoFile
    /\ want' = [want EXCEPT !.data = WantRead(image, file, offset, size)]
    /\ acc' = <<>>
    /\ IF file.size > 0 /\ offset >= file.size
       THEN UNCHANGED <<pc, req>>
       ELSE /\ pc' = "loop"
            /\ req' = [Idle EXCEPT !.op = "read", !.cluster = file.cluster, !.offset = offset,
                         !.size = IF file.size > 0 THEN Min({size, file.size - offset}) ELSE size]
    /\ UNCHANGED <<image, windows, sector, file>>

\* ReadAt: the range is cut to the size of the file, but a size of 0 bounds
\* nothing.  The callers take care of that: main() asks for as many bytes as the
\* file has, and kernels are looked for only in files that have some.
CallReadAt(offset, size) ==
    /\ MayCall
    /\ file # NoFile
    /\ file.size > 0 \/ size = 0
    /\ want' = [want EXCEPT !.data = WantRead(image, file, offset, size)]
    /\ acc' = <<>>
    /\ IF file.size > 0 /\ offset >= file.size
       THEN UNCHANGED <<pc, req>>
       ELSE /\ pc' = "loop"
            /\ req' = [Idle EXCEPT !.op = "read", !.cluster = file.cluster, !.offset = offset,
                         !.size = IF file.size > 0 THEN Min({size, file.size - offset}) ELSE size]
    /\ UNCHANGED <<image, windows, sector, file>>

Return ==
    /\ pc' = "ready"
    /\ req' = Idle
    /\ sector' = 0

Fail ==
    /\ pc' = "failed"
    /\ req' = Idle
    /\ sector' = 0
    /\ UNCHANGED <<image, file, acc, want>>

(***************************************************************************)
(* The head of the loops of ReadAt and of FindInDirectory.                 *)
(***************************************************************************)
Skips == req.op = "read" /\ req.offset >= ClusterUnits

ReadEnds ==
    /\ pc = "loop" /\ req.op = "read"
    /\ req.size = 0 \/ req.cluster >= EndMark
    /\ Return
    /\ UNCHANGED <<image, windows, file, acc, want>>

\* The range begins behind this cluster: only the table is needed.
SkipCluster ==
    /\ pc = "loop"
    /\ Skips /\ req.size > 0 /\ req.cluster < EndMark
    /\ req' = [req EXCEPT !.offset = @ - ClusterUnits]
    /\ pc' = "fat"
    /\ UNCHANGED <<image, windows, sector, file, acc, want>>

\* FindInDirectory goes through a cluster for the next name of the path.
Searches ==
    req.path # <<>> /\ IsShortName(Head(req.path)) /\ file.dir /\ req.cluster < EndMark

NeedCluster ==
    /\ pc = "loop"
    /\ IF req.op = "find" THEN Searches
       ELSE ~Skips /\ req.size > 0 /\ req.cluster < EndMark
    /\ pc' = "data"
    /\ UNCHANGED <<image, windows, req, sector, file, acc, want>>

\* FindByPath: all names found, a component that is no short name or no
\* directory, or the end of the directory's chain.
FindEnds ==
    /\ pc = "loop" /\ req.op = "find"
    /\ ~Searches
    /\ file' = IF req.path = <<>> THEN file ELSE NoFile
    /\ Return
    /\ UNCHANGED <<image, windows, acc, want>>

(***************************************************************************)
(* LoadDataCluster                                                         *)
(***************************************************************************)
DataReady == pc' = IF req.op = "read" THEN "copy" ELSE "fat"

DataCached ==
    /\ pc = "data" /\ sector = 0
    /\ req.cluster >= 2 /\ req.cluster = dataCluster
    /\ DataReady
    /\ UNCHANGED <<image, windows, req, sector, file, acc, want>>

Loading == pc = "data" /\ (sector > 0 \/ req.cluster # dataCluster)

\* Mutant: one sector too many.
LoadSectorTooFar ==
    /\ Loading
    /\ req.cluster >= 2
    /\ dataWindow' = [dataWindow EXCEPT ![sector] = req.cluster]
    /\ IF sector = SectorsPerCluster
       THEN dataCluster' = req.cluster /\ sector' = 0 /\ DataReady
       ELSE sector' = sector + 1 /\ UNCHANGED <<dataCluster, pc>>
    /\ UNCHANGED <<image, fatSector, fatWindow, req, file, acc, want>>

LoadSector ==
    /\ Loading
    /\ req.cluster >= 2
    /\ dataWindow' = [dataWindow EXCEPT ![sector] = req.cluster]
    /\ IF sector = SectorsPerCluster - 1
       THEN dataCluster' = req.cluster /\ sector' = 0 /\ DataReady
       ELSE sector' = sector + 1 /\ UNCHANGED <<dataCluster, pc>>
    /\ UNCHANGED <<image, fatSector, fatWindow, req, file, acc, want>>

\* The BIOS reports an error; what it did to the buffer is anyone's guess.
LoadSectorFails ==
    /\ Loading
    /\ req.cluster >= 2
    /\ \E left \in {dataWindow[sector], Nothing} :
        dataWindow' = [dataWindow EXCEPT ![sector] = left]
    /\ Fail
    /\ UNCHANGED <<fatSector, fatWindow, dataCluster>>

\* A damaged entry, of a file with a size or of a directory, that has no cluster.
NoCluster ==
    /\ pc = "data" /\ sector = 0
    /\ req.cluster < 2
    /\ Fail
    /\ UNCHANGED windows

(***************************************************************************)
(* ReadFatIndex and LoadFatSector                                          *)
(***************************************************************************)
SectorOf(c) == c \div EntriesPerSector

\* All 32 bits of the entry are taken for the next cluster.
Value(e) == IF e.high > 0 THEN e.high * EOC ELSE e.link

\* What the window says about cluster c.  Only a window that was torn can say
\* anything but what is in the table.
NextOf(c) ==
    IF fatWindow' = SectorOf(c) THEN {Value(image.fat[c])} ELSE {EOC, Root}

GotNext(n) ==
    IF req.op = "read" THEN req' = [req EXCEPT !.cluster = n] /\ pc' = "loop"
                       ELSE req' = [req EXCEPT !.next = n] /\ pc' = "scan"

ReadFatIndex ==
    /\ pc = "fat"
    /\ fatSector' = SectorOf(req.cluster)
    /\ fatWindow' = IF fatSector = SectorOf(req.cluster) THEN fatWindow ELSE SectorOf(req.cluster)
    /\ \E n \in NextOf(req.cluster) : GotNext(n)
    /\ UNCHANGED <<image, dataCluster, dataWindow, sector, file, acc, want>>

LoadFatSectorFails ==
    /\ pc = "fat"
    /\ fatSector # SectorOf(req.cluster)
    /\ fatWindow' \in {fatWindow, -1}
    /\ Fail
    /\ UNCHANGED <<fatSector, dataCluster, dataWindow>>

(***************************************************************************)
(* Using the data window.                                                  *)
(***************************************************************************)
UnitInWindow(u) == <<dataWindow[u \div UnitsPerSector], u>>

\* Mutant: the offset is not reset for the next cluster.
CopyKeepsOffset ==
    /\ pc = "copy"
    /\ LET diff == Min({ClusterUnits - req.offset, req.size})
       IN  /\ acc' = acc \o [i \in 1..diff |-> UnitInWindow(req.offset + i - 1)]
           /\ req' = [req EXCEPT !.size = @ - diff]
           /\ pc' = IF req.size > diff THEN "fat" ELSE "loop"
    /\ UNCHANGED <<image, windows, sector, file, want>>

\* ReadAt copies what is wanted of the cluster.
Copy ==
    /\ pc = "copy"
    /\ LET diff == Min({ClusterUnits - req.offset, req.size})
       IN  /\ acc' = acc \o [i \in 1..diff |-> UnitInWindow(req.offset + i - 1)]
           /\ req' = [req EXCEPT !.offset = 0, !.size = @ - diff]
           /\ pc' = IF req.size > diff THEN "fat" ELSE "loop"
    /\ UNCHANGED <<image, windows, sector, file, want>>

\* FindInDirectory looks through the entries of the cluster.
SlotInWindow(u) ==
    LET c == UnitInWindow(u)[1]
    IN  IF c = Nothing THEN EndSlot ELSE image.slots[c][u]

\* Mutant: a part of a long name is taken for an entry.
MatchesLong(e, name, junk) ==
    /\ ~IsDummiedOut(e)
    /\ IF HasName(e) THEN NameToString(e) = name ELSE junk

\* NameToString's result is ignored: where it fails, name is compared with what
\* happens to be in the buffer (junk: whether they are equal).
Matches(e, name, junk) ==
    /\ ~IsLong(e) /\ ~IsDummiedOut(e)
    /\ IF HasName(e) THEN NameToString(e) = name ELSE junk

Stops(junk) ==
    {u \in 0..(ClusterUnits - 1) : \/ IsLastInList(SlotInWindow(u))
                                   \/ Matches(SlotInWindow(u), Head(req.path), junk)}

StopAt(s) ==
    IF IsLastInList(s)
    THEN file' = NoFile /\ Return
    ELSE /\ file' = FatFile(s.cluster, s.size, s.flag = "dir")
         /\ req' = [req EXCEPT !.cluster = s.cluster, !.path = Tail(@)]
         /\ pc' = "loop"
         /\ UNCHANGED sector

ScanHit ==
    /\ pc = "scan"
    /\ \E junk \in BOOLEAN : Stops(junk) # {} /\ StopAt(SlotInWindow(Min(Stops(junk))))
    /\ UNCHANGED <<image, windows, acc, want>>

\* Mutant: the same cluster is searched again.
ScanSame ==
    /\ pc = "scan"
    /\ \E junk \in BOOLEAN : Stops(junk) = {}
    /\ pc' = "loop"
    /\ UNCHANGED <<image, windows, req, sector, file, acc, want>>

ScanNext ==
    /\ pc = "scan"
    /\ \E junk \in BOOLEAN : Stops(junk) = {}
    /\ req' = [req EXCEPT !.cluster = req.next]
    /\ pc' = "loop"
    /\ UNCHANGED <<image, windows, sector, file, acc, want>>

-----------------------------------------------------------------------------
Proceed ==
    \/ ReadEnds \/ SkipCluster \/ NeedCluster \/ FindEnds
    \/ DataCached \/ LoadSector \/ NoCluster \/ ReadFatIndex
    \/ Copy \/ ScanHit \/ ScanNext

Next ==
    \/ \E path \in Paths : CallFindByPath(path)
    \/ \E offset \in Offsets, size \in Sizes : CallReadAt(offset, size)
    \/ Proceed
    \/ LoadSectorFails \/ LoadFatSectorFails

Spec == Init /\ [][Next]_vars

\* Inside a call the boot loader has nothing to wait for but the BIOS, which
\* answers.
FairSpec == Spec /\ WF_vars(Proceed)

-----------------------------------------------------------------------------
(***************************************************************************)
(* Properties                                                              *)
(***************************************************************************)

\* The units of all clusters.
UnitsIn(im) == ClustersOf(im) \X (0..(ClusterUnits - 1))

\* The sectors of the table that hold the link of a cluster, or of none.
TableSectors == {SectorOf(c) : c \in ClustersOf(image) \cup {0}}

\* The type of each variable of the reader.  Only sectors and clusters that
\* exist are ever loaded, ReadAt begins to copy within the window, and every
\* unit it copies is one of a cluster that exists.
TypeOK ==
    /\ image \in Images
    /\ {fatSector, fatWindow} \subseteq TableSectors \cup {-1}
    /\ dataCluster \in ClustersOf(image) \cup {-1}
    /\ dataWindow \in [SectorIdx -> ClustersOf(image) \cup {Nothing}]
    /\ pc \in {"ready", "loop", "data", "copy", "fat", "scan", "failed"}
    /\ sector \in SectorIdx
    /\ req.op \in {"none", "read", "find"}
    /\ req.offset \in Nat /\ req.size \in Nat
    /\ pc = "copy" => req.offset < ClusterUnits
    /\ acc \in Seq(UnitsIn(image))
    /\ file.cluster \in ClustersOf(image) \cup {0} \/ file = NoFile
    /\ file.size \in Nat /\ file.dir \in BOOLEAN

UpperBitsClear == \A c \in DOMAIN image.fat : image.fat[c].high = 0

\* Every entry has a name, and where NameToString makes a short name of it, one
\* that FindByPath would look for, it is the name of that entry: an extension
\* that begins with a blank consists of them, and there is no dot and no Nul
\* inside.  Other entries may be called as they like: "." and ".." are no names
\* of a path.
KeptNames ==
    \A c \in ClustersOf(image) : \A u \in 0..(ClusterUnits - 1) :
        LET e == image.slots[c][u]
        IN  ~IsLong(e) /\ ~IsDummiedOut(e) /\ ~IsLastInList(e) =>
                /\ HasName(e)
                /\ IsShortName(NameToString(e)) => Stored(NameToString(e)) = BytesOf(e)

ReadMatches == IsPrefix(acc, want.data) /\ (UpperBitsClear => acc = want.data)
FindMatches == UpperBitsClear /\ KeptNames => file = want.file

\* A call that reports success has produced what is on the disk: the file that
\* was stored under the path, or exactly the bytes of the file in the range
\* that was asked for.  No unit comes from a window that was loaded for
\* something else.  Where a writer used the upper four bits of a table entry,
\* which ReadFatIndex takes for a part of the index, the answer may stop early
\* (see ReadsWhole) but is not wrong.  Nothing is said of paths where an entry
\* has no name, or the string of another one.
AnswersMatchDisk == pc = "ready" => ReadMatches /\ FindMatches

\* ReadAt returns all of the range, whatever is in the four bits of a table entry
\* that do not belong to the cluster index: 28 of the 32 are used.
ReadsWhole == pc = "ready" => acc = want.data

\* The loader opens under a path what fatedit lists under it, long names and
\* deleted entries in between included, whenever fatedit can read the
\* directories on the way, their names do not run into each other, and the upper
\* four bits of the table entries are clear (fatedit masks them, see ReadsWhole).
EditorAgrees == pc = "ready" /\ UpperBitsClear => want.listed \in {file, Unread}

\* Between the calls, and whenever a window is used, it holds what the cached
\* numbers say: an unchanged currentDataCluster never vouches for sectors of
\* another cluster.
WindowsMatch ==
    pc \in {"ready", "copy", "scan", "loop"} =>
        /\ dataCluster # -1 => \A s \in SectorIdx : dataWindow[s] = dataCluster
        /\ fatWindow = fatSector

\* Every call returns, however the chains run through the disk.
CallsReturn == pc # "ready" ~> pc \in {"ready", "failed"}
=============================================================================
