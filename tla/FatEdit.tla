------------------------------- MODULE FatEdit -------------------------------
(***************************************************************************)
(* The image editor tools/fatedit.cpp: sessions that read the first file   *)
(* allocation table into memory, execute "mkdir" and "pack" commands, and  *)
(* write the table back when the input ends.  File data and directory      *)
(* entries go to the image at once, so what a session that dies leaves     *)
(* behind is not what it had in memory.                                    *)
(*                                                                         *)
(* The unit of data is the 32 byte slot of a directory entry.  A slot is a *)
(* record: a directory entry, a piece of a file, zero, or whatever was on  *)
(* the disk before.  One step is one WriteAt() or one change of the table. *)
(***************************************************************************)
EXTENDS Integers, FiniteSets, SequencesExt

CONSTANTS
    NumClusters,    \* data clusters of the image, with indices 2, 3, ...
    FatEntries,     \* entries of one table, whole sectors of them
    NumFats,        \* FatSuper::NumFats
    SlotsPerCluster,\* BytesPerCluster / sizeof(FatDirent)
    Names,          \* short names a command may mention
    DotNames,       \* those with an extension, which mkdir refuses
    Inputs,         \* host files to pack
    Unreadable,     \* host files that cannot be opened
    FileSize,       \* slots of data in each readable host file
    OldData,        \* what the clusters that are not in use may hold
    MaxSessions

EOC == 268435448    \* 0x0FFFFFF8, end of a cluster chain
Root == 2           \* FatSuper::RootDirIndex

ASSUME FatEditAssumption ==
    /\ NumClusters \in Nat \ {0}
    /\ FatEntries \in Nat /\ NumClusters + 2 <= FatEntries /\ FatEntries < EOC
    /\ NumFats \in Nat \ {0}
    /\ SlotsPerCluster \in Nat /\ SlotsPerCluster >= 3
    /\ DotNames \subseteq Names /\ {".", ".."} \cap Names = {}
    /\ Unreadable \subseteq Inputs /\ "dir" \notin Inputs
    /\ FileSize \in [Inputs \ Unreadable -> Nat]
    /\ OldData \subseteq {"zero", "junk"}
    /\ MaxSessions \in Nat \ {0}

VARIABLES
    fat,        \* _fatRaw, the table in memory
    imgFat,     \* the tables on the image
    data,       \* cluster -> the slots of it on the image
    fsinfo,     \* the FsInfo sector
    wr,         \* the FileWriter in use
    todo,       \* what is left of the Append() calls of the command
    entry,      \* arguments of the AppendDirectoryEntry() that follows: {} or one
    pc,         \* "prompt", "flush", "closed" or "dead"
    flushed,    \* tables WriteToImage() has written
    err,        \* the exception that ended the session
    sessions,   \* bound: sessions begun
    lost,       \* history: the first session that died, or 0
    tree,       \* history: path -> "dir" or the host file packed there
    saved       \* history: tree when a session last ended properly

vars == <<fat, imgFat, data, fsinfo, wr, todo, entry, pc, flushed, err,
          sessions, lost, tree, saved>>
image == <<imgFat, data, fsinfo>>

Clusters == 2..(NumClusters + 1)

Slot(t, name, first, size) == [t |-> t, name |-> name, first |-> first, size |-> size]
Zero == Slot("zero", "", 0, 0)
Piece(f, i) == Slot("piece", f, 0, i)
DirEnt(isDir, name, first, size) == Slot(IF isDir THEN "dir" ELSE "file", name, first, size)
IsEntry(s) == s.t \in {"dir", "file"}

Entry(name, isDir, cluster, size) ==
    [name |-> name, isDir |-> isDir, cluster |-> cluster, size |-> size]
Writer(c, off, first, total) == [cluster |-> c, off |-> off, first |-> first, total |-> total]
NoWriter == Writer(0, 0, 0, 0)

-----------------------------------------------------------------------------
(***************************************************************************)
(* FatReader                                                               *)
(***************************************************************************)
NoCluster == -1     \* 0xFFFFFFF8

\* Mutant: the padding at the end of the table is searched too.
FindFreeClusterAnywhere(table) ==
    LET free == {i \in 0..(FatEntries - 1) : table[i] = 0}
    IN  IF free = {} THEN NoCluster ELSE Min(free)

FindFreeCluster(table) ==
    LET free == {i \in 0..(NumClusters - 1) : table[i] = 0}
    IN  IF free = {} THEN NoCluster ELSE Min(free)

NumFreeClusters(table) == Cardinality({i \in 0..(FatEntries - 1) : table[i] = 0})

\* Mutants: the cluster is not marked; it is not linked; it is linked, but not
\* marked.
AllocateUnmarked(table, c) == table
AllocateAfterUnlinked(table, last, c) == [table EXCEPT ![c] = EOC]
AllocateAfterUnmarked(table, last, c) == [table EXCEPT ![last] = c]

\* AllocateCluster() after a successful FindFreeCluster(), with and without a
\* predecessor in the file.
Allocate(table, c) == [table EXCEPT ![c] = EOC]
AllocateAfter(table, last, c) == [table EXCEPT ![c] = EOC, ![last] = c]

\* FileReader::NextCluster: one link further, unless the chain ends.
NextCluster(table, chain) ==
    LET ent == table[Last(chain)]
    IN  IF ent < 2 \/ ent >= EOC THEN chain ELSE Append(chain, ent)

\* The clusters FileReader visits from cluster c on.  No chain is longer than
\* the table, so that many links are enough.
ChainOf(table, c) ==
    LET upto[n \in 0..FatEntries] == IF n = 0 THEN <<c>> ELSE NextCluster(table, upto[n - 1])
    IN  upto[FatEntries]

\* Everything FileReader can read from cluster c on, slot by slot.
SlotsAlong(chain) ==
    [i \in 1..(Len(chain) * SlotsPerCluster) |->
        data[chain[((i - 1) \div SlotsPerCluster) + 1]][(i - 1) % SlotsPerCluster]]
SlotsOf(table, c) == SlotsAlong(ChainOf(table, c))

\* ScanDirectory: the entries up to the first zero slot or the end of the
\* chain.  Slots that are no directory entry make it give up.
UpToZero(slots) ==
    LET at == SelectInSeq(slots, LAMBDA s : s.t = "zero")
    IN  IF at = 0 THEN slots ELSE SubSeq(slots, 1, at - 1)
ScanResult(list) ==
    [ok |-> \A i \in 1..Len(list) : IsEntry(list[i]), list |-> list, total |-> Len(list)]
ScanDirectory(table, c) == ScanResult(UpToZero(SlotsOf(table, c)))

NamesIn(scan) == {scan.list[i].name : i \in 1..scan.total}

\* FindFile: one ScanDirectory per component of the path.
RootEntry == DirEnt(TRUE, "/", Root, 0)
NotFound == Slot("none", "", 0, 0)

Pick(scan, name) ==
    LET at == SelectInSeq(scan.list, LAMBDA s : s.name = name)
    IN  IF scan.ok /\ at # 0 THEN scan.list[at] ELSE NotFound
Lookup(table, dir, name) ==
    IF dir.t # "dir" THEN NotFound ELSE Pick(ScanDirectory(table, dir.first), name)

FindFile(table, path) ==
    LET at[n \in 0..Len(path)] ==
            IF n = 0 THEN RootEntry ELSE Lookup(table, at[n - 1], path[n])
    IN  at[Len(path)]

\* DumpFile: the slots of a file, as many as its entry says or the chain has.
FirstSlots(slots, n) == SubSeq(slots, 1, Min({n, Len(slots)}))
DumpFile(table, ent) == FirstSlots(SlotsOf(table, ent.first), ent.size)

-----------------------------------------------------------------------------
(* An image fresh from mkfs.fat: an empty root directory of one cluster. *)
Init ==
    /\ fat = [i \in 0..(FatEntries - 1) |-> 0]
    /\ imgFat = [k \in 1..NumFats |->
                    [i \in 0..(FatEntries - 1) |-> IF i <= Root THEN EOC ELSE 0]]
    /\ \E old \in OldData :
        data = [c \in Clusters |-> [i \in 0..(SlotsPerCluster - 1) |->
                    IF c = Root THEN Zero ELSE Slot(old, "", 0, 0)]]
    /\ fsinfo = [next |-> Root + 1, free |-> FatEntries - 3]
    /\ wr = NoWriter
    /\ todo = <<>>
    /\ entry = {}
    /\ pc = "closed"
    /\ flushed = 0
    /\ err = "none"
    /\ sessions = 0
    /\ lost = 0
    /\ tree = [p \in {} |-> ""]
    /\ saved = [p \in {} |-> ""]

\* main(): the super block, the FsInfo sector and the first table are read.
Open ==
    /\ pc \in {"closed", "dead"}
    /\ sessions < MaxSessions
    /\ sessions' = sessions + 1
    /\ fat' = imgFat[1]
    /\ pc' = "prompt"
    /\ err' = "none"
    /\ flushed' = 0
    /\ UNCHANGED <<image, wr, todo, entry, lost, tree, saved>>

\* Nothing catches an exception: the process ends without WriteToImage().
Die(why) ==
    /\ pc' = "dead"
    /\ err' = why
    /\ lost' = IF lost = 0 THEN sessions ELSE lost
    /\ wr' = NoWriter
    /\ todo' = <<>>
    /\ entry' = {}
    /\ UNCHANGED <<fat, image, flushed, sessions>>

Idle == pc = "prompt" /\ todo = <<>> /\ entry = {}

\* FindParent and CheckEntryNotInDir succeed for an entry called name in dir.
EntryNotInDir(scan, name) == scan.ok /\ name \notin NamesIn(scan)
ParentAccepts(parent, name) ==
    parent.t = "dir" /\ EntryNotInDir(ScanDirectory(fat, parent.first), name)
MayCreate(dir, name) == ParentAccepts(FindFile(fat, dir), name)

Remember(dir, name, what) ==
    tree' = [p \in DOMAIN tree \cup {Append(dir, name)} |->
                IF p = Append(dir, name) THEN what ELSE tree[p]]

\* Mutant: no entry that ends the list.
EmptyDirectoryOpen(parent, first) ==
    <<DirEnt(TRUE, ".", first, 0), DirEnt(TRUE, "..", parent, 0)>>

\* InitializeEmptyDirectory
EmptyDirectory(parent, first) ==
    <<DirEnt(TRUE, ".", first, 0), DirEnt(TRUE, "..", parent, 0), Zero>>

\* What PackDirectory copies from a host file.
Contents(f) == [i \in 1..FileSize[f] |-> Piece(f, i)]

\* FileWriter() for a new directory or file, and the appends and the directory
\* entry that come after it.
BeginFile(parent, first, name, what) ==
    /\ first # NoCluster
    /\ fat' = Allocate(fat, first)
    /\ wr' = Writer(first, 0, first, 0)
    /\ todo' = IF what = "dir" THEN EmptyDirectory(parent, first) ELSE Contents(what)
    /\ entry' = {Entry(name, what = "dir", parent, ScanDirectory(fat, parent).total)}
    /\ UNCHANGED <<image, pc, flushed, err, sessions, lost, saved>>

CreateDirectory(dir, name) ==
    /\ Idle
    /\ name \notin DotNames
    /\ MayCreate(dir, name)
    /\ BeginFile(FindFile(fat, dir).first, FindFreeCluster(fat), name, "dir")
    /\ Remember(dir, name, "dir")

PackDirectory(dir, name, f) ==
    /\ Idle
    /\ MayCreate(dir, name)
    /\ f \notin Unreadable
    /\ BeginFile(FindFile(fat, dir).first, FindFreeCluster(fat), name, f)
    /\ Remember(dir, name, f)

\* File() throws when the host file cannot be opened.
PackFails(dir, name, f) ==
    /\ Idle
    /\ MayCreate(dir, name)
    /\ f \in Unreadable
    /\ Die("open")
    /\ UNCHANGED <<tree, saved>>

\* FileWriter() throws when AllocateCluster() finds nothing.
CreateFails(dir, name) ==
    /\ Idle
    /\ MayCreate(dir, name)
    /\ FindFreeCluster(fat) = NoCluster
    /\ Die("full")
    /\ UNCHANGED <<tree, saved>>

\* Append(): write into the current cluster, or go on in a new one.
Write ==
    /\ pc = "prompt"
    /\ todo # <<>>
    /\ wr.off < SlotsPerCluster
    /\ data' = [data EXCEPT ![wr.cluster][wr.off] = Head(todo)]
    /\ wr' = Writer(wr.cluster, wr.off + 1, wr.first, wr.total + 1)
    /\ todo' = Tail(todo)
    /\ UNCHANGED <<fat, imgFat, fsinfo, entry, pc, flushed, err, sessions, lost, tree, saved>>

Extend ==
    /\ pc = "prompt"
    /\ todo # <<>>
    /\ wr.off = SlotsPerCluster
    /\ LET c == FindFreeCluster(fat)
       IN  /\ c # NoCluster
           /\ fat' = AllocateAfter(fat, wr.cluster, c)
           /\ wr' = Writer(c, 0, wr.first, wr.total)
    /\ UNCHANGED <<image, todo, entry, pc, flushed, err, sessions, lost, tree, saved>>

ExtendFails ==
    /\ pc = "prompt"
    /\ todo # <<>>
    /\ wr.off = SlotsPerCluster
    /\ FindFreeCluster(fat) = NoCluster
    /\ Die("full")
    /\ UNCHANGED <<tree, saved>>

\* FileWriter(idx, size): whole clusters are skipped while more than one is
\* left, and the cluster reached has to be the last one.
Skip(size) == IF size = 0 THEN 0 ELSE (size - 1) \div SlotsPerCluster
AtEnd(cluster, size) ==
    LET chain == ChainOf(fat, cluster)
    IN  Skip(size) < Len(chain) /\ fat[chain[Skip(size) + 1]] >= EOC

AppendDirectoryEntry ==
    /\ pc = "prompt"
    /\ todo = <<>>
    /\ \E e \in entry :
        /\ AtEnd(e.cluster, e.size)
        /\ LET last == ChainOf(fat, e.cluster)[Skip(e.size) + 1]
           IN  wr' = Writer(last, e.size - Skip(e.size) * SlotsPerCluster, e.cluster, e.size)
        /\ todo' = <<DirEnt(e.isDir, e.name, wr.first, IF e.isDir THEN 0 ELSE wr.total), Zero>>
    /\ entry' = {}
    /\ UNCHANGED <<fat, image, pc, flushed, err, sessions, lost, tree, saved>>

AppendEntryFails ==
    /\ pc = "prompt"
    /\ todo = <<>>
    /\ \E e \in entry : ~AtEnd(e.cluster, e.size)
    /\ Die("chain")
    /\ UNCHANGED <<tree, saved>>

\* End of input: WriteToImage() writes one table after the other, ...
EndOfInput ==
    /\ Idle
    /\ pc' = "flush"
    /\ UNCHANGED <<fat, image, wr, todo, entry, flushed, err, sessions, lost, tree, saved>>

\* Mutant: always the first table.
WriteFirstTable ==
    /\ pc = "flush"
    /\ flushed < NumFats
    /\ imgFat' = [imgFat EXCEPT ![1] = fat]
    /\ flushed' = flushed + 1
    /\ UNCHANGED <<fat, data, fsinfo, wr, todo, entry, pc, err, sessions, lost, tree, saved>>

WriteTable ==
    /\ pc = "flush"
    /\ flushed < NumFats
    /\ imgFat' = [imgFat EXCEPT ![flushed + 1] = fat]
    /\ flushed' = flushed + 1
    /\ UNCHANGED <<fat, data, fsinfo, wr, todo, entry, pc, err, sessions, lost, tree, saved>>

\* ... then the FsInfo sector.  The super block is written back as it was read.
WriteFsInfo ==
    /\ pc = "flush"
    /\ flushed = NumFats
    /\ fsinfo' = [next |-> FindFreeCluster(fat), free |-> NumFreeClusters(fat)]
    /\ pc' = "closed"
    /\ wr' = NoWriter
    /\ saved' = tree
    /\ UNCHANGED <<fat, imgFat, data, todo, entry, flushed, err, sessions, lost, tree>>

-----------------------------------------------------------------------------
\* Directories a command may name: the root, one below it, two below it.
Dirs == {<<>>} \cup {<<n>> : n \in Names}
Paths == {Append(d, n) : d \in Dirs, n \in Names}

Command(dir, name) ==
    \/ CreateDirectory(dir, name)
    \/ CreateFails(dir, name)
    \/ \E f \in Inputs : PackDirectory(dir, name, f) \/ PackFails(dir, name, f)

Proceed ==
    \/ Write \/ Extend \/ ExtendFails
    \/ AppendDirectoryEntry \/ AppendEntryFails
    \/ WriteTable \/ WriteFsInfo

Next == Open \/ (\E d \in Dirs, n \in Names : Command(d, n)) \/ EndOfInput \/ Proceed

Spec == Init /\ [][Next]_vars

\* The power goes, the process is killed, or File throws on an I/O error.
Crash == pc \in {"prompt", "flush"} /\ Die("crash") /\ UNCHANGED <<tree, saved>>

CrashSpec == Init /\ [][Next \/ Crash]_vars

-----------------------------------------------------------------------------
(***************************************************************************)
(* Properties                                                              *)
(***************************************************************************)
Links == {0, EOC} \cup Clusters
Tables == [0..(FatEntries - 1) -> Links]
Labels == Names \cup Inputs \cup {"", ".", ".."}
Slots == [t : {"dir", "file", "piece", "zero", "junk"}, name : Labels, first : Nat, size : Nat]

\* The type of each variable of the editor.
TypeOK ==
    /\ fat \in Tables
    /\ imgFat \in [1..NumFats -> Tables]
    /\ data \in [Clusters -> [0..(SlotsPerCluster - 1) -> Slots]]
    /\ fsinfo.next \in Nat \cup {NoCluster} /\ fsinfo.free \in Nat
    /\ wr \in [cluster : Clusters \cup {0}, off : 0..SlotsPerCluster,
               first : Clusters \cup {0}, total : Nat]
    /\ todo \in Seq(Slots)
    /\ entry \in SUBSET [name : Names, isDir : BOOLEAN, cluster : Clusters, size : Nat]
    /\ Cardinality(entry) <= 1
    /\ pc \in {"prompt", "flush", "closed", "dead"}
    /\ flushed \in 0..NumFats
    /\ sessions \in 0..MaxSessions
    /\ lost \in 0..MaxSessions

\* What a reader finds on the image when it follows the given table: every
\* path leads to what it should, and every directory lists its own names.
ListIs(scan, names) == scan.ok /\ NamesIn(scan) \ {".", ".."} = names
Lists(table, dir, expected, path) ==
    ListIs(ScanDirectory(table, dir.first), {n \in Names : Append(path, n) \in DOMAIN expected})

Leads(table, ent, expected, p) ==
    IF expected[p] = "dir" THEN ent.t = "dir" /\ Lists(table, ent, expected, p)
    ELSE ent.t = "file" /\ DumpFile(table, ent) = Contents(expected[p])

Shows(table, expected) ==
    /\ Lists(table, RootEntry, expected, <<>>)
    /\ \A p \in Paths :
        IF p \in DOMAIN expected THEN Leads(table, FindFile(table, p), expected, p)
        ELSE FindFile(table, p) = NotFound

\* After each command "dir" and "type" show exactly the files and directories
\* the commands so far made, with the contents of the host files: appending an
\* entry finds the right place in the parent, a directory that grows into a
\* new cluster keeps its entries, and clusters hold what was written to them.
ViewIsTree == (Idle /\ lost = 0) => Shows(fat, tree)

Heads(table, expected) == {Root} \cup {FindFile(table, p).first : p \in DOMAIN expected}
ChainSet(table, c) == ToSet(ChainOf(table, c))

\* Between commands the chains of the files and directories are disjoint, end
\* in an end marker, and are all that is marked as used: nothing is
\* cross-linked and no cluster leaks, as long as no session was lost.
ChainsPartition ==
    (Idle /\ lost = 0) =>
        LET heads == Heads(fat, tree)
        IN  /\ Cardinality(heads) = Cardinality(DOMAIN tree) + 1
            /\ \A c, d \in heads : c # d => ChainSet(fat, c) \cap ChainSet(fat, d) = {}
            /\ \A c \in heads : fat[Last(ChainOf(fat, c))] >= EOC
            /\ UNION {ChainSet(fat, c) : c \in heads} = {c \in Clusters : fat[c] # 0}

\* When a session ended properly every copy of the table leads to all files.
Committed ==
    (pc = "closed" /\ lost = 0) => \A k \in 1..NumFats : Shows(imgFat[k], saved)

\* Up to the first lost session no step overwrites a directory entry or a
\* piece of a file, in particular none of an earlier session.
NeverOverwrites ==
    [][lost = 0 => \A c \in Clusters : \A i \in 0..(SlotsPerCluster - 1) :
            data[c][i].t \in {"dir", "file", "piece"} => data'[c][i] = data[c][i]]_vars

\* On an image that holds nothing but zeros besides what the editor wrote, the
\* files saved by the sessions before the first one that dies can still be
\* read, wherever it died.
NoOldData == \A c \in Clusters : \A i \in 0..(SlotsPerCluster - 1) : data[c][i].t # "junk"
SavedSurvives ==
    (pc = "dead" /\ lost = sessions /\ NoOldData) =>
        \A p \in DOMAIN saved :
            LET ent == FindFile(imgFat[1], p)
            IN  IF saved[p] = "dir" THEN ent.t = "dir"
                ELSE ent.t = "file" /\ DumpFile(imgFat[1], ent) = Contents(saved[p])

-----------------------------------------------------------------------------
(* What the code and its documentation say, and the code does not do. *)

\* "Cluster chain not properly termminated" is only thrown for such a chain.
ChainErrorIsReal ==
    err = "chain" => \E c \in Heads(fat, saved) : fat[Last(ChainOf(fat, c))] < EOC

\* Clusters marked with 0 in the table are not in use: no directory entry that
\* can be found on the image begins in one.
MarkedFreeIsUnused ==
    pc \in {"closed", "dead"} =>
        \A p \in Paths :
            LET ent == FindFile(imgFat[1], p)
            IN  ent # NotFound => imgFat[1][ent.first] # 0
=============================================================================
