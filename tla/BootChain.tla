------------------------------ MODULE BootChain ------------------------------
(***************************************************************************)
(* From the installer to the second stage: tools/installfat.cpp writes the *)
(* VBR and the second stage into the reserved sectors of a FAT image;      *)
(* mbr/mbr.cpp and vbr/vbr.cpp find them on a disk, check them with        *)
(* Stage2Header.h and start them; the second stage opens the partition it  *)
(* was told about through BIOS/BIOSBlockDevice.h.                          *)
(*                                                                         *)
(* The unit is the sector, and one step of the installer is one sector     *)
(* written: it may be killed, or a write may fail, between any two.  A     *)
(* sector of a second stage is the file it is from, its place in it, and   *)
(* the sum of its words, which is all the header check looks at.           *)
(***************************************************************************)
EXTENDS BiosDisk, Sequences, FiniteSetsExt

CONSTANTS
    Reserved,   \* FatSuper::ReservedSectors
    ImageSize,  \* sectors of the image, the reserved ones first
    MaxLoad,    \* sectors the VBR loads at most (30)
    Modulus,    \* sums of words are modulo this (2^32)
    Files,      \* second stages: id, words (a sum for each sector), padded
    FsInfoAt,   \* where mkfs.fat may put the FsInfo sector
    BackupAt,   \* and the copy of the super block, 0 for none
    Geo,        \* the drive: cylinders, heads, sectors
    PartAt,     \* sectors of the drive the image may begin at
    Tables,     \* partition tables, sequences of kinds of entries
    MaxInstalls \* bound: runs of the installer

ASSUME BootChainAssumption ==
    /\ Reserved \in Nat /\ Reserved >= 2
    /\ ImageSize \in Nat /\ ImageSize > Reserved
    /\ MaxLoad \in Nat \ {0} /\ Modulus \in Nat \ {0}
    /\ \A f \in Files : f.words \in Seq(0..(Modulus - 1)) /\ f.padded \in BOOLEAN
    /\ FsInfoAt \subseteq 1..(Reserved - 1) /\ BackupAt \subseteq 0..(Reserved - 1)
    /\ Geo \in Geometries
    /\ PartAt \subseteq Nat \ {0}          \* sector 0 is the MBR's
    /\ MaxInstalls \in Nat
    /\ Tables \subseteq Seq({"ours", "inactive", "other"})

VARIABLES
    img,        \* the sectors of the image
    inst,       \* the installer: pc, file, super, info, next sector
    boot,       \* the boot process: pc, entry of the table, loaded sectors
    disk,       \* where the image begins, the table, what mkfs.fat chose
    installs,   \* bound: runs of the installer so far
    fault,      \* history: the BIOS reported an error in this boot
    complete    \* history: the file of the last run that wrote one: {} or one

vars == <<img, inst, boot, disk, installs, fault, complete>>

-----------------------------------------------------------------------------
(* Sectors *)

\* Any sector has a kind, the sum of its words, and the sum of the part that
\* a write of less than a sector leaves alone.
Plain(kind, word) == [kind |-> kind, word |-> word, rest |-> word]
FsInfo == Plain("fsinfo", 1)
Data == Plain("data", 1)            \* tables, files and directories
Foreign == Plain("foreign", 1)      \* elsewhere on the drive
Empty == Plain("empty", 0)
SuperBlock(code, info, backup) ==
    [kind |-> "super", word |-> 1, rest |-> 1, code |-> code, fsinfo |-> info, backup |-> backup]

\* Sector i of a second stage.  The first has the header, with the checksum.
\* A file that is not padded to whole sectors leaves the rest of its last
\* sector as it was before.
Unfilled(f, i) == ~f.padded /\ i = Len(f.words) - 1
Code(f, i, check, before) ==
    [kind |-> "code", file |-> f.id, index |-> i, count |-> Len(f.words), check |-> check,
     word |-> (f.words[i + 1] + (IF i = 0 THEN check ELSE 0)
                              + (IF Unfilled(f, i) THEN before.rest ELSE 0)) % Modulus,
     rest |-> IF Unfilled(f, i) THEN before.rest ELSE 1]

\* Stage2Header::ComputeChecksum
ComputeChecksum(words) ==
    LET upto[i \in 0..Len(words)] == IF i = 0 THEN 0 ELSE (upto[i - 1] + words[i]) % Modulus
    IN  upto[Len(words)]

\* Stage2Header::UpdateChecksum: two's complement of the sum with the field 0.
UpdateChecksum(f) == (Modulus - ComputeChecksum(f.words)) % Modulus

\* Mutant: the sum is not looked at.
VerifyHeaderOnly(sectors, maxSectors) ==
    /\ sectors[1].kind = "code" /\ sectors[1].index = 0
    /\ sectors[1].count # 0 /\ sectors[1].count <= maxSectors
    /\ sectors[1].check # 0

\* Stage2Header::Verify: magic number, sector count, checksum.
Verify(sectors, maxSectors) ==
    /\ sectors[1].kind = "code" /\ sectors[1].index = 0
    /\ sectors[1].count # 0 /\ sectors[1].count <= maxSectors
    /\ sectors[1].check # 0
    /\ ComputeChecksum([i \in 1..sectors[1].count |-> sectors[i].word]) = 0

-----------------------------------------------------------------------------
(* Disks and images *)

\* A partition table entry: ours, one that is not marked as bootable, or a
\* bootable one for another place.  CHS and LBA agree, as fdisk writes them.
MBREntry(kind, part) ==
    [bootable |-> kind # "inactive",
     lba |-> IF kind = "other" THEN 0 ELSE part,
     chs |-> LBA2CHS(Geo, IF kind = "other" THEN 0 ELSE part)]
Entries == [i \in 1..Len(disk.table) |-> MBREntry(disk.table[i], disk.part)]

DiskSector(lba) ==
    IF lba - disk.part \in 0..(ImageSize - 1) THEN img[lba - disk.part] ELSE Foreign

NoFile == [id |-> "none", words |-> <<>>, padded |-> TRUE]
Idle == [pc |-> "idle", file |-> NoFile, super |-> Empty, info |-> Empty, next |-> 0]
Off == [pc |-> "off", part |-> 0, super |-> Empty, mem |-> <<>>]

\* An image fresh from mkfs.fat (external), somewhere on a disk.
Disks == [part : PartAt, table : Tables, fsinfo : FsInfoAt, backup : BackupAt \ FsInfoAt]
FreshSector(s) ==
    CASE s = 0 \/ s = disk.backup -> SuperBlock("mkfs", disk.fsinfo, disk.backup)
      [] s = disk.fsinfo -> FsInfo
      [] s >= Reserved -> Data
      [] OTHER -> Empty

Init ==
    /\ disk \in Disks
    /\ img = [s \in 0..(ImageSize - 1) |-> FreshSector(s)]
    /\ inst = Idle
    /\ boot = Off
    /\ installs = 0
    /\ fault = FALSE
    /\ complete = {}

-----------------------------------------------------------------------------
(***************************************************************************)
(* installfat                                                              *)
(***************************************************************************)

\* Mutant: the backup copy stays where it was.
NewSuperWithBackup(super) == SuperBlock("vbr", 1, super.backup)

\* The super block without a backup, and with the FsInfo sector in sector 1.
NewSuper(super) == SuperBlock("vbr", 1, 0)

\* The super block and the FsInfo sector are read, and the VBR.
Install(f) ==
    /\ inst.pc = "idle" /\ boot.pc = "off"
    /\ installs < MaxInstalls
    /\ inst' = [pc |-> "super", file |-> f, super |-> NewSuper(img[0]),
                info |-> img[img[0].fsinfo], next |-> 0]
    /\ installs' = installs + 1
    /\ UNCHANGED <<img, boot, disk, fault, complete>>

WriteSuper ==
    /\ inst.pc = "super"
    /\ img' = [img EXCEPT ![0] = inst.super]
    /\ inst' = [inst EXCEPT !.pc = "fsinfo"]
    /\ UNCHANGED <<boot, disk, installs, fault, complete>>

WriteFsInfo ==
    /\ inst.pc = "fsinfo"
    /\ img' = [img EXCEPT ![1] = inst.info]
    /\ inst' = [inst EXCEPT !.pc = "stage2"]
    /\ UNCHANGED <<boot, disk, installs, fault, complete>>

\* Mutant: the super block and the FsInfo sector are not taken off.
MaxSectorsAll == Reserved

\* ReadAll() for the second stage, and the check of its header.  The sum goes
\* over whole sectors: behind the file the vector's last resize() left zeros.
MaxSectors == Reserved - 2
InMemory(f) == [i \in 1..Len(f.words) |-> Code(f, i - 1, UpdateChecksum(f), Empty)]
Accepted(f) ==
    /\ Len(f.words) <= MaxSectors
    /\ Len(f.words) # 0 /\ Verify(InMemory(f), Len(f.words))

ReadStage2 ==
    /\ inst.pc = "stage2"
    /\ inst' = IF Accepted(inst.file) THEN [inst EXCEPT !.pc = "write"] ELSE Idle
    /\ UNCHANGED <<img, boot, disk, installs, fault, complete>>

\* Mutant: one sector too late.
StageSectorLate(n) == 3 + n

\* WriteAt() for the second stage: its sector n follows the first two of the
\* image.
StageSector(n) == 2 + n

WriteSector ==
    /\ inst.pc = "write"
    /\ img' = [img EXCEPT ![StageSector(inst.next)] =
                    Code(inst.file, inst.next, UpdateChecksum(inst.file), @)]
    /\ IF inst.next + 1 = Len(inst.file.words)
       THEN inst' = Idle /\ complete' = {inst.file}
       ELSE inst' = [inst EXCEPT !.next = @ + 1] /\ complete' = {}
    /\ UNCHANGED <<boot, disk, installs, fault>>

\* Killed, an exception of File (which main() catches, to exit with success),
\* or a VBR that is too big.
InstallStops ==
    /\ inst.pc # "idle"
    /\ inst' = Idle
    /\ UNCHANGED <<img, boot, disk, installs, fault, complete>>

-----------------------------------------------------------------------------
(***************************************************************************)
(* MBR, VBR and second stage                                               *)
(***************************************************************************)
PowerOn ==
    /\ boot.pc = "off" /\ inst.pc = "idle"
    /\ boot' = [Off EXCEPT !.pc = "mbr"]
    /\ fault' = FALSE
    /\ UNCHANGED <<img, inst, disk, installs, complete>>

PowerOff ==
    /\ boot.pc # "off"
    /\ boot' = Off
    /\ fault' = FALSE
    /\ UNCHANGED <<img, inst, disk, installs, complete>>

Goto(b) == boot' = b /\ UNCHANGED <<img, inst, disk, installs, fault, complete>>
Hang(why) == Goto([boot EXCEPT !.pc = why])

\* BiosDisk::LoadSectors for n sectors.
Bootable == {i \in 1..Len(Entries) : Entries[i].bootable}
Loadable(at, n) == at # NoAddress /\ at + n <= Capacity(Geo)
Loaded(at, n) == [i \in 1..n |-> DiskSector(at + i - 1)]

\* The loop of main() of the MBR.
FirstBootable(entries) == Min({i \in 1..Len(entries) : entries[i].bootable})

MbrNoPartition == boot.pc = "mbr" /\ Bootable = {} /\ Hang("noPartition")

MbrLoads(entry, at) ==
    IF ~Loadable(at, 1) THEN Hang("errLoad")
    ELSE IF DiskSector(at).kind # "super" THEN Hang("noMagic")
    ELSE IF DiskSector(at).code # "vbr" THEN Hang("otherVbr")
    ELSE Goto([boot EXCEPT !.pc = "vbr", !.part = entry, !.super = DiskSector(at)])

MbrLoadsVbr ==
    /\ boot.pc = "mbr"
    /\ Bootable # {}
    /\ LET entry == FirstBootable(Entries)
       IN  MbrLoads(entry, Seeks(Geo, Registers(Entries[entry].chs)))

\* main() of the VBR: the number of sectors, and the place of the first.
VbrCount == IF Reserved - 2 > MaxLoad THEN MaxLoad ELSE Reserved - 2

\* Mutant: one sector too early.
VbrSourceEarly(chs) == SetSector(chs, SectorOf(chs) + 1)

VbrSource(chs) == SetSector(chs, SectorOf(chs) + 2)

VbrLoads(at) ==
    IF Reserved < 3 \/ ~Loadable(at, VbrCount) THEN Hang("errLoad")
    ELSE Goto([boot EXCEPT !.pc = "verify", !.mem = Loaded(at, VbrCount)])

VbrLoadsStage2 ==
    /\ boot.pc = "vbr"
    /\ VbrLoads(Seeks(Geo, Registers(VbrSource(Entries[boot.part].chs))))

\* The checks, and the entry into the second stage with the drive and the
\* partition table entry in its header.
VbrVerifies ==
    /\ boot.pc = "verify"
    /\ IF Verify(boot.mem, VbrCount)
       THEN Goto([boot EXCEPT !.pc = "stage2"])
       ELSE Hang("corrupted")

\* The BIOS reports an error for a reset, a read, or the drive's parameters.
BiosError ==
    /\ boot.pc \in {"mbr", "vbr", "stage2"}
    /\ boot' = [boot EXCEPT !.pc = "errLoad"]
    /\ fault' = TRUE
    /\ UNCHANGED <<img, inst, disk, installs, complete>>

\* BIOSBlockDevice with the start of the partition that the header names.
OpenPartition == boot.pc = "stage2" /\ Goto([boot EXCEPT !.pc = "open"])

\* BIOSBlockDevice::LoadSector
LoadSector(i) ==
    DiskSector(Seeks(Geo, Registers(LBA2CHS(Geometry(DriveParameters(Geo)),
                                            Entries[boot.part].lba + i))))

\* A session of fatedit on the image: it needs the FsInfo sector, and writes it
\* back with new counts, the super block as it was, and a copy of that where
\* the super block says.
EditImage ==
    /\ inst.pc = "idle" /\ boot.pc = "off"
    /\ img[img[0].fsinfo].kind = "fsinfo"
    /\ img[0].backup \in 1..(Reserved - 1)
    /\ img' = [img EXCEPT ![img[0].backup] = img[0]]
    /\ UNCHANGED <<inst, boot, disk, installs, fault, complete>>

Installer == (\E f \in Files : Install(f)) \/ WriteSuper \/ WriteFsInfo
             \/ ReadStage2 \/ WriteSector \/ InstallStops
Boot == PowerOn \/ PowerOff \/ MbrNoPartition \/ MbrLoadsVbr \/ VbrLoadsStage2
        \/ VbrVerifies \/ BiosError \/ OpenPartition

Next == Installer \/ EditImage \/ Boot

Spec == Init /\ [][Next]_vars

-----------------------------------------------------------------------------
(***************************************************************************)
(* Properties                                                              *)
(***************************************************************************)
BeforeCode == {Empty, Data}
CodeAt(i) ==
    UNION {{Code(f, i, UpdateChecksum(f), b) : b \in BeforeCode}
            : f \in {g \in Files : Accepted(g) /\ i < Len(g.words)}}
SectorsAt ==
    [i \in 0..(ImageSize - 3) |->
        {Empty, Data, FsInfo} \cup CodeAt(i)
        \cup {SuperBlock("mkfs", k, b) : k \in FsInfoAt, b \in BackupAt}]

\* The type of each variable of the module; in particular a sector behind the
\* FsInfo sector holds what mkfs.fat left or the sector of a second stage that
\* belongs there.
TypeOK ==
    /\ DOMAIN img = 0..(ImageSize - 1)
    /\ img[0].kind = "super"
    /\ \A i \in 2..(ImageSize - 1) : img[i] \in SectorsAt[i - 2]
    /\ inst.pc \in {"idle", "super", "fsinfo", "stage2", "write"}
    /\ inst.file \in Files \cup {NoFile}
    /\ inst.next \in 0..(Reserved - 2)
    /\ boot.pc \in {"off", "mbr", "vbr", "verify", "stage2", "open", "noPartition",
                    "errLoad", "noMagic", "otherVbr", "corrupted"}
    /\ boot.part \in 0..Len(disk.table)
    /\ installs \in 0..MaxInstalls
    /\ complete \subseteq Files

\* Every way to put sectors behind the first sector of f.
Mixtures(f) ==
    LET all == UNION {SectorsAt[i] : i \in 0..(Len(f.words) - 1)}
    IN  {m \in [1..Len(f.words) -> all] :
            /\ m[1] \in {Code(f, 0, UpdateChecksum(f), b) : b \in BeforeCode}
            /\ \A i \in 1..Len(f.words) : m[i] \in SectorsAt[i - 1]}

Startable == {f \in Files : Accepted(f) /\ Len(f.words) <= VbrCount}

\* The second stages that the sum cannot tell from some mixture of the files:
\* another word has the value that belongs there, or two errors make up for each
\* other.
Ambiguous ==
    {f \in Startable :
        \E m \in Mixtures(f) :
            m # InMemory(f) /\ ComputeChecksum([i \in 1..Len(f.words) |-> m[i].word]) = 0}

\* The VBR starts no torn second stage that a sum can detect: whenever it jumps,
\* each sector in memory is one that belongs to its place, the first one is the
\* header of an accepted file, and they are the whole of that file unless some
\* mixture has the same sum.  This is so whatever run of the installer was
\* interrupted, however much of an older file is left behind, and wherever the
\* arithmetic on the sector number led.
StartsWhole ==
    boot.pc \in {"stage2", "open"} =>
        \E f \in Startable :
            LET started == SubSeq(boot.mem, 1, Len(f.words))
            IN  started \in Mixtures(f) /\ (started = InMemory(f) \/ f \in Ambiguous)

\* The sector number of the second stage is within the track.
Aligned == (disk.part % Geo.sectors) + 3 <= Geo.sectors
CleanTail(f) == f.padded \/ img[Len(f.words) + 1].rest = 0

\* A second stage that was written completely is started, even if a later run
\* failed before it wrote any of its own: the boot ends elsewhere only after a
\* BIOS error, for another partition, for more sectors than the VBR loads, for
\* a partition that is not aligned to a track, or if old data is left behind
\* the end of a file that is not padded.
InstalledBoots ==
    \A f \in complete :
        boot.pc \in {"noMagic", "otherVbr", "errLoad", "corrupted"} =>
            \/ fault
            \/ disk.table[FirstBootable(Entries)] # "ours"
            \/ Len(f.words) > VbrCount
            \/ ~Aligned \/ disk.part + 2 + VbrCount > Capacity(Geo)
            \/ ~CleanTail(f)

\* The installer stays within the reserved sectors: the file allocation tables
\* behind them are never touched.
StaysReserved ==
    [][\A s \in Reserved..(ImageSize - 1) : img'[s] = img[s]]_img

\* At any time, also when a run was interrupted, a backup that the super block
\* names is a super block, and (on images that have the FsInfo sector in its
\* usual place) the FsInfo sector is where the super block says.
MetaFound ==
    /\ img[0].backup # 0 => img[img[0].backup].kind = "super"
    /\ disk.fsinfo = 1 => img[img[0].fsinfo].kind = "fsinfo"

\* The second stage reads the partition whose boot sector was started, sector
\* by sector, as far as there are cylinders the BIOS can name.
HandsOver ==
    boot.pc = "open" =>
        /\ disk.table[boot.part] = "ours"
        /\ \A j \in 1..(boot.part - 1) : disk.table[j] = "inactive"
        /\ \A i \in 0..(ImageSize - 1) :
            disk.part + i < Capacity(Geo) => LoadSector(i) = img[i]
=============================================================================
