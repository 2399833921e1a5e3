------------------------------ MODULE BiosDisk -------------------------------
(***************************************************************************)
(* Addresses on a disk as the BIOS wants them: the packed cylinder, head   *)
(* and sector of part/CHSPacked.h, the conversion and the registers of     *)
(* BIOS/BiosDisk.h.  Widths are parameters: a packed address has SecBits   *)
(* bits of sector (6), CylLow + CylHigh bits of cylinder (8 + 2) and       *)
(* HeadBits bits of head (8).                                              *)
(***************************************************************************)
EXTENDS Arithmetic

CONSTANTS SecBits, CylLow, CylHigh, HeadBits

ASSUME BiosDiskAssumption ==
    /\ SecBits \in Nat \ {0}
    /\ CylLow \in Nat \ {0} /\ CylHigh \in Nat \ {0}
    /\ HeadBits \in Nat \ {0}

\* How many values each part has.
SecSpan == Power(2, SecBits)
CylLowSpan == Power(2, CylLow)
CylHighSpan == Power(2, CylHigh)
HeadSpan == Power(2, HeadBits)

-----------------------------------------------------------------------------
(* CHSPacked: three bytes.  The upper bits of mid belong to the cylinder. *)

Packed(lo, mid, hi) == [lo |-> lo, mid |-> mid, hi |-> hi]

HeadOf(chs) == chs.lo
SectorOf(chs) == chs.mid % SecSpan
CylinderOf(chs) == (chs.mid \div SecSpan) * CylLowSpan + chs.hi

SetHead(chs, v) == [chs EXCEPT !.lo = v % HeadSpan]
SetSector(chs, v) == [chs EXCEPT !.mid = (@ \div SecSpan) * SecSpan + (v % SecSpan)]

\* Mutant: the upper bits of the cylinder are dropped.
SetCylinderLow(chs, v) == [chs EXCEPT !.hi = v % CylLowSpan]

SetCylinder(chs, v) ==
    [chs EXCEPT !.mid = (@ % SecSpan) + ((v \div CylLowSpan) % CylHighSpan) * SecSpan,
                !.hi = v % CylLowSpan]

-----------------------------------------------------------------------------
(* BiosDisk *)

\* DriveGeometry::LBA2CHS
LBA2CHS(g, lba) ==
    SetSector(SetHead(SetCylinder(Packed(0, 0, 0), lba \div (g.heads * g.sectors)),
                      (lba \div g.sectors) % g.heads),
              (lba % g.sectors) + 1)

\* LoadSectors: what goes into the registers CX and DX.
Registers(chs) ==
    [ch |-> CylinderOf(chs) % CylLowSpan,
     cl |-> ((CylinderOf(chs) \div CylLowSpan) % CylHighSpan) * SecSpan + SectorOf(chs),
     dh |-> HeadOf(chs)]

\* ReadDriveParameters: the BIOS says the highest cylinder and head.
Geometry(regs) ==
    [cylinders |-> (regs.cl \div SecSpan) * CylLowSpan + regs.ch + 1,
     sectors |-> regs.cl % SecSpan,
     heads |-> regs.dh + 1]

-----------------------------------------------------------------------------
(* The BIOS (external): what it answers, and which sector it looks for. *)

DriveParameters(g) ==
    [ch |-> (g.cylinders - 1) % CylLowSpan,
     cl |-> ((g.cylinders - 1) \div CylLowSpan) * SecSpan + g.sectors,
     dh |-> g.heads - 1]

NoAddress == -1

Seeks(g, regs) ==
    LET cylinder == (regs.cl \div SecSpan) * CylLowSpan + regs.ch
        sector == regs.cl % SecSpan
    IN  IF sector \in 1..g.sectors /\ regs.dh < g.heads /\ cylinder < g.cylinders
        THEN (cylinder * g.heads + regs.dh) * g.sectors + sector - 1
        ELSE NoAddress

\* The drives it can describe: all of these fit the registers.
Geometries ==
    [cylinders : 1..(CylLowSpan * CylHighSpan), heads : 1..HeadSpan, sectors : 1..(SecSpan - 1)]

\* The sectors of a drive that have such an address at all.
Capacity(g) == g.cylinders * g.heads * g.sectors
=============================================================================
