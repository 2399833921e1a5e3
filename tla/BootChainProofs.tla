--------------------------- MODULE BootChainProofs ---------------------------
(***************************************************************************)
(* Proofs for BootChain: what cylinder, head and sector stand for, what    *)
(* the installer leaves on the image after any number of runs, complete or *)
(* not, and what the boot sectors make of it.                              *)
(***************************************************************************)
EXTENDS BootChain, Induction

-----------------------------------------------------------------------------
(* Cylinder, head and sector. *)

\* The parts of a packed address have room for something.
LEMMA Spans ==
    /\ SecSpan \in Nat \ {0} /\ CylLowSpan \in Nat \ {0}
    /\ CylHighSpan \in Nat \ {0} /\ HeadSpan \in Nat \ {0}
  <1>1. 2 \in Nat \ {0}
      OBVIOUS
  <1> QED
      BY <1>1, PowerPositive, BiosDiskAssumption DEF SecSpan, CylLowSpan, CylHighSpan, HeadSpan

\* Quotient and remainder are determined by what they make.
LEMMA DivUnique ==
    ASSUME NEW b \in Nat \ {0}, NEW q \in Nat, NEW r \in 0..(b - 1)
    PROVE  (q * b + r) \div b = q /\ (q * b + r) % b = r
  OBVIOUS

\* The packed form of cylinder c, head h and sector s.
Address(c, h, s) == [lo |-> h, mid |-> (c \div CylLowSpan) * SecSpan + s, hi |-> c % CylLowSpan]

\* What the parts of a packed address may be on a drive.
OnDrive(g, c, h, s) == c \in 0..(g.cylinders - 1) /\ h \in 0..(g.heads - 1) /\ s \in 1..g.sectors

\* The bits of the cylinder that go into the middle byte fit there.
LEMMA HighBits ==
    ASSUME NEW g \in Geometries, NEW c \in 0..(g.cylinders - 1)
    PROVE  c \div CylLowSpan \in 0..(CylHighSpan - 1) /\ c % CylLowSpan \in 0..(CylLowSpan - 1)
  <1>1. c \in Nat /\ c < CylHighSpan * CylLowSpan
    <2>1. g.cylinders \in 1..(CylLowSpan * CylHighSpan)
        BY DEF Geometries
    <2> QED
        BY <2>1, Spans
  <1>2. c \div CylLowSpan < CylHighSpan
      BY <1>1, Spans, DivBelow
  <1>3. c \div CylLowSpan \in Nat /\ c % CylLowSpan \in 0..(CylLowSpan - 1)
      BY <1>1, Spans
  <1> QED
      BY <1>2, <1>3, Spans

\* Two of the three bytes are set.
LEMMA SetMidAndHi ==
    ASSUME NEW a, NEW b, NEW d, NEW x, NEW y, NEW r, r = [lo |-> a, mid |-> b, hi |-> d]
    PROVE  [r EXCEPT !.mid = x, !.hi = y] = [lo |-> a, mid |-> x, hi |-> y]
  <1>1. [r EXCEPT !.mid = x, !.hi = y] = [[r EXCEPT !.mid = x] EXCEPT !.hi = y]
      OBVIOUS
  <1>2. PICK t : t = [r EXCEPT !.mid = x]
      OBVIOUS
  <1>3. t = [lo |-> a, mid |-> x, hi |-> d]
      BY <1>2
  <1>4. [t EXCEPT !.hi = y] = [lo |-> a, mid |-> x, hi |-> y]
      BY <1>3
  <1> QED
      BY <1>1, <1>2, <1>4

\* LBA2CHS() makes the packed form of the cylinder, head and sector that a
\* linear address stands for.
LEMMA ConvertsTo ==
    ASSUME NEW g \in Geometries, NEW c, NEW h, NEW s, OnDrive(g, c, h, s)
    PROVE  LBA2CHS(g, (c * g.heads + h) * g.sectors + (s - 1)) = Address(c, h, s)
  <1> DEFINE H == g.heads
             S == g.sectors
             k == c * H + h
             lba == k * S + (s - 1)
             top == c \div CylLowSpan
             low == c % CylLowSpan
  <1>1. /\ c \in Nat /\ h \in Nat /\ s \in Nat /\ h < H /\ s - 1 \in 0..(S - 1)
        /\ H \in Nat \ {0} /\ S \in Nat \ {0} /\ H <= HeadSpan /\ s < SecSpan
      BY Spans DEF Geometries, OnDrive
  <1>2. k \in Nat /\ k \div H = c /\ k % H = h
    <2>1. h \in 0..(H - 1)
        BY <1>1
    <2> HIDE DEF H
    <2> QED
        BY <1>1, <2>1, DivUnique
  <1>3. lba \div S = k /\ lba % S = s - 1
    <2> HIDE DEF k, S
    <2> QED
        BY <1>1, <1>2, DivUnique
  <1>4. lba \div (H * S) = c
    <2> DEFINE t == h * S + (s - 1)
               b == H * S
    <2> HIDE DEF H, S
    <2>1. t \in Nat /\ b \in Nat \ {0}
        BY <1>1
    <2>2. h * S + S <= b
      <3>1. h + 1 <= H /\ h + 1 \in Nat
          BY <1>1
      <3>2. (h + 1) * S <= H * S
          BY <1>1, <3>1
      <3>3. (h + 1) * S = h * S + S
          BY <1>1
      <3> QED
          BY <3>2, <3>3
    <2>3. t \in 0..(b - 1)
        BY <1>1, <2>1, <2>2
    <2>4. lba = c * b + t
        BY <1>1
    <2> HIDE DEF t, b, lba
    <2>5. lba \div b = c
        BY <1>1, <2>1, <2>3, <2>4, DivUnique
    <2> QED
        BY <2>5 DEF b
  <1>5. top \in 0..(CylHighSpan - 1) /\ low \in 0..(CylLowSpan - 1)
      BY HighBits DEF OnDrive
  <1> HIDE DEF H, S, k, lba, top, low
  <1>6. top % CylHighSpan = top /\ h % HeadSpan = h /\ s % SecSpan = s
      BY <1>1, <1>5, Spans
  <1>7. SetCylinder(Packed(0, 0, 0), c) = [lo |-> 0, mid |-> top * SecSpan, hi |-> low]
    <2>1. 0 % SecSpan = 0 /\ 0 + top * SecSpan = top * SecSpan
        BY <1>5, Spans
    <2>2. PICK r : r = Packed(0, 0, 0)
        OBVIOUS
    <2>3. r = [lo |-> 0, mid |-> 0, hi |-> 0] /\ r.mid = 0
        BY <2>2 DEF Packed
    <2> DEFINE x == (r.mid % SecSpan) + ((c \div CylLowSpan) % CylHighSpan) * SecSpan
    <2>4. SetCylinder(r, c) = [r EXCEPT !.mid = x, !.hi = c % CylLowSpan]
        BY DEF SetCylinder
    <2>5. x = top * SecSpan
        BY <1>6, <2>1, <2>3 DEF top
    <2> HIDE DEF x
    <2>6. SetCylinder(r, c) = [lo |-> 0, mid |-> x, hi |-> c % CylLowSpan]
        BY <2>3, <2>4, SetMidAndHi
    <2> QED
        BY <2>2, <2>5, <2>6 DEF low
  <1>8. SetHead([lo |-> 0, mid |-> top * SecSpan, hi |-> low], h)
            = [lo |-> h, mid |-> top * SecSpan, hi |-> low]
      BY <1>6 DEF SetHead
  <1>9. SetSector([lo |-> h, mid |-> top * SecSpan, hi |-> low], s)
            = [lo |-> h, mid |-> top * SecSpan + s, hi |-> low]
    <2>1. (top * SecSpan) \div SecSpan = top
        BY <1>5, Spans
    <2> QED
        BY <1>6, <2>1 DEF SetSector
  <1>10. (lba % S) + 1 = s
      BY <1>1, <1>3
  <1> QED
      BY <1>2, <1>3, <1>4, <1>7, <1>8, <1>9, <1>10 DEF LBA2CHS, Address, lba, k, H, S, top, low

\* The BIOS looks for that cylinder, head and sector.
LEMMA SeeksTo ==
    ASSUME NEW g \in Geometries, NEW c, NEW h, NEW s, OnDrive(g, c, h, s)
    PROVE  Seeks(g, Registers(Address(c, h, s))) = (c * g.heads + h) * g.sectors + s - 1
  <1> DEFINE top == c \div CylLowSpan
             low == c % CylLowSpan
             a == Address(c, h, s)
             regs == Registers(a)
  <1>1. /\ c \in Nat /\ h \in Nat /\ s \in 0..(SecSpan - 1)
        /\ s \in 1..g.sectors /\ h < g.heads /\ c < g.cylinders
      BY Spans DEF Geometries, OnDrive
  <1>2. top \in 0..(CylHighSpan - 1) /\ low \in 0..(CylLowSpan - 1)
      BY HighBits DEF OnDrive
  <1>3. c = top * CylLowSpan + low
      BY <1>1, Spans, Recombine, Zenon
  <1> HIDE DEF top, low
  <1>4. (top * SecSpan + s) \div SecSpan = top /\ (top * SecSpan + s) % SecSpan = s
      BY <1>1, <1>2, Spans, DivUnique
  <1>5. c \div CylLowSpan = top /\ c % CylLowSpan = low /\ top % CylHighSpan = top
    <2>1. top % CylHighSpan = top
        BY <1>2, Spans
    <2> QED
        BY <2>1 DEF top, low
  <1>6. SectorOf(a) = s /\ CylinderOf(a) = c /\ HeadOf(a) = h
    <2>1. a.lo = h /\ a.mid = top * SecSpan + s /\ a.hi = low
        BY DEF Address, top, low
    <2> QED
        BY <1>3, <1>4, <2>1 DEF SectorOf, CylinderOf, HeadOf
  <1> HIDE DEF a
  <1>7. regs.ch = low /\ regs.cl = top * SecSpan + s /\ regs.dh = h
      BY <1>5, <1>6 DEF Registers
  <1> HIDE DEF regs
  <1>8. (regs.cl \div SecSpan) * CylLowSpan + regs.ch = c /\ regs.cl % SecSpan = s
      BY <1>3, <1>4, <1>7
  <1> QED
      BY <1>1, <1>7, <1>8 DEF Seeks, regs, a

\* Every sector of a drive has a cylinder, a head and a sector number.
LEMMA HasAddress ==
    ASSUME NEW g \in Geometries, NEW lba \in Nat, lba < Capacity(g)
    PROVE  \E c, h, s : /\ OnDrive(g, c, h, s)
                        /\ lba = (c * g.heads + h) * g.sectors + (s - 1)
                        /\ s = (lba % g.sectors) + 1
  <1> DEFINE C == g.cylinders
             H == g.heads
             S == g.sectors
             k == lba \div S
             r == lba % S
             c == k \div H
             h == k % H
  <1>1. C \in Nat \ {0} /\ H \in Nat \ {0} /\ S \in Nat \ {0} /\ lba < (C * H) * S
      BY Spans DEF Geometries, Capacity
  <1> HIDE DEF C, H, S
  <1>2. k \in Nat /\ r \in 0..(S - 1)
      BY <1>1
  <1>3. lba = k * S + r
      BY <1>1, Recombine, Zenon
  <1>4. k < C * H
    <2>1. C * H \in Nat
        BY <1>1
    <2> HIDE DEF k
    <2>2. lba \div S < C * H
        BY <1>1, <2>1, DivBelow
    <2> QED
        BY <2>2 DEF k
  <1> HIDE DEF k, r
  <1>5. c \in Nat /\ h \in 0..(H - 1)
      BY <1>1, <1>2
  <1>6. k = c * H + h
      BY <1>1, <1>2, Recombine, Zenon
  <1>7. c < C
      BY <1>1, <1>2, <1>4, DivBelow
  <1> HIDE DEF c, h
  <1>8. OnDrive(g, c, h, r + 1)
      BY <1>1, <1>2, <1>5, <1>7 DEF OnDrive, C, H, S
  <1>9. lba = (c * H + h) * S + ((r + 1) - 1)
    <2>1. (r + 1) - 1 = r
        BY <1>2
    <2> QED
        BY <1>3, <1>6, <2>1
  <1> QED
      BY <1>8, <1>9 DEF H, S, r

\* What LBA2CHS() makes of the number of a sector leads the BIOS there.
LEMMA RoundTrip ==
    ASSUME NEW g \in Geometries, NEW lba \in Nat, lba < Capacity(g)
    PROVE  Seeks(g, Registers(LBA2CHS(g, lba))) = lba
  <1>1. PICK c, h, s : /\ OnDrive(g, c, h, s)
                       /\ lba = (c * g.heads + h) * g.sectors + (s - 1)
      BY HasAddress
  <1>2. LBA2CHS(g, lba) = Address(c, h, s)
      BY <1>1, ConvertsTo
  <1>3. Seeks(g, Registers(Address(c, h, s))) = (c * g.heads + h) * g.sectors + s - 1
      BY <1>1, SeeksTo
  <1>4. (c * g.heads + h) * g.sectors + s - 1 = (c * g.heads + h) * g.sectors + (s - 1)
    <2>1. (c * g.heads + h) * g.sectors \in Int /\ s \in Int
      <3>1. c \in Int /\ h \in Int /\ s \in Int /\ g.heads \in Int /\ g.sectors \in Int
          BY <1>1, Spans DEF OnDrive, Geometries
      <3> QED
          BY <3>1
    <2> QED
        BY <2>1
  <1> QED
      BY <1>1, <1>2, <1>3, <1>4

\* The VBR adds two to the sector number.  Within a track that is the sector
\* two further on.
LEMMA VbrPlace ==
    ASSUME NEW g \in Geometries, NEW lba \in Nat, lba < Capacity(g),
           (lba % g.sectors) + 3 <= g.sectors
    PROVE  Seeks(g, Registers(VbrSource(LBA2CHS(g, lba)))) = lba + 2
  <1>1. PICK c, h, s : /\ OnDrive(g, c, h, s)
                       /\ lba = (c * g.heads + h) * g.sectors + (s - 1)
                       /\ s = (lba % g.sectors) + 1
      BY HasAddress
  <1> DEFINE top == c \div CylLowSpan
             low == c % CylLowSpan
  <1>2. /\ s \in Nat /\ s \in 0..(SecSpan - 1) /\ s + 2 \in 0..(SecSpan - 1)
        /\ s + 2 \in 1..g.sectors /\ c \in Int /\ h \in Int
        /\ g.heads \in Int /\ g.sectors \in Int
    <2>1. lba % g.sectors \in Nat
        BY Spans DEF Geometries
    <2> QED
        BY <1>1, <2>1, Spans DEF OnDrive, Geometries
  <1>3. top \in 0..(CylHighSpan - 1) /\ low \in 0..(CylLowSpan - 1)
      BY <1>1, HighBits DEF OnDrive
  <1>4. LBA2CHS(g, lba) = [lo |-> h, mid |-> top * SecSpan + s, hi |-> low]
      BY <1>1, ConvertsTo DEF Address
  <1> HIDE DEF top, low
  <1>5. PICK a : a = [lo |-> h, mid |-> top * SecSpan + s, hi |-> low]
      OBVIOUS
  <1>6. a.mid \div SecSpan = top /\ a.mid % SecSpan = s
    <2>1. a.mid = top * SecSpan + s
        BY <1>5
    <2>2. (top * SecSpan + s) \div SecSpan = top /\ (top * SecSpan + s) % SecSpan = s
      <3>1. SecSpan \in Nat \ {0} /\ top \in Nat /\ s \in 0..(SecSpan - 1)
          BY <1>2, <1>3, Spans
      <3> QED
          BY <3>1, DivUnique
    <2> QED
        BY <2>1, <2>2, Zenon
  <1>7. (s + 2) % SecSpan = s + 2
      BY <1>2, Spans
  <1>8. VbrSource(a) = Address(c, h, s + 2)
    <2>1. VbrSource(a) = [a EXCEPT !.mid = top * SecSpan + (s + 2)]
        BY <1>6, <1>7 DEF VbrSource, SetSector, SectorOf
    <2> QED
        BY <1>5, <2>1 DEF Address, top, low
  <1>9. OnDrive(g, c, h, s + 2)
      BY <1>1, <1>2 DEF OnDrive
  <1>10. Seeks(g, Registers(Address(c, h, s + 2))) = (c * g.heads + h) * g.sectors + (s + 2) - 1
      BY <1>9, SeeksTo
  <1>11. (c * g.heads + h) * g.sectors + (s + 2) - 1 = lba + 2
    <2> DEFINE x == (c * g.heads + h) * g.sectors
    <2>1. x \in Int
        BY <1>2
    <2>2. lba = x + (s - 1)
        BY <1>1
    <2> HIDE DEF x
    <2>3. x + (s + 2) - 1 = lba + 2
        BY <1>2, <2>1, <2>2
    <2> QED
        BY <2>3 DEF x
  <1> QED
      BY <1>4, <1>5, <1>8, <1>10, <1>11

\* What ReadDriveParameters() makes of the answer of the BIOS is the drive.
LEMMA GeometryRead ==
    ASSUME NEW g \in Geometries
    PROVE  Geometry(DriveParameters(g)) = g
  <1> DEFINE c == g.cylinders - 1
             top == c \div CylLowSpan
             low == c % CylLowSpan
             regs == DriveParameters(g)
  <1>1. /\ c \in Nat /\ c \in 0..(g.cylinders - 1) /\ g.sectors \in 0..(SecSpan - 1)
        /\ g.heads \in Nat /\ g.cylinders \in Nat
      BY Spans DEF Geometries
  <1>2. top \in 0..(CylHighSpan - 1) /\ low \in 0..(CylLowSpan - 1)
      BY <1>1, HighBits
  <1>3. c = top * CylLowSpan + low
      BY <1>1, Spans, Recombine, Zenon
  <1>4. regs.ch = low /\ regs.cl = top * SecSpan + g.sectors /\ regs.dh = g.heads - 1
      BY DEF DriveParameters
  <1>5. top * CylLowSpan + low + 1 = g.cylinders
      BY <1>1, <1>2, <1>3, Spans
  <1> HIDE DEF regs, top, low
  <1>6. regs.cl \div SecSpan = top /\ regs.cl % SecSpan = g.sectors
    <2>1. /\ (top * SecSpan + g.sectors) \div SecSpan = top
          /\ (top * SecSpan + g.sectors) % SecSpan = g.sectors
      <3>1. SecSpan \in Nat \ {0} /\ top \in Nat /\ g.sectors \in 0..(SecSpan - 1)
          BY <1>1, <1>2, Spans
      <3> QED
          BY <3>1, DivUnique
    <2> QED
        BY <1>4, <2>1, Zenon
  <1>7. g.heads - 1 + 1 = g.heads
      BY <1>1
  <1>8. Geometry(regs) = [cylinders |-> g.cylinders, sectors |-> g.sectors, heads |-> g.heads]
      BY <1>4, <1>5, <1>6, <1>7 DEF Geometry
  <1>9. g = [cylinders |-> g.cylinders, heads |-> g.heads, sectors |-> g.sectors]
      BY DEF Geometries
  <1>10. [cylinders |-> g.cylinders, sectors |-> g.sectors, heads |-> g.heads]
            = [cylinders |-> g.cylinders, heads |-> g.heads, sectors |-> g.sectors]
      OBVIOUS
  <1> QED
      BY <1>8, <1>9, <1>10 DEF regs

\* Wherever the arithmetic leads, the bytes are numbers, and the BIOS finds a
\* sector of the drive or none.
Bytes3(a) == a.lo \in Nat /\ a.mid \in Nat /\ a.hi \in Nat

LEMMA SeeksRange ==
    ASSUME NEW g \in Geometries, NEW a, Bytes3(a)
    PROVE  \/ Seeks(g, Registers(a)) = NoAddress
           \/ Seeks(g, Registers(a)) \in 0..(Capacity(g) - 1)
  <1> DEFINE C == g.cylinders
             H == g.heads
             S == g.sectors
             regs == Registers(a)
             c == (regs.cl \div SecSpan) * CylLowSpan + regs.ch
             s == regs.cl % SecSpan
             h == regs.dh
  <1>1. SectorOf(a) \in Nat /\ CylinderOf(a) \in Nat /\ HeadOf(a) \in Nat
      BY Spans DEF Bytes3, SectorOf, CylinderOf, HeadOf
  <1>2. regs.ch \in Nat /\ regs.cl \in Nat /\ regs.dh \in Nat
    <2>1. \A x \in Nat : x % CylLowSpan \in Nat /\ (x \div CylLowSpan) % CylHighSpan \in Nat
        BY Spans
    <2>2. \A x \in Nat, y \in Nat : x * SecSpan + y \in Nat
        BY Spans
    <2> QED
        BY <1>1, <2>1, <2>2 DEF Registers
  <1> HIDE DEF regs
  <1>3. c \in Nat /\ s \in Nat /\ h \in Nat
      BY <1>2, Spans
  <1>4. Seeks(g, regs) = IF s \in 1..S /\ h < H /\ c < C THEN (c * H + h) * S + s - 1 ELSE NoAddress
      BY DEF Seeks
  <1>5. C \in Nat /\ H \in Nat /\ S \in Nat /\ Capacity(g) = (C * H) * S
      BY Spans DEF Geometries, Capacity
  <1> HIDE DEF C, H, S, c, s, h
  <1>6. ASSUME s \in 1..S, h < H, c < C
        PROVE  (c * H + h) * S + s - 1 \in 0..((C * H) * S - 1)
    <2>1. (c + 1) * H <= C * H /\ (c + 1) * H = c * H + H /\ c * H \in Nat /\ C * H \in Nat
        BY <1>3, <1>5, <1>6
    <2>2. c * H + h + 1 <= C * H
        BY <1>3, <1>5, <1>6, <2>1
    <2> DEFINE k == c * H + h
               m == C * H
    <2>3. k \in Nat /\ m \in Nat /\ k + 1 <= m
        BY <1>3, <2>1, <2>2
    <2> HIDE DEF k, m
    <2>4. (k + 1) * S <= m * S /\ (k + 1) * S = k * S + S /\ k * S \in Nat /\ m * S \in Nat
        BY <1>5, <2>3
    <2>5. k * S + s - 1 \in 0..(m * S - 1)
        BY <1>3, <1>5, <1>6, <2>4
    <2> QED
        BY <2>5 DEF k, m
  <1> QED
      BY <1>4, <1>5, <1>6 DEF regs

\* The conversions make numbers of numbers.
LEMMA PackedBytes ==
    ASSUME NEW g \in Geometries, NEW lba \in Nat
    PROVE  Bytes3(LBA2CHS(g, lba)) /\ Bytes3(VbrSource(LBA2CHS(g, lba)))
  <1>1. ASSUME NEW lo \in Nat, NEW mid \in Nat, NEW hi \in Nat, NEW v \in Nat,
               NEW a, a = [lo |-> lo, mid |-> mid, hi |-> hi]
        PROVE  \E m \in Nat : SetSector(a, v) = [lo |-> lo, mid |-> m, hi |-> hi]
    <2> DEFINE m == (mid \div SecSpan) * SecSpan + (v % SecSpan)
    <2>1. m \in Nat
        BY Spans
    <2>2. SetSector(a, v) = [lo |-> lo, mid |-> m, hi |-> hi]
        BY <1>1 DEF SetSector
    <2> QED
        BY <2>1, <2>2
  <1> DEFINE c == lba \div (g.heads * g.sectors)
             h == (lba \div g.sectors) % g.heads
             s == (lba % g.sectors) + 1
  <1>2. c \in Nat /\ h \in Nat /\ s \in Nat
    <2>1. g.heads \in Nat \ {0} /\ g.sectors \in Nat \ {0}
        BY Spans DEF Geometries
    <2>2. g.heads * g.sectors \in Nat \ {0}
        BY <2>1
    <2>3. \A x \in Nat, b \in Nat \ {0} : x \div b \in Nat /\ x % b \in Nat
        OBVIOUS
    <2> QED
        BY <2>1, <2>2, <2>3
  <1>3. LBA2CHS(g, lba) = SetSector(SetHead(SetCylinder(Packed(0, 0, 0), c), h), s)
      BY DEF LBA2CHS
  <1> HIDE DEF c, h, s
  <1> DEFINE m == ((c \div CylLowSpan) % CylHighSpan) * SecSpan
             d == c % CylLowSpan
             l == h % HeadSpan
  <1>4. m \in Nat /\ d \in Nat /\ l \in Nat
    <2>1. (c \div CylLowSpan) % CylHighSpan \in Nat
        BY <1>2, Spans
    <2> QED
        BY <1>2, <2>1, Spans
  <1>5. SetCylinder(Packed(0, 0, 0), c) = [lo |-> 0, mid |-> m, hi |-> d]
    <2>1. PICK r : r = Packed(0, 0, 0)
        OBVIOUS
    <2>2. r = [lo |-> 0, mid |-> 0, hi |-> 0] /\ r.mid = 0
        BY <2>1 DEF Packed
    <2> DEFINE x == (r.mid % SecSpan) + m
    <2>3. SetCylinder(r, c) = [r EXCEPT !.mid = x, !.hi = d]
        BY Zenon DEF SetCylinder
    <2> HIDE DEF m, d
    <2>4. x = m
        BY <1>4, <2>2, Spans
    <2> HIDE DEF x
    <2>5. SetCylinder(r, c) = [lo |-> 0, mid |-> x, hi |-> d]
        BY <2>2, <2>3, SetMidAndHi
    <2> QED
        BY <2>1, <2>4, <2>5
  <1> HIDE DEF m, d
  <1>6. SetHead([lo |-> 0, mid |-> m, hi |-> d], h) = [lo |-> l, mid |-> m, hi |-> d]
      BY DEF SetHead
  <1> HIDE DEF l
  <1>7. PICK n \in Nat : LBA2CHS(g, lba) = [lo |-> l, mid |-> n, hi |-> d]
      BY <1>1, <1>2, <1>3, <1>4, <1>5, <1>6
  <1>8. PICK a : a = LBA2CHS(g, lba)
      OBVIOUS
  <1>9. SectorOf(a) + 2 \in Nat
    <2>1. a.mid = n
        BY <1>7, <1>8
    <2> QED
        BY <2>1, Spans DEF SectorOf
  <1>10. PICK k \in Nat : VbrSource(a) = [lo |-> l, mid |-> k, hi |-> d]
      BY <1>1, <1>4, <1>7, <1>8, <1>9 DEF VbrSource
  <1> QED
      BY <1>4, <1>7, <1>8, <1>10 DEF Bytes3

-----------------------------------------------------------------------------
(* The inductive invariant. *)

MkfsSuper == SuperBlock("mkfs", disk.fsinfo, disk.backup)
VbrSuper == SuperBlock("vbr", 1, 0)

\* What may be in sector 1.
LowSectors == {Empty, FsInfo, MkfsSuper}

\* Sector i of f is on the image.
Written(f, i) == \E b \in BeforeCode : img[2 + i] = Code(f, i, UpdateChecksum(f), b)

\* Either the image is as mkfs.fat left it, or its super block is that of the
\* installer: there is no state in between that anyone else could see.
ImageInv ==
    /\ disk \in Disks
    /\ DOMAIN img = 0..(ImageSize - 1) /\ img = [s \in DOMAIN img |-> img[s]]
    /\ \/ \A s \in 0..(ImageSize - 1) : img[s] = FreshSector(s)
       \/ img[0] = VbrSuper
    /\ img[1] \in LowSectors
    /\ disk.fsinfo = 1 => img[1] = FsInfo
    /\ \A i \in 2..(ImageSize - 1) : img[i] \in SectorsAt[i - 2]

\* The installer: what it has in memory, and what it has written so far.
InstInv ==
    /\ inst \in [pc : {"idle", "super", "fsinfo", "stage2", "write"}, file : Files \cup {NoFile},
                 super : {Empty, VbrSuper}, info : LowSectors, next : 0..(Reserved - 2)]
    /\ inst.pc # "idle" =>
        /\ inst.file \in Files
        /\ inst.super = VbrSuper
        /\ disk.fsinfo = 1 => inst.info = FsInfo
    /\ inst.pc \in {"super", "fsinfo", "stage2"} => inst.next = 0
    /\ inst.pc \in {"fsinfo", "stage2", "write"} => img[0] = VbrSuper
    /\ inst.pc = "write" =>
        /\ Accepted(inst.file) /\ inst.next < Len(inst.file.words)
        /\ \A i \in 0..(inst.next - 1) : Written(inst.file, i)

\* A file that was written completely is there as long as no other is begun.
CompleteInv ==
    /\ installs \in 0..MaxInstalls
    /\ complete \subseteq Files
    /\ \A f \in complete :
        /\ Accepted(f) /\ img[0] = VbrSuper
        /\ \A i \in 0..(Len(f.words) - 1) : Written(f, i)

BootPc == {"off", "mbr", "vbr", "verify", "stage2", "open", "noPartition", "errLoad", "noMagic",
           "otherVbr", "corrupted"}

\* The boot process: it runs while the installer does not.  The entry it goes
\* by is the first that is marked as bootable, and ours; the sectors in memory
\* are those of the drive from some place on, the right one if the partition
\* is aligned.
BootInv ==
    /\ boot = [pc |-> boot.pc, part |-> boot.part, super |-> boot.super, mem |-> boot.mem]
    /\ boot.pc \in BootPc
    /\ boot.part \in 0..Len(disk.table)
    /\ boot.pc # "off" => inst.pc = "idle"
    /\ boot.pc \in {"vbr", "verify", "stage2", "open"} =>
        /\ boot.part \in 1..Len(disk.table) /\ disk.table[boot.part] = "ours"
        /\ \A j \in 1..(boot.part - 1) : disk.table[j] = "inactive"
        /\ disk.part < Capacity(Geo)
    /\ boot.pc \in {"verify", "stage2", "open"} =>
        /\ Reserved >= 3
        /\ \E at \in Nat : boot.mem = Loaded(at, VbrCount) /\ (Aligned => at = disk.part + 2)
    /\ boot.pc \in {"stage2", "open"} => Verify(boot.mem, VbrCount)

Inv == ImageInv /\ InstInv /\ CompleteInv /\ BootInv /\ InstalledBoots

-----------------------------------------------------------------------------
(* Sectors. *)

\* The sizes of the reserved area and of what the VBR loads.
LEMMA Sizes ==
    /\ Reserved \in Nat /\ ImageSize \in Nat /\ Reserved >= 2 /\ ImageSize > Reserved
    /\ MaxSectors \in Nat /\ MaxSectors = Reserved - 2
    /\ VbrCount \in Nat /\ VbrCount <= Reserved - 2 /\ (Reserved >= 3 => VbrCount >= 1)
  BY BootChainAssumption DEF MaxSectors, VbrCount

\* Files have words.
LEMMA FileType ==
    ASSUME NEW f \in Files
    PROVE  f.words \in Seq(0..(Modulus - 1)) /\ Len(f.words) \in Nat /\ f.padded \in BOOLEAN
  <1>1. f.words \in Seq(0..(Modulus - 1)) /\ f.padded \in BOOLEAN
      BY BootChainAssumption
  <1> QED
      BY <1>1

\* The sectors of a fresh image.
LEMMA FreshCases ==
    ASSUME disk \in Disks, NEW s \in 0..(ImageSize - 1)
    PROVE  /\ s = 0 \/ s = disk.backup => FreshSector(s) = MkfsSuper
           /\ s = disk.fsinfo => FreshSector(s) = FsInfo
           /\ FreshSector(s) \in {MkfsSuper, FsInfo, Data, Empty}
           /\ s < Reserved => FreshSector(s) \in {MkfsSuper, FsInfo, Empty}
  <1>1. /\ disk.fsinfo \in 1..(Reserved - 1) /\ disk.backup \in 0..(Reserved - 1)
        /\ disk.backup # disk.fsinfo
      BY BootChainAssumption DEF Disks
  <1>2. /\ s = 0 \/ s = disk.backup => s # disk.fsinfo /\ ~(s >= Reserved)
        /\ s = disk.fsinfo => ~(s = 0 \/ s = disk.backup) /\ ~(s >= Reserved)
        /\ s < Reserved => ~(s >= Reserved)
      BY <1>1, Sizes
  <1>3. CASE s = 0 \/ s = disk.backup
    <2>1. FreshSector(s) = MkfsSuper
        BY <1>2, <1>3, Zenon DEF FreshSector, MkfsSuper
    <2> QED
        BY <1>2, <1>3, <2>1
  <1>4. CASE s = disk.fsinfo
    <2>1. FreshSector(s) = FsInfo
        BY <1>2, <1>4, Zenon DEF FreshSector
    <2> QED
        BY <1>2, <1>4, <2>1
  <1>5. CASE ~(s = 0 \/ s = disk.backup) /\ s # disk.fsinfo /\ s >= Reserved
    <2>1. FreshSector(s) = Data
        BY <1>5, Zenon DEF FreshSector
    <2> QED
        BY <1>2, <1>5, <2>1
  <1>6. CASE ~(s = 0 \/ s = disk.backup) /\ s # disk.fsinfo /\ ~(s >= Reserved)
    <2>1. FreshSector(s) = Empty
        BY <1>6, Zenon DEF FreshSector
    <2> QED
        BY <1>2, <1>6, <2>1
  <1> QED
      BY <1>3, <1>4, <1>5, <1>6

\* What an unpadded file leaves behind its end is the only thing that its
\* sectors have from what was there before.
LEMMA CodeBefore ==
    ASSUME NEW f, NEW i, NEW c, NEW b, NEW d, b.rest = d.rest
    PROVE  Code(f, i, c, b) = Code(f, i, c, d)
  BY DEF Code

\* The fields of the sectors.
LEMMA CodeFields ==
    ASSUME NEW f, NEW i, NEW c, NEW b
    PROVE  LET s == Code(f, i, c, b)
           IN  /\ s.kind = "code" /\ s.file = f.id /\ s.index = i
               /\ s.count = Len(f.words) /\ s.check = c
               /\ s.rest = IF Unfilled(f, i) THEN b.rest ELSE 1
  BY DEF Code

LEMMA PlainFields ==
    /\ Empty.rest = 0 /\ Data.rest = 1 /\ FsInfo.rest = 1
    /\ Empty.kind = "empty" /\ Data.kind = "data" /\ FsInfo.kind = "fsinfo" /\ Foreign.kind = "foreign"
    /\ \A c, k, b : LET s == SuperBlock(c, k, b)
                   IN  s.kind = "super" /\ s.rest = 1 /\ s.code = c /\ s.fsinfo = k /\ s.backup = b
  BY DEF Empty, Data, FsInfo, Foreign, Plain, SuperBlock

\* What is behind the first two sectors: the sector of a second stage that
\* belongs there, or no code at all.
LEMMA SectorCases ==
    ASSUME NEW i \in 0..(ImageSize - 3), NEW s \in SectorsAt[i]
    PROVE  /\ s.rest \in {0, 1}
           /\ \/ s.kind # "code"
              \/ \E f \in Files, b \in BeforeCode :
                    Accepted(f) /\ i < Len(f.words) /\ s = Code(f, i, UpdateChecksum(f), b)
  <1>1. \/ s \in {Empty, Data, FsInfo} \/ s \in CodeAt(i)
        \/ s \in {SuperBlock("mkfs", k, b) : k \in FsInfoAt, b \in BackupAt}
      BY DEF SectorsAt
  <1>2. CASE s \in {Empty, Data, FsInfo}
      BY <1>2, PlainFields
  <1>3. CASE s \in {SuperBlock("mkfs", k, b) : k \in FsInfoAt, b \in BackupAt}
    <2>1. s.kind = "super" /\ s.rest = 1
        BY <1>3, PlainFields
    <2> QED
        BY <2>1
  <1>4. CASE s \in CodeAt(i)
    <2>1. PICK f \in Files, b \in BeforeCode :
                Accepted(f) /\ i < Len(f.words) /\ s = Code(f, i, UpdateChecksum(f), b)
        BY <1>4 DEF CodeAt
    <2>2. s.rest \in {0, 1}
        BY <2>1, CodeFields, PlainFields DEF BeforeCode
    <2> QED
        BY <2>1, <2>2
  <1> QED
      BY <1>1, <1>2, <1>3, <1>4

\* A sector that is written is one that belongs there.
LEMMA CodeBelongs ==
    ASSUME NEW f \in Files, Accepted(f), NEW i \in 0..(Len(f.words) - 1), NEW before,
           before.rest \in {0, 1}
    PROVE  /\ i \in 0..(Reserved - 3) /\ i \in 0..(ImageSize - 3)
           /\ \E b \in BeforeCode :
                Code(f, i, UpdateChecksum(f), before) = Code(f, i, UpdateChecksum(f), b)
           /\ Code(f, i, UpdateChecksum(f), before) \in SectorsAt[i]
  <1>1. Len(f.words) \in Nat /\ Len(f.words) <= Reserved - 2
      BY FileType, Sizes DEF Accepted
  <1>2. i \in 0..(Reserved - 3) /\ i \in 0..(ImageSize - 3) /\ i < Len(f.words)
      BY <1>1, Sizes
  <1>3. PICK b \in BeforeCode : b.rest = before.rest
      BY PlainFields DEF BeforeCode
  <1>4. Code(f, i, UpdateChecksum(f), before) = Code(f, i, UpdateChecksum(f), b)
      BY <1>3, CodeBefore
  <1>5. Code(f, i, UpdateChecksum(f), b) \in CodeAt(i)
      BY <1>2 DEF CodeAt
  <1>6. Code(f, i, UpdateChecksum(f), b) \in SectorsAt[i]
      BY <1>2, <1>5 DEF SectorsAt
  <1> QED
      BY <1>2, <1>4, <1>6

-----------------------------------------------------------------------------
(* The installer. *)

\* A fresh image satisfies the invariant.
LEMMA InitInv == Init => Inv
  <1> SUFFICES ASSUME Init PROVE Inv
      OBVIOUS
  <1>1. disk \in Disks /\ \A s \in 0..(ImageSize - 1) : img[s] = FreshSector(s)
      BY DEF Init
  <1>2. ImageInv
    <2>1. DOMAIN img = 0..(ImageSize - 1) /\ img = [s \in DOMAIN img |-> img[s]]
        BY DEF Init
    <2>2. img[1] \in LowSectors /\ (disk.fsinfo = 1 => img[1] = FsInfo)
      <3>1. 1 \in 0..(ImageSize - 1) /\ 1 < Reserved
          BY Sizes
      <3> QED
          BY <1>1, <3>1, FreshCases DEF LowSectors
    <2>3. ASSUME NEW i \in 2..(ImageSize - 1) PROVE img[i] \in SectorsAt[i - 2]
      <3>1. i \in 0..(ImageSize - 1) /\ i - 2 \in 0..(ImageSize - 3)
          BY Sizes
      <3>2. img[i] \in {MkfsSuper, FsInfo, Data, Empty}
          BY <1>1, <3>1, FreshCases
      <3>3. MkfsSuper \in {SuperBlock("mkfs", k, b) : k \in FsInfoAt, b \in BackupAt}
          BY <1>1 DEF Disks, MkfsSuper
      <3> QED
          BY <3>1, <3>2, <3>3 DEF SectorsAt
    <2> QED
        BY <1>1, <2>1, <2>2, <2>3 DEF ImageInv
  <1>3. InstInv
    <2>1. 0 \in 0..(Reserved - 2)
        BY Sizes
    <2> QED
        BY <2>1 DEF Init, InstInv, Idle, LowSectors
  <1>4. CompleteInv
      BY BootChainAssumption DEF Init, CompleteInv
  <1>5. BootInv
    <2>1. 0 \in 0..Len(disk.table)
      <3>1. disk.table \in Seq({"ours", "inactive", "other"})
          BY <1>1, BootChainAssumption DEF Disks
      <3> QED
          BY <3>1
    <2> QED
        BY <2>1 DEF Init, Off, BootInv, BootPc
  <1>6. InstalledBoots
      BY DEF Init, InstalledBoots
  <1> QED
      BY <1>2, <1>3, <1>4, <1>5, <1>6 DEF Inv

\* While the machine is off there is nothing to say of the boot process.
LEMMA OffInv ==
    ASSUME BootInv, boot.pc = "off", UNCHANGED <<boot, disk>>
    PROVE  BootInv' /\ InstalledBoots'
  BY DEF BootInv, InstalledBoots, BootPc

\* One sector of the image is written.
LEMMA OneSector ==
    ASSUME NEW D, NEW k \in D, NEW v, DOMAIN img = D, img = [s \in DOMAIN img |-> img[s]],
           img' = [img EXCEPT ![k] = v]
    PROVE  /\ DOMAIN img' = D /\ img' = [s \in DOMAIN img' |-> img'[s]]
           /\ img'[k] = v /\ \A s \in D : s # k => img'[s] = img[s]
  <1>1. img' = [s \in D |-> IF s = k THEN v ELSE img[s]]
      BY Zenon
  <1> QED
      BY <1>1

\* A run of the installer begins: it has the sectors that it will write.
LEMMA InstallInv ==
    ASSUME Inv, NEW f \in Files, Install(f)
    PROVE  Inv'
  <1> USE DEF Install
  <1>1. BootInv' /\ InstalledBoots'
      BY OffInv DEF Inv
  <1>2. ImageInv'
      BY DEF Inv, ImageInv, LowSectors, MkfsSuper, FreshSector
  <1>3. CompleteInv'
    <2>1. installs' \in 0..MaxInstalls
        BY BootChainAssumption DEF Inv, CompleteInv
    <2> QED
        BY <2>1 DEF Inv, CompleteInv, Written
  <1>4. img[img[0].fsinfo] \in LowSectors /\ (disk.fsinfo = 1 => img[img[0].fsinfo] = FsInfo)
    <2>1. CASE img[0] = VbrSuper
      <3>1. img[0].fsinfo = 1
          BY <2>1, PlainFields DEF VbrSuper
      <3> QED
          BY <3>1 DEF Inv, ImageInv
    <2>2. CASE \A s \in 0..(ImageSize - 1) : img[s] = FreshSector(s)
      <3>1. disk \in Disks /\ 0 \in 0..(ImageSize - 1) /\ disk.fsinfo \in 0..(ImageSize - 1)
          BY SMTT(20), Sizes, BootChainAssumption DEF Inv, ImageInv, Disks
      <3>2. img[0] = MkfsSuper /\ img[disk.fsinfo] = FsInfo
          BY <2>2, <3>1, FreshCases
      <3>3. img[0].fsinfo = disk.fsinfo
          BY <3>2, PlainFields DEF MkfsSuper
      <3> QED
          BY <3>2, <3>3 DEF LowSectors
    <2> QED
        BY <2>1, <2>2 DEF Inv, ImageInv
  <1>5. InstInv'
    <2>1. 0 \in 0..(Reserved - 2)
        BY Sizes
    <2>2. NewSuper(img[0]) = VbrSuper
        BY DEF NewSuper, VbrSuper
    <2> QED
        BY <1>4, <2>1, <2>2 DEF InstInv, LowSectors, MkfsSuper
  <1> QED
      BY <1>1, <1>2, <1>3, <1>5 DEF Inv

\* The super block of the installer: from here on it is the one on the image.
LEMMA WriteSuperInv ==
    ASSUME Inv, WriteSuper
    PROVE  Inv'
  <1> USE DEF WriteSuper
  <1>1. BootInv' /\ InstalledBoots'
      BY OffInv DEF Inv, BootInv
  <1>2. /\ inst.super = VbrSuper /\ DOMAIN img = 0..(ImageSize - 1) /\ 0 \in DOMAIN img
        /\ img = [s \in DOMAIN img |-> img[s]]
      BY Sizes DEF Inv, InstInv, ImageInv
  <1>3. /\ DOMAIN img' = 0..(ImageSize - 1) /\ img' = [s \in DOMAIN img' |-> img'[s]]
        /\ img'[0] = VbrSuper /\ \A s \in 1..(ImageSize - 1) : img'[s] = img[s]
    <2>1. /\ DOMAIN img' = DOMAIN img /\ img' = [s \in DOMAIN img' |-> img'[s]]
          /\ img'[0] = VbrSuper /\ \A s \in DOMAIN img : s # 0 => img'[s] = img[s]
        BY <1>2, OneSector
    <2> QED
        BY <1>2, <2>1, Sizes
  <1>4. ImageInv'
    <2>1. 1 \in 1..(ImageSize - 1) /\ \A i \in 2..(ImageSize - 1) : i \in 1..(ImageSize - 1)
        BY Sizes
    <2>2. img'[1] = img[1] /\ \A i \in 2..(ImageSize - 1) : img'[i] = img[i]
        BY <1>3, <2>1
    <2> QED
        BY <1>3, <2>2 DEF Inv, ImageInv, LowSectors, MkfsSuper, VbrSuper
  <1>5. CompleteInv'
    <2>1. ASSUME NEW f \in complete, NEW i \in 0..(Len(f.words) - 1) PROVE Written(f, i)'
      <3>1. Len(f.words) \in Nat /\ Len(f.words) <= Reserved - 2
          BY FileType, Sizes DEF Inv, CompleteInv, Accepted
      <3>2. 2 + i \in 1..(ImageSize - 1)
          BY <3>1, Sizes
      <3>3. img'[2 + i] = img[2 + i]
          BY <1>3, <3>2
      <3> QED
          BY <3>3 DEF Inv, CompleteInv, Written
    <2> QED
        BY <1>3, <2>1 DEF Inv, CompleteInv, VbrSuper
  <1>6. InstInv'
      BY <1>3 DEF Inv, InstInv, LowSectors, MkfsSuper, VbrSuper
  <1> QED
      BY <1>1, <1>4, <1>5, <1>6 DEF Inv

\* The FsInfo sector: what the super block named before.
LEMMA WriteFsInfoInv ==
    ASSUME Inv, WriteFsInfo
    PROVE  Inv'
  <1> USE DEF WriteFsInfo
  <1>1. BootInv' /\ InstalledBoots'
      BY OffInv DEF Inv, BootInv
  <1>2. /\ inst.info \in LowSectors /\ (disk.fsinfo = 1 => inst.info = FsInfo)
        /\ DOMAIN img = 0..(ImageSize - 1) /\ 1 \in DOMAIN img /\ 0 \in DOMAIN img
        /\ img = [s \in DOMAIN img |-> img[s]] /\ img[0] = VbrSuper
      BY Sizes DEF Inv, InstInv, ImageInv
  <1>3. /\ DOMAIN img' = 0..(ImageSize - 1) /\ img' = [s \in DOMAIN img' |-> img'[s]]
        /\ img'[0] = VbrSuper /\ img'[1] = inst.info
        /\ \A s \in 2..(ImageSize - 1) : img'[s] = img[s]
    <2>1. /\ DOMAIN img' = DOMAIN img /\ img' = [s \in DOMAIN img' |-> img'[s]]
          /\ img'[1] = inst.info /\ \A s \in DOMAIN img : s # 1 => img'[s] = img[s]
        BY <1>2, OneSector
    <2> QED
        BY <1>2, <2>1, Sizes
  <1>4. ImageInv'
      BY <1>2, <1>3 DEF Inv, ImageInv, LowSectors, MkfsSuper, VbrSuper
  <1>5. CompleteInv'
    <2>1. ASSUME NEW f \in complete, NEW i \in 0..(Len(f.words) - 1) PROVE Written(f, i)'
      <3>1. Len(f.words) \in Nat /\ Len(f.words) <= Reserved - 2
          BY FileType, Sizes DEF Inv, CompleteInv, Accepted
      <3>2. 2 + i \in 2..(ImageSize - 1)
          BY <3>1, Sizes
      <3>3. img'[2 + i] = img[2 + i]
          BY <1>3, <3>2
      <3> QED
          BY <3>3 DEF Inv, CompleteInv, Written
    <2> QED
        BY <1>3, <2>1 DEF Inv, CompleteInv, VbrSuper
  <1>6. InstInv'
      BY <1>3 DEF Inv, InstInv, LowSectors, MkfsSuper, VbrSuper
  <1> QED
      BY <1>1, <1>4, <1>5, <1>6 DEF Inv

\* Only a second stage that was accepted is written, from its first sector on.
LEMMA ReadStage2Inv ==
    ASSUME Inv, ReadStage2
    PROVE  Inv'
  <1> USE DEF ReadStage2
  <1>1. BootInv' /\ InstalledBoots'
      BY OffInv DEF Inv, BootInv
  <1>2. ImageInv' /\ CompleteInv'
      BY DEF Inv, ImageInv, CompleteInv, Written, LowSectors, MkfsSuper, FreshSector
  <1>3. InstInv'
    <2>1. CASE Accepted(inst.file)
      <3>1. inst.next = 0 /\ inst.file \in Files
          BY DEF Inv, InstInv
      <3>2. 0 < Len(inst.file.words) /\ 0..(0 - 1) = {}
          BY <2>1, <3>1, FileType DEF Accepted
      <3> QED
          BY <2>1, <3>1, <3>2 DEF Inv, InstInv, LowSectors, MkfsSuper, VbrSuper
    <2>2. CASE ~Accepted(inst.file)
      <3>1. 0 \in 0..(Reserved - 2)
          BY Sizes
      <3> QED
          BY <2>2, <3>1 DEF InstInv, Idle, LowSectors, MkfsSuper
    <2> QED
        BY <2>1, <2>2
  <1> QED
      BY <1>1, <1>2, <1>3 DEF Inv

\* The installer is killed, or a write fails.
LEMMA InstallStopsInv ==
    ASSUME Inv, InstallStops
    PROVE  Inv'
  <1> USE DEF InstallStops
  <1>1. BootInv' /\ InstalledBoots'
      BY OffInv DEF Inv, BootInv
  <1>2. ImageInv' /\ CompleteInv'
      BY DEF Inv, ImageInv, CompleteInv, Written, LowSectors, MkfsSuper, FreshSector
  <1>3. InstInv'
    <2>1. 0 \in 0..(Reserved - 2)
        BY Sizes
    <2> QED
        BY <2>1 DEF InstInv, Idle, LowSectors, MkfsSuper
  <1> QED
      BY <1>1, <1>2, <1>3 DEF Inv

\* One sector of the second stage.
LEMMA WriteSectorInv ==
    ASSUME Inv, WriteSector
    PROVE  Inv'
  <1>0. PICK f, n, before : f = inst.file /\ n = inst.next /\ before = img[2 + n]
      OBVIOUS
  <1> DEFINE c == UpdateChecksum(f)
  <1>1. BootInv' /\ InstalledBoots'
      BY OffInv DEF Inv, BootInv, WriteSector
  <1>2. /\ f \in Files /\ Accepted(f) /\ n \in 0..(Reserved - 2) /\ n < Len(f.words)
        /\ img[0] = VbrSuper /\ \A i \in 0..(n - 1) : Written(f, i)
        /\ DOMAIN img = 0..(ImageSize - 1) /\ img = [s \in DOMAIN img |-> img[s]]
      BY <1>0 DEF Inv, InstInv, ImageInv, WriteSector
  <1>3. Len(f.words) \in Nat /\ Len(f.words) <= Reserved - 2 /\ n \in 0..(Len(f.words) - 1)
      BY <1>2, FileType, Sizes DEF Accepted
  <1>4. 2 + n \in 2..(Reserved - 1) /\ 2 + n \in 2..(ImageSize - 1) /\ 2 + n \in DOMAIN img
      BY <1>2, <1>3, Sizes
  <1>5. before.rest \in {0, 1}
    <2>1. img[2 + n] \in SectorsAt[(2 + n) - 2] /\ (2 + n) - 2 = n /\ n \in 0..(ImageSize - 3)
        BY <1>2, <1>4, Sizes DEF Inv, ImageInv
    <2> QED
        BY <1>0, <2>1, SectorCases
  <1>6. /\ \E b \in BeforeCode : Code(f, n, c, before) = Code(f, n, c, b)
        /\ Code(f, n, c, before) \in SectorsAt[n]
      BY <1>2, <1>3, <1>5, CodeBelongs
  <1>7. /\ DOMAIN img' = 0..(ImageSize - 1) /\ img' = [s \in DOMAIN img' |-> img'[s]]
        /\ img'[2 + n] = Code(f, n, c, before)
        /\ \A s \in 0..(ImageSize - 1) : s # 2 + n => img'[s] = img[s]
    <2>1. img' = [img EXCEPT ![2 + n] = Code(f, n, c, before)]
        BY <1>0 DEF WriteSector, StageSector
    <2> HIDE DEF c
    <2> QED
        BY <1>2, <1>4, <2>1, OneSector
  <1>8. img'[0] = VbrSuper /\ img'[1] = img[1]
    <2>1. 0 \in 0..(ImageSize - 1) /\ 1 \in 0..(ImageSize - 1) /\ 0 # 2 + n /\ 1 # 2 + n
        BY <1>4, Sizes
    <2> QED
        BY <1>2, <1>7, <2>1
  <1>9. UNCHANGED <<disk, installs, boot>>
      BY DEF WriteSector
  <1> HIDE DEF c
  <1>10. ImageInv'
    <2>1. ASSUME NEW i \in 2..(ImageSize - 1) PROVE img'[i] \in SectorsAt[i - 2]
      <3>1. CASE i = 2 + n
        <4>1. i - 2 = n
            BY <1>2, <3>1
        <4> QED
            BY <1>6, <1>7, <3>1, <4>1
      <3>2. CASE i # 2 + n
        <4>1. i \in 0..(ImageSize - 1)
            BY Sizes
        <4> QED
            BY <1>7, <3>2, <4>1 DEF Inv, ImageInv
      <3> QED
          BY <3>1, <3>2
    <2> QED
        BY <1>7, <1>8, <1>9, <2>1 DEF Inv, ImageInv, LowSectors, MkfsSuper, VbrSuper
  <1>11. \A i \in 0..n : Written(f, i)'
    <2> TAKE i \in 0..n
    <2>1. CASE i = n
        BY <1>6, <1>7, <2>1 DEF Written, c
    <2>2. CASE i # n
      <3>1. i \in 0..(n - 1) /\ 2 + i \in 0..(ImageSize - 1) /\ 2 + i # 2 + n
          BY <1>2, <1>4, <2>2, Sizes
      <3> QED
          BY <1>2, <1>7, <3>1 DEF Written
    <2> QED
        BY <2>1, <2>2
  <1>12. CASE n + 1 = Len(f.words)
    <2>1. inst' = Idle /\ complete' = {f}
        BY <1>0, <1>12 DEF WriteSector
    <2>2. \A i \in 0..(Len(f.words) - 1) : Written(f, i)'
      <3>1. Len(f.words) - 1 = n
          BY <1>2, <1>12
      <3> QED
          BY <1>11, <3>1
    <2>3. CompleteInv'
        BY <1>2, <1>8, <1>9, <2>1, <2>2 DEF Inv, CompleteInv, VbrSuper
    <2>4. InstInv'
      <3>1. 0 \in 0..(Reserved - 2)
          BY Sizes
      <3> QED
          BY <2>1, <3>1 DEF InstInv, Idle, LowSectors, MkfsSuper
    <2> QED
        BY <1>1, <1>10, <2>3, <2>4 DEF Inv
  <1>13. CASE n + 1 # Len(f.words)
    <2>1. inst' = [inst EXCEPT !.next = n + 1] /\ complete' = {}
        BY <1>0, <1>13 DEF WriteSector
    <2>2. CompleteInv'
      <3>1. complete' = {} /\ installs' = installs
          BY <1>9, <2>1
      <3> QED
          BY <3>1 DEF Inv, CompleteInv
    <2>3. n + 1 \in 0..(Reserved - 2) /\ n + 1 < Len(f.words) /\ (n + 1) - 1 = n
        BY <1>2, <1>3, <1>13, Sizes
    <2>4. /\ inst \in [pc : {"idle", "super", "fsinfo", "stage2", "write"},
                       file : Files \cup {NoFile}, super : {Empty, VbrSuper}, info : LowSectors,
                       next : 0..(Reserved - 2)]
          /\ inst.pc = "write" /\ inst.super = VbrSuper /\ (disk.fsinfo = 1 => inst.info = FsInfo)
        BY DEF Inv, InstInv, WriteSector
    <2>5. /\ inst' \in [pc : {"idle", "super", "fsinfo", "stage2", "write"},
                        file : Files \cup {NoFile}, super : {Empty, VbrSuper}, info : LowSectors,
                        next : 0..(Reserved - 2)]
          /\ inst'.pc = "write" /\ inst'.super = VbrSuper /\ inst'.info = inst.info
          /\ inst'.file = f /\ inst'.next = n + 1
        BY <1>0, <2>1, <2>3, <2>4
    <2>6. LowSectors' = LowSectors /\ VbrSuper' = VbrSuper
        BY <1>9 DEF LowSectors, MkfsSuper, VbrSuper
    <2>7. \A i \in 0..((n + 1) - 1) : Written(f, i)'
        BY <1>11, <2>3
    <2>8. InstInv'
        BY <1>2, <1>8, <1>9, <2>3, <2>4, <2>5, <2>6, <2>7 DEF InstInv
    <2> QED
        BY <1>1, <1>10, <2>2, <2>8 DEF Inv
  <1> QED
      BY <1>12, <1>13

\* A session of fatedit: the backup it writes is there already, or there is
\* none to write.
LEMMA EditImageInv ==
    ASSUME Inv, EditImage
    PROVE  Inv' /\ img' = img
  <1> DEFINE b == img[0].backup
  <1>1. /\ disk \in Disks /\ DOMAIN img = 0..(ImageSize - 1) /\ img = [s \in DOMAIN img |-> img[s]]
        /\ b \in 1..(Reserved - 1) /\ img' = [img EXCEPT ![b] = img[0]] /\ b \in DOMAIN img
      BY Sizes DEF Inv, ImageInv, EditImage
  <1>2. img[0] # VbrSuper
    <2>1. VbrSuper.backup = 0
        BY PlainFields DEF VbrSuper
    <2> QED
        BY <1>1, <2>1
  <1>3. \A s \in 0..(ImageSize - 1) : img[s] = FreshSector(s)
      BY <1>2 DEF Inv, ImageInv
  <1>4. img[b] = img[0]
    <2>1. 0 \in 0..(ImageSize - 1) /\ b \in 0..(ImageSize - 1)
        BY <1>1, Sizes
    <2>2. img[0] = MkfsSuper
        BY <1>1, <1>3, <2>1, FreshCases
    <2>3. b = disk.backup
        BY <2>2, PlainFields DEF MkfsSuper
    <2> QED
        BY <1>1, <1>3, <2>1, <2>2, <2>3, FreshCases
  <1> HIDE DEF b
  <1>5. img' = img
    <2>1. /\ DOMAIN img' = DOMAIN img /\ img' = [s \in DOMAIN img' |-> img'[s]]
          /\ img'[b] = img[0] /\ \A s \in DOMAIN img : s # b => img'[s] = img[s]
        BY <1>1, OneSector
    <2>2. \A s \in DOMAIN img : img'[s] = img[s]
        BY <1>4, <2>1
    <2> QED
        BY <1>1, <2>1, <2>2
  <1>6. BootInv' /\ InstalledBoots'
      BY OffInv DEF Inv, EditImage
  <1>7. UNCHANGED <<inst, disk, installs, complete>>
      BY DEF EditImage
  <1>8. ImageInv'
      BY <1>5, <1>7 DEF Inv, ImageInv, LowSectors, MkfsSuper, VbrSuper, FreshSector
  <1>9. CompleteInv' /\ InstInv'
      BY <1>5, <1>7 DEF Inv, CompleteInv, InstInv, Written, LowSectors, MkfsSuper, VbrSuper
  <1> QED
      BY <1>5, <1>6, <1>8, <1>9 DEF Inv

-----------------------------------------------------------------------------
(* The boot sectors. *)

\* The partition table as the MBR sees it.
LEMMA EntriesAre ==
    ASSUME disk \in Disks
    PROVE  /\ Len(disk.table) \in Nat /\ Len(Entries) = Len(disk.table)
           /\ \A i \in 1..Len(disk.table) :
                /\ disk.table[i] \in {"ours", "inactive", "other"}
                /\ Entries[i] = MBREntry(disk.table[i], disk.part)
                /\ Entries[i].bootable <=> disk.table[i] # "inactive"
           /\ Bootable = {i \in 1..Len(disk.table) : disk.table[i] # "inactive"}
           /\ disk.part \in Nat \ {0}
  <1>1. disk.table \in Seq({"ours", "inactive", "other"}) /\ disk.part \in Nat \ {0}
      BY BootChainAssumption DEF Disks
  <1>2. Len(disk.table) \in Nat /\ \A i \in 1..Len(disk.table) :
            disk.table[i] \in {"ours", "inactive", "other"}
      BY <1>1
  <1> DEFINE n == Len(disk.table)
             X == {MBREntry(k, disk.part) : k \in {"ours", "inactive", "other"}}
  <1>3. Entries \in [1..n -> X] /\ \A i \in 1..n : Entries[i] = MBREntry(disk.table[i], disk.part)
    <2>1. \A i \in 1..n : MBREntry(disk.table[i], disk.part) \in X
        BY <1>2
    <2> HIDE DEF X
    <2> QED
        BY <2>1 DEF Entries
  <1>4. Len(Entries) = n
    <2> HIDE DEF X, n
    <2>1. n \in Nat
        BY <1>2 DEF n
    <2> QED
        BY <1>3, <2>1
  <1>5. \A i \in 1..n : Entries[i].bootable <=> disk.table[i] # "inactive"
    <2> TAKE i \in 1..n
    <2>1. \A k : MBREntry(k, disk.part).bootable = (k # "inactive")
        BY Zenon DEF MBREntry
    <2>2. Entries[i].bootable = (disk.table[i] # "inactive")
        BY <1>3, <2>1, Zenon
    <2> QED
        BY <2>2, Zenon
  <1>6. Bootable = {i \in 1..n : disk.table[i] # "inactive"}
      BY <1>4, <1>5 DEF Bootable
  <1> QED
      BY <1>1, <1>2, <1>3, <1>4, <1>5, <1>6

\* The MBR takes the first entry that is marked as bootable.
LEMMA FirstIs ==
    ASSUME disk \in Disks, Bootable # {}
    PROVE  LET e == FirstBootable(Entries)
           IN  /\ e \in 1..Len(disk.table) /\ disk.table[e] \in {"ours", "other"}
               /\ \A j \in 1..(e - 1) : disk.table[j] = "inactive"
  <1> DEFINE B == Bootable
             e == Min(B)
  <1>1. FirstBootable(Entries) = e
      BY DEF FirstBootable, Bootable
  <1>2. B = {i \in 1..Len(disk.table) : disk.table[i] # "inactive"} /\ B \subseteq Nat
      BY EntriesAre
  <1>3. e \in B /\ \A x \in B : e <= x
    <2> HIDE DEF B
    <2>1. PICK x \in B : \A y \in B : x <= y
        BY <1>2, LeastNatural DEF B
    <2>2. \E z \in B : \A y \in B : z <= y
        BY <2>1
    <2> QED
        BY <2>2, Zenon DEF Min
  <1> HIDE DEF B, e
  <1>4. e \in 1..Len(disk.table) /\ disk.table[e] \in {"ours", "other"}
      BY <1>2, <1>3, EntriesAre
  <1>5. ASSUME NEW j \in 1..(e - 1) PROVE disk.table[j] = "inactive"
    <2>1. j \in 1..Len(disk.table) /\ j < e
        BY <1>4, EntriesAre
    <2>2. j \notin B
        BY <1>3, <1>4, <2>1
    <2> QED
        BY <1>2, <2>1, <2>2
  <1> QED
      BY <1>1, <1>4, <1>5

\* The place of an entry.
LEMMA EntryPlace ==
    ASSUME disk \in Disks, NEW i \in 1..Len(disk.table)
    PROVE  /\ disk.table[i] = "ours" =>
                Entries[i].chs = LBA2CHS(Geo, disk.part) /\ Entries[i].lba = disk.part
           /\ disk.table[i] = "other" => Entries[i].chs = LBA2CHS(Geo, 0)
  <1>1. Entries[i] = MBREntry(disk.table[i], disk.part)
      BY EntriesAre
  <1> QED
      BY <1>1 DEF MBREntry

\* A boot that may fail with f installed.
Excused(f) ==
    \/ fault
    \/ disk.table[FirstBootable(Entries)] # "ours"
    \/ Len(f.words) > VbrCount
    \/ ~Aligned \/ disk.part + 2 + VbrCount > Capacity(Geo)
    \/ ~CleanTail(f)

Failed == {"noMagic", "otherVbr", "errLoad", "corrupted"}

\* The boot sectors write nothing.
LEMMA BootKeeps ==
    ASSUME Inv, UNCHANGED <<img, inst, disk, installs, complete>>
    PROVE  ImageInv' /\ InstInv' /\ CompleteInv'
  <1>1. ImageInv'
      BY DEF Inv, ImageInv, LowSectors, MkfsSuper, VbrSuper, FreshSector
  <1>2. CompleteInv' /\ InstInv'
      BY DEF Inv, CompleteInv, InstInv, Written, LowSectors, MkfsSuper, VbrSuper
  <1> QED
      BY <1>1, <1>2

\* A boot sector gives up.
LEMMA HangInv ==
    ASSUME Inv, NEW why \in Failed \cup {"noPartition"}, Hang(why), boot.pc # "off",
           why \in Failed => \A f \in complete : Excused(f)
    PROVE  Inv'
  <1> USE DEF Hang, Goto
  <1>1. boot' = [boot EXCEPT !.pc = why] /\ UNCHANGED <<img, inst, disk, installs, complete, fault>>
      OBVIOUS
  <1>2. ImageInv' /\ InstInv' /\ CompleteInv'
      BY <1>1, BootKeeps
  <1>3. /\ boot'.pc = why /\ boot'.part = boot.part
        /\ boot' = [pc |-> boot'.pc, part |-> boot'.part, super |-> boot'.super, mem |-> boot'.mem]
    <2>1. boot = [pc |-> boot.pc, part |-> boot.part, super |-> boot.super, mem |-> boot.mem]
        BY DEF Inv, BootInv
    <2> QED
        BY <1>1, <2>1
  <1>4. BootInv'
      BY <1>1, <1>3 DEF Inv, BootInv, BootPc, Failed
  <1>5. InstalledBoots'
    <2>1. Entries' = Entries /\ Aligned' = Aligned
        BY <1>1 DEF Entries, Aligned
    <2>2. CASE why = "noPartition"
        BY <1>3, <2>2 DEF InstalledBoots
    <2>3. CASE why \in Failed
      <3>1. ASSUME NEW f \in complete PROVE Excused(f)'
        <4>1. Excused(f)
            BY <2>3
        <4>2. FirstBootable(Entries)' = FirstBootable(Entries)
            BY <2>1
        <4>3. CleanTail(f)' <=> CleanTail(f)
            BY <1>1 DEF CleanTail
        <4> QED
            BY <1>1, <2>1, <4>1, <4>2, <4>3 DEF Excused
      <3> QED
          BY <1>1, <3>1 DEF InstalledBoots, Excused
    <2> QED
        BY <2>2, <2>3
  <1> QED
      BY <1>2, <1>4, <1>5 DEF Inv

\* A boot sector goes on: the parts of the state that it changes.
LEMMA GotoFields ==
    ASSUME Inv, NEW b, Goto(b)
    PROVE  /\ boot' = b /\ UNCHANGED <<img, inst, disk, installs, complete, fault>>
           /\ ImageInv' /\ InstInv' /\ CompleteInv'
  <1>1. boot' = b /\ UNCHANGED <<img, inst, disk, installs, complete, fault>>
      BY DEF Goto
  <1> QED
      BY <1>1, BootKeeps

\* If there is a second stage and nothing excuses a failure, the MBR finds the
\* super block of the installer.
LEMMA MbrFinds ==
    ASSUME Inv, NEW f \in complete, ~Excused(f), Bootable # {}
    PROVE  LET e == FirstBootable(Entries)
               at == Seeks(Geo, Registers(Entries[e].chs))
           IN  at = disk.part /\ Loadable(at, 1) /\ DiskSector(at) = VbrSuper
  <1> DEFINE e == FirstBootable(Entries)
             at == Seeks(Geo, Registers(Entries[e].chs))
  <1>1. disk \in Disks /\ img[0] = VbrSuper /\ disk.part \in Nat /\ Geo \in Geometries
      BY EntriesAre, BootChainAssumption DEF Inv, ImageInv, CompleteInv
  <1>2. Capacity(Geo) \in Int
    <2>1. Geo.cylinders \in Nat /\ Geo.heads \in Nat /\ Geo.sectors \in Nat
        BY <1>1, Spans DEF Geometries
    <2> QED
        BY <2>1 DEF Capacity
  <1>3. disk.part + 2 + VbrCount <= Capacity(Geo) /\ disk.table[e] = "ours"
      BY <1>1, <1>2, Sizes DEF Excused
  <1>4. Entries[e].chs = LBA2CHS(Geo, disk.part)
      BY <1>1, <1>3, FirstIs, EntryPlace
  <1>5. at = disk.part
      BY <1>1, <1>2, <1>3, <1>4, Sizes, RoundTrip
  <1>6. Loadable(at, 1)
      BY <1>1, <1>2, <1>3, <1>5, Sizes DEF Loadable, NoAddress
  <1>7. DiskSector(at) = img[0]
    <2>1. at - disk.part = 0 /\ 0 \in 0..(ImageSize - 1)
        BY <1>1, <1>5, Sizes
    <2> QED
        BY <2>1 DEF DiskSector
  <1> QED
      BY <1>1, <1>5, <1>6, <1>7

\* The sector that starts with a super block is the first one of our image.
LEMMA SuperIsOurs ==
    ASSUME Inv, Bootable # {},
           LET at == Seeks(Geo, Registers(Entries[FirstBootable(Entries)].chs))
           IN  Loadable(at, 1) /\ DiskSector(at).kind = "super"
    PROVE  disk.table[FirstBootable(Entries)] = "ours" /\ disk.part < Capacity(Geo)
  <1> DEFINE e == FirstBootable(Entries)
             at == Seeks(Geo, Registers(Entries[e].chs))
  <1>1. disk \in Disks /\ disk.part \in Nat \ {0} /\ Geo \in Geometries
      BY EntriesAre, BootChainAssumption DEF Inv, ImageInv
  <1>2. e \in 1..Len(disk.table) /\ disk.table[e] \in {"ours", "other"}
      BY <1>1, FirstIs
  <1>3. at # NoAddress /\ DiskSector(at).kind = "super"
      BY DEF Loadable
  <1>4. at - disk.part \in 0..(ImageSize - 1)
      BY <1>3, PlainFields DEF DiskSector
  <1>5. Capacity(Geo) \in Nat /\ 0 < Capacity(Geo)
    <2>1. Geo.cylinders \in Nat \ {0} /\ Geo.heads \in Nat \ {0} /\ Geo.sectors \in Nat \ {0}
        BY <1>1, Spans DEF Geometries
    <2>2. \A x \in Nat \ {0}, y \in Nat \ {0} : x * y \in Nat \ {0}
        OBVIOUS
    <2>3. Geo.cylinders * Geo.heads \in Nat \ {0}
        BY <2>1, <2>2
    <2>4. Capacity(Geo) \in Nat \ {0}
        BY <2>1, <2>2, <2>3 DEF Capacity
    <2> QED
        BY <2>4
  <1>6. disk.table[e] = "ours"
    <2>1. ASSUME disk.table[e] = "other" PROVE FALSE
      <3>1. Entries[e].chs = LBA2CHS(Geo, 0)
          BY <1>1, <1>2, <2>1, EntryPlace
      <3>2. 0 \in Nat
          OBVIOUS
      <3>3. at = 0
          BY <1>1, <1>5, <3>1, <3>2, RoundTrip
      <3> QED
          BY <1>1, <1>4, <3>3, Sizes
    <2> QED
        BY <1>2, <2>1
  <1>7. at \in 0..(Capacity(Geo) - 1)
    <2>1. Entries[e].chs = LBA2CHS(Geo, disk.part)
        BY <1>1, <1>2, <1>6, EntryPlace
    <2>2. Bytes3(LBA2CHS(Geo, disk.part))
        BY <1>1, PackedBytes
    <2> QED
        BY <1>1, <1>3, <2>1, <2>2, SeeksRange
  <1>8. disk.part < Capacity(Geo)
      BY <1>1, <1>4, <1>5, <1>7, Sizes
  <1> QED
      BY <1>6, <1>8

\* The MBR.
LEMMA MbrLoadsVbrInv ==
    ASSUME Inv, MbrLoadsVbr
    PROVE  Inv'
  <1> DEFINE e == FirstBootable(Entries)
             at == Seeks(Geo, Registers(Entries[e].chs))
  <1>1. boot.pc = "mbr" /\ Bootable # {} /\ MbrLoads(e, at)
      BY DEF MbrLoadsVbr
  <1>2. \A f \in complete : ~Excused(f) => Loadable(at, 1) /\ DiskSector(at) = VbrSuper
      BY <1>1, MbrFinds
  <1>3. VbrSuper.kind = "super" /\ VbrSuper.code = "vbr"
      BY PlainFields DEF VbrSuper
  <1> HIDE DEF at
  <1>4. CASE ~Loadable(at, 1)
    <2>1. Hang("errLoad")
        BY <1>1, <1>4 DEF MbrLoads
    <2> QED
        BY <1>1, <1>2, <1>4, <2>1, HangInv DEF Failed
  <1>5. CASE Loadable(at, 1) /\ DiskSector(at).kind # "super"
    <2>1. Hang("noMagic")
        BY <1>1, <1>5 DEF MbrLoads
    <2> QED
        BY <1>1, <1>2, <1>3, <1>5, <2>1, HangInv DEF Failed
  <1>6. CASE Loadable(at, 1) /\ DiskSector(at).kind = "super" /\ DiskSector(at).code # "vbr"
    <2>1. Hang("otherVbr")
        BY <1>1, <1>6 DEF MbrLoads
    <2> QED
        BY <1>1, <1>2, <1>3, <1>6, <2>1, HangInv DEF Failed
  <1>7. CASE Loadable(at, 1) /\ DiskSector(at).kind = "super" /\ DiskSector(at).code = "vbr"
    <2> DEFINE b == [boot EXCEPT !.pc = "vbr", !.part = e, !.super = DiskSector(at)]
    <2>1. Goto(b)
        BY <1>1, <1>7 DEF MbrLoads
    <2>2. disk \in Disks
        BY DEF Inv, ImageInv
    <2>3. e \in 1..Len(disk.table) /\ \A j \in 1..(e - 1) : disk.table[j] = "inactive"
        BY <1>1, <2>2, FirstIs
    <2>4. disk.table[e] = "ours" /\ disk.part < Capacity(Geo)
        BY <1>1, <1>7, SuperIsOurs DEF at
    <2>5. PICK k, d : k = e /\ d = DiskSector(at)
        OBVIOUS
    <2>6. boot' = [pc |-> "vbr", part |-> k, super |-> d, mem |-> boot.mem]
      <3> HIDE DEF e
      <3>1. boot = [pc |-> boot.pc, part |-> boot.part, super |-> boot.super, mem |-> boot.mem]
          BY DEF Inv, BootInv
      <3>2. boot' = b
          BY <2>1, GotoFields
      <3>3. b = [[[boot EXCEPT !.pc = "vbr"] EXCEPT !.part = e] EXCEPT !.super = DiskSector(at)]
          BY <3>1
      <3>4. PICK x : x = [boot EXCEPT !.pc = "vbr"]
          OBVIOUS
      <3>5. x = [pc |-> "vbr", part |-> boot.part, super |-> boot.super, mem |-> boot.mem]
          BY <3>1, <3>4
      <3>6. PICK y : y = [x EXCEPT !.part = e]
          OBVIOUS
      <3>7. y = [pc |-> "vbr", part |-> e, super |-> boot.super, mem |-> boot.mem]
          BY <3>5, <3>6
      <3> QED
          BY <2>5, <3>2, <3>3, <3>4, <3>6, <3>7
    <2>7. UNCHANGED <<inst, disk>> /\ ImageInv' /\ InstInv' /\ CompleteInv'
        BY <2>1, GotoFields
    <2>8. inst.pc = "idle"
        BY <1>1 DEF Inv, BootInv
    <2>9. /\ boot'.pc = "vbr" /\ boot'.part = k
          /\ boot' = [pc |-> boot'.pc, part |-> boot'.part, super |-> boot'.super, mem |-> boot'.mem]
        BY <2>6
    <2> HIDE DEF e, b
    <2>10. BootInv'
      <3>1. k \in 1..Len(disk.table) /\ k \in 0..Len(disk.table)
          BY <2>2, <2>3, <2>5, EntriesAre
      <3> QED
          BY <2>3, <2>4, <2>5, <2>7, <2>8, <2>9, <3>1 DEF BootInv, BootPc
    <2>11. InstalledBoots'
        BY <2>9 DEF InstalledBoots
    <2> QED
        BY <2>7, <2>10, <2>11 DEF Inv
  <1> QED
      BY <1>4, <1>5, <1>6, <1>7

\* One field of the boot process changes, and another with it.
LEMMA BootFields ==
    ASSUME BootInv, NEW c, NEW m
    PROVE  /\ [boot EXCEPT !.pc = c]
                = [pc |-> c, part |-> boot.part, super |-> boot.super, mem |-> boot.mem]
           /\ [boot EXCEPT !.pc = c, !.mem = m]
                = [pc |-> c, part |-> boot.part, super |-> boot.super, mem |-> m]
  <1>1. boot = [pc |-> boot.pc, part |-> boot.part, super |-> boot.super, mem |-> boot.mem]
      BY DEF BootInv
  <1>2. PICK x : x = [boot EXCEPT !.pc = c]
      OBVIOUS
  <1>3. x = [pc |-> c, part |-> boot.part, super |-> boot.super, mem |-> boot.mem]
      BY <1>1, <1>2
  <1>4. [boot EXCEPT !.pc = c, !.mem = m] = [x EXCEPT !.mem = m]
      BY <1>1, <1>2
  <1>5. [x EXCEPT !.mem = m] = [pc |-> c, part |-> boot.part, super |-> boot.super, mem |-> m]
      BY <1>3
  <1> QED
      BY <1>2, <1>3, <1>4, <1>5

\* The VBR loads sectors from somewhere, from the right place if the partition
\* is aligned.
LEMMA VbrLoadsInv ==
    ASSUME Inv, VbrLoadsStage2
    PROVE  Inv'
  <1> DEFINE chs == Entries[boot.part].chs
             at == Seeks(Geo, Registers(VbrSource(chs)))
  <1>1. boot.pc = "vbr" /\ VbrLoads(at)
      BY DEF VbrLoadsStage2
  <1>2. /\ disk \in Disks /\ disk.part \in Nat /\ Geo \in Geometries
        /\ boot.part \in 1..Len(disk.table) /\ disk.table[boot.part] = "ours"
        /\ \A j \in 1..(boot.part - 1) : disk.table[j] = "inactive"
        /\ disk.part < Capacity(Geo) /\ inst.pc = "idle"
      BY <1>1, EntriesAre, BootChainAssumption DEF Inv, ImageInv, BootInv
  <1>3. chs = LBA2CHS(Geo, disk.part)
      BY <1>2, EntryPlace
  <1>4. Aligned => at = disk.part + 2
      BY <1>2, <1>3, VbrPlace DEF Aligned
  <1>5. at = NoAddress \/ at \in 0..(Capacity(Geo) - 1)
    <2>1. Bytes3(VbrSource(chs))
        BY <1>2, <1>3, PackedBytes
    <2> QED
        BY <1>2, <2>1, SeeksRange
  <1> HIDE DEF chs, at
  <1>6. CASE Reserved < 3 \/ ~Loadable(at, VbrCount)
    <2>1. Hang("errLoad")
        BY <1>1, <1>6 DEF VbrLoads
    <2>2. ASSUME NEW f \in complete PROVE Excused(f)
      <3>1. SUFFICES ASSUME ~Excused(f) PROVE FALSE
          OBVIOUS
      <3>2. Len(f.words) \in Nat /\ Len(f.words) # 0 /\ Len(f.words) <= Reserved - 2
          BY FileType, Sizes DEF Inv, CompleteInv, Accepted
      <3>3. Capacity(Geo) \in Int
        <4>1. Geo.cylinders \in Nat /\ Geo.heads \in Nat /\ Geo.sectors \in Nat
            BY <1>2, Spans DEF Geometries
        <4> QED
            BY <4>1 DEF Capacity
      <3>4. Aligned /\ disk.part + 2 + VbrCount <= Capacity(Geo)
          BY <1>2, <3>1, <3>3, Sizes DEF Excused
      <3> QED
          BY <1>2, <1>4, <1>6, <3>2, <3>4, Sizes DEF Loadable, NoAddress
    <2> QED
        BY <1>1, <2>1, <2>2, HangInv DEF Failed
  <1>7. CASE Reserved >= 3 /\ Loadable(at, VbrCount)
    <2>1. Goto([boot EXCEPT !.pc = "verify", !.mem = Loaded(at, VbrCount)])
        BY <1>1, <1>7, Sizes DEF VbrLoads
    <2>2. /\ boot' = [pc |-> "verify", part |-> boot.part, super |-> boot.super,
                      mem |-> Loaded(at, VbrCount)]
          /\ UNCHANGED <<img, inst, disk>> /\ ImageInv' /\ InstInv' /\ CompleteInv'
        BY <2>1, GotoFields, BootFields DEF Inv
    <2>3. at \in Nat
      <3>1. at # NoAddress
          BY <1>7 DEF Loadable
      <3> QED
          BY <1>5, <3>1
    <2>4. PICK a, m : a = at /\ m = Loaded(at, VbrCount)
        OBVIOUS
    <2>5. m = Loaded(a, VbrCount)'
      <3>1. ASSUME NEW x PROVE DiskSector(x)' = DiskSector(x)
          BY <2>2 DEF DiskSector
      <3>2. Loaded(a, VbrCount)' = Loaded(a, VbrCount)
          BY <3>1 DEF Loaded
      <3> QED
          BY <2>4, <3>2
    <2>6. BootInv'
      <3>1. /\ boot'.pc = "verify" /\ boot'.part = boot.part /\ boot'.mem = m
            /\ boot' = [pc |-> boot'.pc, part |-> boot'.part, super |-> boot'.super, mem |-> boot'.mem]
          BY <2>2, <2>4
      <3>2. Aligned' <=> Aligned
          BY <2>2 DEF Aligned
      <3>3. a \in Nat /\ (Aligned' => a = disk'.part + 2)
          BY <1>4, <2>2, <2>3, <2>4, <3>2
      <3>4. boot.part \in 0..Len(disk.table)
          BY DEF Inv, BootInv
      <3> QED
          BY <1>2, <1>7, <2>2, <2>5, <3>1, <3>3, <3>4 DEF BootInv, BootPc
    <2>7. InstalledBoots'
        BY <2>2 DEF InstalledBoots
    <2> QED
        BY <2>2, <2>6, <2>7 DEF Inv
  <1> QED
      BY <1>6, <1>7, Sizes

\* The sectors that follow the first two of the image.
LEMMA LoadedAre ==
    ASSUME Inv, NEW i \in 1..VbrCount
    PROVE  /\ Loaded(disk.part + 2, VbrCount)[i] = img[1 + i]
           /\ 1 + i \in 2..(ImageSize - 1)
  <1>1. disk.part \in Nat
      BY EntriesAre DEF Inv, ImageInv
  <1>2. /\ 1 + i \in 2..(ImageSize - 1) /\ 1 + i \in 0..(ImageSize - 1)
        /\ (disk.part + 2 + i - 1) - disk.part = 1 + i
      BY <1>1, Sizes
  <1>3. DiskSector(disk.part + 2 + i - 1) = img[1 + i]
      BY <1>2 DEF DiskSector
  <1> QED
      BY <1>2, <1>3 DEF Loaded

\* A file whose end is clean is on the image as it was in the memory of the
\* installer.
LEMMA CleanIsWhole ==
    ASSUME Inv, NEW f \in complete, CleanTail(f), NEW i \in 1..Len(f.words)
    PROVE  img[1 + i] = InMemory(f)[i]
  <1> DEFINE c == UpdateChecksum(f)
  <1>1. f \in Files /\ Accepted(f) /\ Len(f.words) \in Nat
      BY FileType DEF Inv, CompleteInv
  <1>2. i - 1 \in 0..(Len(f.words) - 1) /\ 2 + (i - 1) = 1 + i
      BY <1>1
  <1>3. PICK b \in BeforeCode : img[1 + i] = Code(f, i - 1, c, b)
      BY <1>2 DEF Inv, CompleteInv, Written
  <1>4. Code(f, i - 1, c, b) = Code(f, i - 1, c, Empty)
    <2>1. CASE Unfilled(f, i - 1)
      <3>1. ~f.padded /\ i = Len(f.words)
          BY <1>1, <2>1 DEF Unfilled
      <3>2. img[1 + i].rest = 0
        <4>1. Len(f.words) + 1 = 1 + i
            BY <1>1, <3>1
        <4> QED
            BY <3>1, <4>1 DEF CleanTail
      <3>3. img[1 + i].rest = b.rest
          BY <1>3, <2>1, CodeFields
      <3> QED
          BY <3>2, <3>3, CodeBefore, PlainFields
    <2>2. CASE ~Unfilled(f, i - 1)
        BY <2>2 DEF Code
    <2> QED
        BY <2>1, <2>2
  <1> QED
      BY <1>3, <1>4 DEF InMemory

\* The checks of the VBR.
LEMMA VbrVerifiesInv ==
    ASSUME Inv, VbrVerifies
    PROVE  Inv'
  <1>1. /\ boot.pc = "verify" /\ Reserved >= 3 /\ VbrCount >= 1 /\ VbrCount \in Nat
        /\ inst.pc = "idle"
      BY Sizes DEF Inv, BootInv, VbrVerifies
  <1>2. PICK at \in Nat : boot.mem = Loaded(at, VbrCount) /\ (Aligned => at = disk.part + 2)
      BY <1>1 DEF Inv, BootInv
  <1>3. CASE ~Verify(boot.mem, VbrCount)
    <2>1. Hang("corrupted")
        BY <1>3 DEF VbrVerifies
    <2>2. ASSUME NEW f \in complete, ~Excused(f) PROVE FALSE
      <3> DEFINE n == Len(f.words)
      <3>1. /\ f \in Files /\ Accepted(f) /\ n \in Nat /\ n # 0
            /\ Aligned /\ n <= VbrCount /\ CleanTail(f)
          BY <2>2, FileType, Sizes DEF Inv, CompleteInv, Accepted, Excused
      <3>2. \A i \in 1..n : boot.mem[i] = InMemory(f)[i]
        <4> TAKE i \in 1..n
        <4>1. i \in 1..VbrCount
            BY <1>1, <3>1
        <4>2. boot.mem[i] = img[1 + i]
            BY <1>2, <3>1, <4>1, LoadedAre
        <4> QED
            BY <3>1, <4>2, CleanIsWhole
      <3>3. InMemory(f)[1] = Code(f, 0, UpdateChecksum(f), Empty)
        <4>1. 1 \in 1..n /\ 1 - 1 = 0
            BY <3>1
        <4> QED
            BY <4>1 DEF InMemory
      <3>4. boot.mem[1] = InMemory(f)[1]
          BY <3>1, <3>2
      <3>5. /\ boot.mem[1].kind = "code" /\ boot.mem[1].index = 0 /\ boot.mem[1].count = n
            /\ boot.mem[1].check = InMemory(f)[1].check /\ InMemory(f)[1].count = n
          BY <3>3, <3>4, CodeFields
      <3>6. InMemory(f)[1].check # 0 /\ ComputeChecksum([i \in 1..n |-> InMemory(f)[i].word]) = 0
          BY <3>1, <3>5 DEF Accepted, Verify
      <3>7. [i \in 1..n |-> boot.mem[i].word] = [i \in 1..n |-> InMemory(f)[i].word]
          BY <3>2
      <3>8. Verify(boot.mem, VbrCount)
          BY <3>1, <3>5, <3>6, <3>7 DEF Verify
      <3> QED
          BY <1>3, <3>8
    <2> QED
        BY <1>1, <2>1, <2>2, HangInv DEF Failed
  <1>4. CASE Verify(boot.mem, VbrCount)
    <2>1. Goto([boot EXCEPT !.pc = "stage2"])
        BY <1>4 DEF VbrVerifies
    <2>2. /\ boot' = [pc |-> "stage2", part |-> boot.part, super |-> boot.super, mem |-> boot.mem]
          /\ UNCHANGED <<img, inst, disk>> /\ ImageInv' /\ InstInv' /\ CompleteInv'
        BY <2>1, GotoFields, BootFields DEF Inv
    <2>3. /\ boot'.pc = "stage2" /\ boot'.part = boot.part /\ boot'.mem = boot.mem
          /\ boot' = [pc |-> boot'.pc, part |-> boot'.part, super |-> boot'.super, mem |-> boot'.mem]
        BY <2>2
    <2>4. Loaded(at, VbrCount)' = Loaded(at, VbrCount) /\ (Aligned' <=> Aligned)
      <3>1. ASSUME NEW x PROVE DiskSector(x)' = DiskSector(x)
          BY <2>2 DEF DiskSector
      <3> QED
          BY <2>2, <3>1 DEF Loaded, Aligned
    <2>5. Verify(boot'.mem, VbrCount)
        BY <1>4, <2>3
    <2>6. BootInv'
        BY <1>1, <1>2, <2>2, <2>3, <2>4, <2>5 DEF Inv, BootInv, BootPc
    <2>7. InstalledBoots'
        BY <2>3 DEF InstalledBoots
    <2> QED
        BY <2>2, <2>6, <2>7 DEF Inv
  <1> QED
      BY <1>3, <1>4

\* The second stage opens the partition.
LEMMA OpenPartitionInv ==
    ASSUME Inv, OpenPartition
    PROVE  Inv'
  <1>1. boot.pc = "stage2" /\ Goto([boot EXCEPT !.pc = "open"])
      BY DEF OpenPartition
  <1>2. /\ boot' = [pc |-> "open", part |-> boot.part, super |-> boot.super, mem |-> boot.mem]
        /\ UNCHANGED <<img, inst, disk>> /\ ImageInv' /\ InstInv' /\ CompleteInv'
      BY <1>1, GotoFields, BootFields DEF Inv
  <1>3. /\ boot'.pc = "open" /\ boot'.part = boot.part /\ boot'.mem = boot.mem
        /\ boot' = [pc |-> boot'.pc, part |-> boot'.part, super |-> boot'.super, mem |-> boot'.mem]
      BY <1>2
  <1>4. \A at : Loaded(at, VbrCount)' = Loaded(at, VbrCount)
    <2> TAKE at
    <2>1. ASSUME NEW x PROVE DiskSector(x)' = DiskSector(x)
        BY <1>2 DEF DiskSector
    <2> QED
        BY <2>1 DEF Loaded
  <1>5. Aligned' <=> Aligned
      BY <1>2 DEF Aligned
  <1>6. Verify(boot'.mem, VbrCount)
      BY <1>1, <1>3 DEF Inv, BootInv
  <1>7. BootInv'
      BY <1>1, <1>2, <1>3, <1>4, <1>5, <1>6 DEF Inv, BootInv, BootPc
  <1>8. InstalledBoots'
      BY <1>3 DEF InstalledBoots
  <1> QED
      BY <1>2, <1>7, <1>8 DEF Inv

\* Power, and errors the BIOS reports.
LEMMA PowerInv ==
    ASSUME Inv, PowerOn \/ PowerOff \/ BiosError
    PROVE  Inv'
  <1>1. ImageInv' /\ InstInv' /\ CompleteInv' /\ UNCHANGED <<inst, disk>>
      BY BootKeeps DEF PowerOn, PowerOff, BiosError
  <1>2. 0 \in 0..Len(disk.table)
      BY EntriesAre DEF Inv, ImageInv
  <1>3. CASE PowerOn
    <2>1. /\ boot' = [pc |-> "mbr", part |-> 0, super |-> Empty, mem |-> <<>>]
          /\ inst.pc = "idle"
        BY <1>3 DEF PowerOn, Off
    <2>2. BootInv' /\ InstalledBoots'
        BY <1>1, <1>2, <2>1 DEF BootInv, InstalledBoots, BootPc
    <2> QED
        BY <1>1, <2>2 DEF Inv
  <1>4. CASE PowerOff
    <2>1. boot' = [pc |-> "off", part |-> 0, super |-> Empty, mem |-> <<>>]
        BY <1>4 DEF PowerOff, Off
    <2>2. BootInv' /\ InstalledBoots'
        BY <1>1, <1>2, <2>1 DEF BootInv, InstalledBoots, BootPc
    <2> QED
        BY <1>1, <2>2 DEF Inv
  <1>5. CASE BiosError
    <2>1. /\ boot' = [pc |-> "errLoad", part |-> boot.part, super |-> boot.super, mem |-> boot.mem]
          /\ fault' /\ boot.pc # "off"
        BY <1>5, BootFields DEF BiosError, Inv
    <2>2. BootInv'
        BY <1>1, <2>1 DEF Inv, BootInv, BootPc
    <2>3. InstalledBoots'
        BY <2>1 DEF InstalledBoots
    <2> QED
        BY <1>1, <2>2, <2>3 DEF Inv
  <1> QED
      BY <1>3, <1>4, <1>5

\* No entry is bootable.
LEMMA NoPartitionInv ==
    ASSUME Inv, MbrNoPartition
    PROVE  Inv'
  <1>1. boot.pc # "off" /\ Hang("noPartition") /\ "noPartition" \notin Failed
      BY DEF MbrNoPartition, Failed
  <1> QED
      BY <1>1, HangInv

\* The invariant is inductive.
LEMMA NextInv == Inv /\ [Next]_vars => Inv'
  <1> SUFFICES ASSUME Inv, [Next]_vars PROVE Inv'
      OBVIOUS
  <1>1. CASE Installer
      BY <1>1, InstallInv, WriteSuperInv, WriteFsInfoInv, ReadStage2Inv, WriteSectorInv,
         InstallStopsInv DEF Installer
  <1>2. CASE EditImage
      BY <1>2, EditImageInv
  <1>3. CASE Boot
      BY <1>3, PowerInv, NoPartitionInv, MbrLoadsVbrInv, VbrLoadsInv, VbrVerifiesInv,
         OpenPartitionInv DEF Boot
  <1>4. CASE UNCHANGED vars
    <2>1. ImageInv' /\ InstInv' /\ CompleteInv'
        BY <1>4, BootKeeps DEF vars
    <2>2. BootInv'
      <3>1. ASSUME NEW x PROVE DiskSector(x)' = DiskSector(x)
          BY <1>4 DEF DiskSector, vars
      <3>2. \A at : Loaded(at, VbrCount)' = Loaded(at, VbrCount)
          BY <3>1 DEF Loaded
      <3> QED
          BY <1>4, <3>2 DEF Inv, BootInv, Aligned, vars
    <2>3. InstalledBoots'
      <3>1. Entries' = Entries /\ (Aligned' <=> Aligned)
          BY <1>4 DEF Entries, Aligned, vars
      <3>2. \A f : CleanTail(f)' <=> CleanTail(f)
          BY <1>4 DEF CleanTail, vars
      <3> QED
          BY <1>4, <3>1, <3>2 DEF Inv, InstalledBoots, vars
    <2> QED
        BY <2>1, <2>2, <2>3 DEF Inv
  <1> QED
      BY <1>1, <1>2, <1>3, <1>4 DEF Next

-----------------------------------------------------------------------------
(* The theorems. *)

\* The inductive invariant holds throughout.
THEOREM Invariance == Spec => []Inv
  BY InitInv, NextInv, PTL DEF Spec

\* The variables keep their types; in particular every sector behind the first
\* two holds what mkfs.fat left or the sector of a second stage that belongs
\* there.
THEOREM TypeCorrect == Spec => []TypeOK
  <1>1. Inv => TypeOK
    <2> SUFFICES ASSUME Inv PROVE TypeOK
        OBVIOUS
    <2>1. img[0].kind = "super"
      <3>1. disk \in Disks /\ 0 \in 0..(ImageSize - 1)
          BY Sizes DEF Inv, ImageInv
      <3>2. img[0] = MkfsSuper \/ img[0] = VbrSuper
          BY <3>1, FreshCases DEF Inv, ImageInv
      <3> QED
          BY <3>2, PlainFields DEF MkfsSuper, VbrSuper
    <2> QED
        BY <2>1 DEF Inv, ImageInv, InstInv, CompleteInv, BootInv, BootPc, TypeOK
  <1> QED
      BY <1>1, Invariance, PTL

\* What the VBR starts begins with the header of an accepted file, in the sector
\* where the installer puts headers, and the sectors behind it are in their
\* places.  They are the rest of that file, unless the file is Ambiguous.
THEOREM StartsWholeFiles == Spec => []StartsWhole
  <1>1. Inv => StartsWhole
    <2> SUFFICES ASSUME Inv, boot.pc \in {"stage2", "open"}
                 PROVE  StartsWhole
        BY DEF StartsWhole
    <2>1. /\ Verify(boot.mem, VbrCount) /\ Reserved >= 3 /\ VbrCount \in Nat /\ VbrCount >= 1
          /\ VbrCount <= Reserved - 2
        BY Sizes DEF Inv, BootInv
    <2>2. PICK at \in Nat : boot.mem = Loaded(at, VbrCount)
        BY DEF Inv, BootInv
    <2>3. /\ disk \in Disks /\ disk.part \in Nat /\ 0 \in 0..(ImageSize - 1)
        BY EntriesAre, Sizes DEF Inv, ImageInv
    <2>4. boot.mem[1] = DiskSector(at)
      <3>1. 1 \in 1..VbrCount /\ at + 1 - 1 = at
          BY <2>1
      <3> QED
          BY <2>2, <3>1 DEF Loaded
    <2>5. DiskSector(at).kind = "code" /\ DiskSector(at).index = 0
        BY <2>1, <2>4 DEF Verify
    <2> DEFINE k == at - disk.part
    <2>6. k \in 0..(ImageSize - 1) /\ DiskSector(at) = img[k]
        BY <2>5, PlainFields DEF DiskSector
    <2>7. k # 0 /\ k # 1
      <3>1. img[0] = MkfsSuper \/ img[0] = VbrSuper
          BY <2>3, FreshCases DEF Inv, ImageInv
      <3>2. img[0].kind # "code" /\ img[1].kind # "code"
          BY <3>1, PlainFields DEF Inv, ImageInv, LowSectors, MkfsSuper, VbrSuper
      <3> QED
          BY <2>5, <2>6, <3>2
    <2>8. k \in 2..(ImageSize - 1) /\ k - 2 \in 0..(ImageSize - 3)
        BY <2>6, <2>7, Sizes
    <2>9. PICK f \in Files, b \in BeforeCode :
                /\ Accepted(f) /\ k - 2 < Len(f.words)
                /\ img[k] = Code(f, k - 2, UpdateChecksum(f), b)
      <3>1. img[k] \in SectorsAt[k - 2]
          BY <2>8 DEF Inv, ImageInv
      <3> QED
          BY <2>5, <2>6, <2>8, <3>1, SectorCases
    <2>10. k = 2 /\ at = disk.part + 2
      <3>1. k - 2 = 0
          BY <2>5, <2>6, <2>9, CodeFields
      <3> QED
          BY <2>2, <2>3, <2>8, <3>1
    <2> DEFINE n == Len(f.words)
               m == [i \in 1..n |-> boot.mem[i]]
    <2>11. boot.mem[1] = Code(f, 0, UpdateChecksum(f), b) /\ boot.mem[1].count = n
      <3>1. k - 2 = 0
          BY <2>10
      <3> QED
          BY <2>4, <2>6, <2>9, <3>1, CodeFields
    <2>12. n \in Nat /\ n # 0 /\ n <= VbrCount /\ n \in 1..VbrCount
        BY <2>1, <2>11, FileType DEF Verify
    <2>13. \A i \in 1..VbrCount : boot.mem[i] = img[1 + i] /\ boot.mem[i] \in SectorsAt[i - 1]
      <3> TAKE i \in 1..VbrCount
      <3>1. boot.mem[i] = img[1 + i] /\ 1 + i \in 2..(ImageSize - 1)
          BY <2>2, <2>10, LoadedAre
      <3>2. img[1 + i] \in SectorsAt[(1 + i) - 2] /\ (1 + i) - 2 = i - 1
          BY <3>1 DEF Inv, ImageInv
      <3> QED
          BY <3>1, <3>2
    <2>14. m \in Mixtures(f)
      <3> DEFINE all == UNION {SectorsAt[i] : i \in 0..(n - 1)}
      <3>1. \A i \in 1..n : m[i] \in SectorsAt[i - 1] /\ i - 1 \in 0..(n - 1)
          BY <2>1, <2>12, <2>13
      <3>2. \A i \in 1..n : m[i] \in all
          BY <3>1
      <3>3. m \in [1..n -> all]
        <4> HIDE DEF all
        <4> QED
            BY <3>2
      <3>4. m[1] = Code(f, 0, UpdateChecksum(f), b)
          BY <2>11, <2>12
      <3> QED
          BY <3>1, <3>3, <3>4 DEF Mixtures
    <2>15. ComputeChecksum([i \in 1..n |-> m[i].word]) = 0
      <3>1. [i \in 1..n |-> m[i].word] = [i \in 1..n |-> boot.mem[i].word]
          OBVIOUS
      <3> QED
          BY <2>1, <2>11, <3>1 DEF Verify
    <2>16. f \in Startable /\ (m = InMemory(f) \/ f \in Ambiguous)
        BY <2>9, <2>12, <2>14, <2>15 DEF Startable, Ambiguous
    <2>17. SubSeq(boot.mem, 1, n) = m /\ n \in 1..Len(boot.mem)
      <3> DEFINE X == {boot.mem[i] : i \in 1..VbrCount}
      <3>1. boot.mem \in [1..VbrCount -> X]
          BY <2>2 DEF Loaded
      <3> HIDE DEF X
      <3>2. boot.mem \in Seq(X) /\ Len(boot.mem) = VbrCount
          BY <2>1, <3>1
      <3>3. SubSeq(boot.mem, 1, n) = m
          BY <2>12, <3>2
      <3> QED
          BY <2>12, <3>2, <3>3
    <2> HIDE DEF m
    <2> QED
        BY <2>12, <2>14, <2>16, <2>17 DEF StartsWhole
  <1> QED
      BY <1>1, Invariance, PTL

\* What was installed completely boots, with the exceptions the property names.
THEOREM InstalledFilesBoot == Spec => []InstalledBoots
  <1>1. Inv => InstalledBoots
      BY DEF Inv
  <1> QED
      BY <1>1, Invariance, PTL

\* The backup and the FsInfo sector that the super block names are there.
THEOREM MetaIsFound == Spec => []MetaFound
  <1>1. Inv => MetaFound
    <2> SUFFICES ASSUME Inv PROVE MetaFound
        OBVIOUS
    <2>1. disk \in Disks /\ disk.backup \in 0..(ImageSize - 1) /\ 0 \in 0..(ImageSize - 1)
        BY SMTT(20), Sizes, BootChainAssumption DEF Inv, ImageInv, Disks
    <2>2. CASE img[0] = VbrSuper
      <3>1. img[0].backup = 0 /\ img[0].fsinfo = 1
          BY <2>2, PlainFields DEF VbrSuper
      <3> QED
          BY <3>1, PlainFields DEF Inv, ImageInv, MetaFound
    <2>3. CASE \A s \in 0..(ImageSize - 1) : img[s] = FreshSector(s)
      <3>1. img[0] = MkfsSuper /\ img[disk.backup] = MkfsSuper
          BY <2>1, <2>3, FreshCases
      <3>2. img[0].backup = disk.backup /\ img[0].fsinfo = disk.fsinfo /\ MkfsSuper.kind = "super"
          BY <3>1, PlainFields DEF MkfsSuper
      <3> QED
          BY <3>1, <3>2, PlainFields DEF Inv, ImageInv, MetaFound
    <2> QED
        BY <2>2, <2>3 DEF Inv, ImageInv
  <1> QED
      BY <1>1, Invariance, PTL

\* The second stage is handed the partition it came from, and reads it.
THEOREM PartitionHandedOver == Spec => []HandsOver
  <1>1. Inv => HandsOver
    <2> SUFFICES ASSUME Inv, boot.pc = "open" PROVE HandsOver
        BY DEF HandsOver
    <2>1. /\ disk \in Disks /\ disk.part \in Nat /\ Geo \in Geometries
          /\ boot.part \in 1..Len(disk.table) /\ disk.table[boot.part] = "ours"
          /\ \A j \in 1..(boot.part - 1) : disk.table[j] = "inactive"
        BY EntriesAre, BootChainAssumption DEF Inv, ImageInv, BootInv
    <2>2. ASSUME NEW i \in 0..(ImageSize - 1), disk.part + i < Capacity(Geo)
          PROVE  LoadSector(i) = img[i]
      <3>1. Entries[boot.part].lba = disk.part /\ Geometry(DriveParameters(Geo)) = Geo
          BY <2>1, EntryPlace, GeometryRead
      <3>2. disk.part + i \in Nat /\ (disk.part + i) - disk.part = i
          BY <2>1, Sizes
      <3>3. Seeks(Geo, Registers(LBA2CHS(Geo, disk.part + i))) = disk.part + i
          BY <2>1, <2>2, <3>2, RoundTrip
      <3>4. LoadSector(i) = DiskSector(disk.part + i)
          BY <3>1, <3>3 DEF LoadSector
      <3> QED
          BY <3>2, <3>4 DEF DiskSector
    <2> QED
        BY <2>1, <2>2 DEF HandsOver
  <1> QED
      BY <1>1, Invariance, PTL

\* No step writes behind the reserved sectors.
THEOREM InstallerStaysReserved == Spec => StaysReserved
  <1>1. Inv /\ [Next]_vars => [\A s \in Reserved..(ImageSize - 1) : img'[s] = img[s]]_img
    <2> SUFFICES ASSUME Inv, [Next]_vars, img' # img
                 PROVE  \A s \in Reserved..(ImageSize - 1) : img'[s] = img[s]
        OBVIOUS
    <2>1. DOMAIN img = 0..(ImageSize - 1) /\ img = [s \in DOMAIN img |-> img[s]]
        BY DEF Inv, ImageInv
    <2>2. WriteSuper \/ WriteFsInfo \/ WriteSector
      <3>1. ~EditImage
          BY EditImageInv
      <3> QED
          BY <3>1 DEF Next, Installer, Boot, Install, ReadStage2, InstallStops, PowerOn, PowerOff,
             MbrNoPartition, MbrLoadsVbr, MbrLoads, VbrLoadsStage2, VbrLoads, VbrVerifies, BiosError,
             OpenPartition, Goto, Hang, vars
    <2>3. ASSUME NEW n \in 0..(Reserved - 1), NEW v, img' = [img EXCEPT ![n] = v]
          PROVE  \A s \in Reserved..(ImageSize - 1) : img'[s] = img[s]
      <3>1. n \in DOMAIN img /\ \A s \in Reserved..(ImageSize - 1) : s \in DOMAIN img /\ s # n
          BY <2>1, Sizes
      <3>2. \A s \in DOMAIN img : s # n => img'[s] = img[s]
          BY <2>1, <2>3, <3>1, OneSector
      <3> QED
          BY <3>1, <3>2
    <2>4. CASE WriteSuper
      <3>1. 0 \in 0..(Reserved - 1)
          BY Sizes
      <3> QED
          BY <2>3, <2>4, <3>1 DEF WriteSuper
    <2>5. CASE WriteFsInfo
      <3>1. 1 \in 0..(Reserved - 1)
          BY Sizes
      <3> QED
          BY <2>3, <2>5, <3>1 DEF WriteFsInfo
    <2>6. CASE WriteSector
      <3>1. inst.file \in Files /\ Accepted(inst.file) /\ inst.next \in 0..(Reserved - 2)
            /\ inst.next < Len(inst.file.words)
          BY <2>6 DEF Inv, InstInv, WriteSector
      <3>2. 2 + inst.next \in 0..(Reserved - 1)
          BY <3>1, FileType, Sizes DEF Accepted
      <3> QED
          BY <2>3, <2>6, <3>2 DEF WriteSector, StageSector
    <2> QED
        BY <2>2, <2>4, <2>5, <2>6
  <1> QED
      BY <1>1, Invariance, PTL DEF Spec, StaysReserved
=============================================================================
