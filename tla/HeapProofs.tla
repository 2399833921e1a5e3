----------------------------- MODULE HeapProofs -----------------------------
(***************************************************************************)
(* Proofs about the heap of the second stage.  Inv of module Heap is shown *)
(* to be inductive, one lemma per action; the safety properties follow.    *)
(***************************************************************************)
EXTENDS Heap, TLAPS

-----------------------------------------------------------------------------
(* Facts about the bounds of the region and about rounding. *)

\* The region starts and ends on a word boundary and holds at least a header.
LEMMA Region ==
    /\ heap \in Nat /\ heap > 0 /\ heap % 4 = 0
    /\ heapEnd \in Nat /\ heapEnd % 4 = 0
    /\ heap + 8 <= heapEnd
  BY HeapAssumption DEF heap, heapEnd, SizeofHeapEntry

\* What malloc() does to its argument first: the next multiple of a word.
LEMMA RoundUpFacts ==
    ASSUME NEW n \in Nat
    PROVE  /\ RoundUp(n) \in Nat /\ RoundUp(n) % 4 = 0
           /\ n <= RoundUp(n) /\ RoundUp(n) < n + 4
  BY DEF RoundUp

\* A word aligned size that is enough for n is enough for n rounded up.
LEMMA RoundUpLeast ==
    ASSUME NEW n \in Nat, NEW s \in Nat, s % 4 = 0, n <= s
    PROVE  RoundUp(n) <= s
  BY DEF RoundUp

\* Sums of word aligned numbers are word aligned.
LEMMA AlignedSum ==
    ASSUME NEW x \in Int, NEW y \in Int, x % 4 = 0, y % 4 = 0
    PROVE  (x + y) % 4 = 0 /\ (x - y) % 4 = 0 /\ (x + 8 + y) % 4 = 0
                /\ (x - y - 8) % 4 = 0 /\ (x + 8) % 4 = 0
  OBVIOUS

-----------------------------------------------------------------------------
(* Initially the region is one free entry. *)

\* HeapInit() leaves one free entry, for which everything in Inv holds.
LEMMA InitInv == Init => Inv
  <1> SUFFICES ASSUME Init PROVE Inv
      OBVIOUS
  <1>1. /\ next = [a \in {heap} |-> heapEnd]
        /\ Headers = {heap} /\ next[heap] = heapEnd
        /\ reserved = {} /\ DOMAIN live = {}
        /\ pc = "idle" /\ it = heap /\ found = nullptr /\ req = 0
      BY DEF Init, Headers
  <1>2. TypeOK
      BY <1>1, Region DEF TypeOK, nullptr, Init
  <1>3. Tiled
      BY <1>1, Region DEF Tiled, SizeofHeapEntry
  <1>4. Covered
      BY <1>1, Region DEF Covered
  <1>5. Aligned
      BY <1>1, Region DEF Aligned
  <1>6. ReservedAreLive
      BY <1>1 DEF ReservedAreLive
  <1>7. LargeEnough
      BY <1>1 DEF LargeEnough
  <1>8. WalksProgress
      BY <1>1 DEF WalksProgress
  <1>9. Coalesced
      BY <1>1 DEF Coalesced
  <1> QED
      BY <1>2, <1>3, <1>4, <1>5, <1>6, <1>7, <1>8, <1>9 DEF Inv

-----------------------------------------------------------------------------
(* The list does not change: the layout is kept, and so is the bookkeeping   *)
(* when the blocks are the same.                                             *)

\* What Inv says of the list depends on nothing but the list and the callers.
LEMMA SameList ==
    ASSUME Inv, UNCHANGED <<next, reserved, live>>
    PROVE  Tiled' /\ Covered' /\ Aligned' /\ ReservedAreLive' /\ LargeEnough'
  <1>1. Headers' = Headers /\ \A a : Size(a)' = Size(a)
      BY DEF Headers, Size
  <1>2. Tiled'
      BY <1>1 DEF Inv, Tiled, heap, heapEnd, Headers
  <1>3. Covered'
      BY <1>1 DEF Inv, Covered, heap, heapEnd, Headers
  <1>4. Aligned'
      BY <1>1 DEF Inv, Aligned
  <1>5. ReservedAreLive'
      BY <1>1 DEF Inv, ReservedAreLive, HeaderOf
  <1>6. LargeEnough'
      BY <1>1 DEF Inv, LargeEnough, HeaderOf
  <1> QED
      BY <1>2, <1>3, <1>4, <1>5, <1>6

\* Entering malloc() only sets up the walk; nothing was passed yet.
LEMMA CallMallocInv ==
    ASSUME Inv, NEW n \in Requests, CallMalloc(n)
    PROVE  Inv'
  <1>1. Tiled' /\ Covered' /\ Aligned' /\ ReservedAreLive' /\ LargeEnough'
      BY SameList DEF CallMalloc
  <1>2. TypeOK'
      BY Region, HeapAssumption DEF CallMalloc, Inv, TypeOK, Tiled, Headers, nullptr, heapEnd, heap
  <1>3. WalksProgress'
    <2>1. \A b \in Headers : heap <= b /\ b \in Nat
        BY DEF Inv, Tiled, TypeOK
    <2>2. \A b \in Headers' : ~(b < it')
        BY <2>1, Region DEF CallMalloc, Headers, heap
    <2> QED
        BY <2>2 DEF CallMalloc, WalksProgress
  <1>4. Coalesced'
      BY DEF CallMalloc, Inv, Coalesced, Headers, IsFree, heapEnd
  <1> QED
      BY <1>1, <1>2, <1>3, <1>4 DEF Inv

\* One iteration of the search: the entry just looked at joins those passed.
LEMMA ScanInv ==
    ASSUME Inv, Scan
    PROVE  Inv'
  <1>1. Tiled' /\ Covered' /\ Aligned' /\ ReservedAreLive' /\ LargeEnough'
      BY SameList DEF Scan
  <1>2. /\ it \in Headers /\ it \in Nat /\ next[it] \in Nat
        /\ next[it] \in Headers \cup {heapEnd}
        /\ \A b \in Headers : b \in Nat /\ (b <= it \/ next[it] <= b)
      BY DEF Scan, Inv, TypeOK, Tiled
  <1>3. TypeOK'
      BY <1>2 DEF Scan, Inv, TypeOK, Headers, heapEnd
  <1>4. WalksProgress'
    <2>1. Headers' = Headers /\ pc' = "scan" /\ it' = next[it]
        BY DEF Scan, Headers
    <2>2. \A b : Size(b)' = Size(b) /\ Fits(b)' = Fits(b)
        BY DEF Scan, Size, Fits, IsFree, count
    <2>3. \A b \in Headers : Size(b) \in Int
        BY DEF Inv, TypeOK, Size, SizeofHeapEntry
    <2>4. found' # nullptr => found' \in Headers /\ Fits(found')
        BY <1>2 DEF Scan, Inv, WalksProgress
    <2>5. ASSUME NEW b \in Headers, b < it', Fits(b)
          PROVE  found' # nullptr /\ Size(found') <= Size(b)
      <3>1. it # nullptr /\ it \in Headers
          BY <1>2, Region DEF Inv, Tiled, nullptr
      <3>2. b < it \/ b = it
          BY <1>2, <2>1, <2>5
      <3>3. CASE b = it
          BY <3>1, <3>3, <2>3, <2>5 DEF Scan, Better, Inv, WalksProgress
      <3>4. CASE b < it
        <4>1. found # nullptr /\ found \in Headers /\ Size(found) <= Size(b)
            BY <3>4, <2>5 DEF Scan, Inv, WalksProgress
        <4> QED
            BY <3>1, <4>1, <2>3 DEF Scan, Better
      <3> QED
          BY <3>2, <3>3, <3>4
    <2>6. found' # nullptr => found' \in Headers' /\ Fits(found)'
      <3>1. Fits(found)' = Fits(found')
          BY DEF Fits, IsFree, Size, count, Scan
      <3> QED
          BY <3>1, <2>1, <2>4
    <2>7. Size(found)' = Size(found')
        BY DEF Size, Scan
    <2> QED
        BY <2>1, <2>2, <2>5, <2>6, <2>7 DEF WalksProgress, nullptr
  <1>5. Coalesced'
      BY DEF Scan, Inv, Coalesced, Headers, IsFree, heapEnd
  <1> QED
      BY <1>1, <1>3, <1>4, <1>5 DEF Inv

\* A malloc() that returns nullptr leaves list and callers as they were.
LEMMA MallocFailInv ==
    ASSUME Inv, MallocFail
    PROVE  Inv'
  <1>1. Tiled' /\ Covered' /\ Aligned' /\ ReservedAreLive' /\ LargeEnough'
      BY SameList DEF MallocFail
  <1>2. TypeOK'
      BY Region DEF MallocFail, Return, Inv, TypeOK, Tiled, Headers, nullptr, heapEnd, heap
  <1>3. WalksProgress'
      BY DEF MallocFail, Return, WalksProgress
  <1>4. Coalesced'
      BY DEF MallocFail, Return, Inv, Coalesced, Headers, IsFree, heapEnd
  <1> QED
      BY <1>1, <1>2, <1>3, <1>4 DEF Inv

-----------------------------------------------------------------------------
(* HeapEntry::Reserve.  If the entry is split, the part behind the block is a *)
(* new entry between the block and the old successor.                        *)

\* The entry malloc() reserves is free, large enough and in the list.
LEMMA ReserveFacts ==
    ASSUME Inv, Reserve
    PROVE  /\ found \in Headers /\ IsFree(found) /\ found \in Nat
           /\ next[found] \in Nat /\ next[found] <= heapEnd
           /\ next[found] \in Headers \cup {heapEnd}
           /\ found % 4 = 0 /\ next[found] % 4 = 0
           /\ count \in Nat /\ count % 4 = 0 /\ req <= count
           /\ DataPtr(found) + count <= next[found]
           /\ heap <= found
  <1>1. found \in Headers /\ IsFree(found) /\ Size(found) >= count
      BY DEF Reserve, Inv, WalksProgress, Fits
  <1>2. count \in Nat /\ count % 4 = 0 /\ req <= count
      BY RoundUpFacts DEF Inv, TypeOK, count
  <1>3. /\ found \in Nat /\ next[found] \in Nat /\ next[found] <= heapEnd
        /\ next[found] \in Headers \cup {heapEnd} /\ heap <= found
      BY <1>1 DEF Inv, TypeOK, Tiled
  <1>4. found % 4 = 0 /\ next[found] % 4 = 0
      BY <1>1, <1>3, Region DEF Inv, Aligned
  <1>5. DataPtr(found) + count <= next[found]
      BY <1>1, <1>2, <1>3 DEF Size, DataPtr, SizeofHeapEntry
  <1> QED
      BY <1>1, <1>2, <1>3, <1>4, <1>5

\* The layout after the entry was split.
LEMMA SplitFacts ==
    ASSUME Inv, Reserve, Splits(found, count),
           NEW ent, ent = DataPtr(found) + count
    PROVE  /\ ent \in Nat /\ ent \notin Headers
           /\ found + 8 <= ent /\ ent + 12 <= next[found] /\ ent % 4 = 0
           /\ Headers' = Headers \cup {ent}
           /\ next'[found] = ent /\ next'[ent] = next[found]
           /\ \A b \in Headers \ {found} : next'[b] = next[b]
           /\ \A b \in Headers : b <= found \/ next[found] <= b
  <1>1. found \in Headers /\ found \in Nat /\ next[found] \in Nat /\ count \in Nat
      BY ReserveFacts
  <1>2. ent \in Nat /\ found + 8 <= ent /\ ent + 12 <= next[found]
      BY <1>1 DEF Splits, Size, DataPtr, SizeofHeapEntry
  <1>3. ent % 4 = 0
    <2>1. found % 4 = 0 /\ count % 4 = 0
        BY ReserveFacts
    <2>2. (found + 8 + count) % 4 = 0
        BY <1>1, <2>1, AlignedSum
    <2> QED
        BY <2>2 DEF DataPtr, SizeofHeapEntry
  <1>4. \A b \in Headers : b \in Nat /\ (b <= found \/ next[found] <= b)
      BY <1>1 DEF Inv, TypeOK, Tiled
  <1>5. ent \notin Headers
      BY <1>1, <1>2, <1>4
  <1>6. next' = SplitOff(found, count)
      BY DEF Reserve
  <1>7. /\ Headers' = Headers \cup {ent}
        /\ next'[found] = ent /\ next'[ent] = next[found]
        /\ \A b \in Headers \ {found} : next'[b] = next[b]
      BY <1>1, <1>5, <1>6 DEF SplitOff, Headers
  <1> QED
      BY <1>2, <1>3, <1>4, <1>5, <1>7

\* Reserve() leaves a tiling, whether it splits the entry or not.
LEMMA ReserveLayout ==
    ASSUME Inv, Reserve
    PROVE  /\ Tiled' /\ Covered' /\ Aligned'
           /\ Headers' \subseteq Nat /\ next' \in [Headers' -> Nat]
  <1> USE DEF SizeofHeapEntry
  <1>0. /\ heap' = heap /\ heapEnd' = heapEnd
        /\ next \in [Headers -> Nat] /\ Headers \subseteq Nat
      BY DEF heap, heapEnd, Inv, TypeOK
  <1>1. CASE ~Splits(found, count)
    <2>1. next' = next /\ Headers' = Headers
        BY <1>1 DEF Reserve, Headers
    <2> QED
        BY <2>1, <1>0 DEF Inv, Tiled, Covered, Aligned
  <1>2. CASE Splits(found, count)
    <2> DEFINE ent == DataPtr(found) + count
    <2>1. /\ ent \in Nat /\ ent \notin Headers
          /\ found + 8 <= ent /\ ent + 12 <= next[found] /\ ent % 4 = 0
          /\ Headers' = Headers \cup {ent}
          /\ next'[found] = ent /\ next'[ent] = next[found]
          /\ \A b \in Headers \ {found} : next'[b] = next[b]
          /\ \A b \in Headers : b <= found \/ next[found] <= b
        BY <1>2, SplitFacts
    <2>2. /\ found \in Headers /\ found \in Nat /\ next[found] \in Nat
          /\ next[found] <= heapEnd /\ heap <= found
          /\ next[found] \in Headers \cup {heapEnd}
        BY ReserveFacts
    <2> HIDE DEF ent
    <2>3. Tiled'
      <3>1. heap \in Headers'
          BY <2>1 DEF Inv, Tiled
      <3>2. ASSUME NEW a \in Headers'
            PROVE  /\ heap <= a /\ a + 8 <= next'[a] /\ next'[a] <= heapEnd
                   /\ next'[a] \in Headers' \cup {heapEnd}
                   /\ \A b \in Headers' : b <= a \/ next'[a] <= b
        <4>0. heap \in Nat /\ heapEnd \in Nat /\ Headers \subseteq Nat
            BY Region, <1>0
        <4>1. CASE a = ent
          <5>1. heap <= a /\ a + 8 <= next'[a] /\ next'[a] <= heapEnd
              BY <4>0, <4>1, <2>1, <2>2
          <5>2. next'[a] \in Headers' \cup {heapEnd}
              BY <4>1, <2>1, <2>2
          <5>3. ASSUME NEW b \in Headers' PROVE b <= a \/ next'[a] <= b
            <6>1. b = ent \/ (b \in Nat /\ (b <= found \/ next[found] <= b))
                BY <4>0, <2>1
            <6>2. next'[a] = next[found]
                BY <4>1, <2>1
            <6> QED
                BY <6>1, <6>2, <4>1, <2>1, <2>2
          <5> QED
              BY <5>1, <5>2, <5>3
        <4>2. CASE a = found
          <5>1. heap <= a /\ a + 8 <= next'[a] /\ next'[a] <= heapEnd
              BY <4>0, <4>2, <2>1, <2>2
          <5>2. next'[a] \in Headers' \cup {heapEnd}
              BY <4>2, <2>1, <2>2
          <5>3. ASSUME NEW b \in Headers' PROVE b <= a \/ next'[a] <= b
            <6>1. b = ent \/ (b \in Nat /\ (b <= found \/ next[found] <= b))
                BY <4>0, <2>1
            <6>2. next'[a] = ent
                BY <4>2, <2>1
            <6> QED
                BY <6>1, <6>2, <4>2, <2>1, <2>2
          <5> QED
              BY <5>1, <5>2, <5>3
        <4>3. CASE a \in Headers /\ a # found
          <5>1. /\ heap <= a /\ a + 8 <= next[a] /\ next[a] <= heapEnd
                /\ next[a] \in Headers \cup {heapEnd} /\ a \in Nat /\ next[a] \in Nat
                /\ \A b \in Headers : b <= a \/ next[a] <= b
              BY <4>3, <1>0 DEF Inv, Tiled
          <5>2. next'[a] = next[a]
              BY <4>3, <2>1
          <5>3. ent <= a \/ next[a] <= ent
              BY <5>1, <4>3, <2>1, <2>2
          <5> QED
              BY <5>1, <5>2, <5>3, <2>1
        <4> QED
            BY <4>1, <4>2, <4>3, <2>1
      <3> QED
          BY <3>1, <3>2, <1>0 DEF Tiled
    <2>4. Covered'
      <3>1. SUFFICES ASSUME NEW x \in heap..(heapEnd - 1)
                     PROVE  \E a \in Headers' : a <= x /\ x < next'[a]
          BY <1>0 DEF Covered
      <3>2. PICK a \in Headers : a <= x /\ x < next[a]
          BY DEF Inv, Covered
      <3>3. CASE a # found
          BY <3>2, <3>3, <2>1
      <3>4. CASE a = found /\ x < ent
          BY <3>2, <3>4, <2>1, <2>2
      <3>5. CASE a = found /\ ~(x < ent)
        <4>1. ent <= x
            BY <3>5, <2>1, Region
        <4> QED
            BY <4>1, <3>2, <3>5, <2>1
      <3> QED
          BY <3>3, <3>4, <3>5
    <2>5. Aligned'
        BY <2>1 DEF Inv, Aligned
    <2>6. Headers' \subseteq Nat /\ next' \in [Headers' -> Nat]
      <3>1. next' = [b \in Headers' |-> next'[b]]
          BY <1>2 DEF Reserve, SplitOff, Headers
      <3>2. \A b \in Headers' : next'[b] \in Nat
          BY <1>0, <2>1, <2>2
      <3> QED
          BY <3>1, <3>2, <2>1, <1>0
    <2> QED
        BY <2>3, <2>4, <2>5, <2>6
  <1> QED
      BY <1>1, <1>2

\* Reserve() keeps Inv: the new block is large enough and is the only new one.
LEMMA ReserveInv ==
    ASSUME Inv, Reserve
    PROVE  Inv'
  <1>1. /\ Tiled' /\ Covered' /\ Aligned'
        /\ Headers' \subseteq Nat /\ next' \in [Headers' -> Nat]
      BY ReserveLayout
  <1>2. /\ found \in Headers /\ found \in Nat /\ IsFree(found)
        /\ next[found] \in Nat /\ count \in Nat /\ req <= count
        /\ DataPtr(found) + count <= next[found]
      BY ReserveFacts
  <1>3. /\ found \in Headers' /\ Headers \subseteq Headers'
        /\ DataPtr(found) + req <= next'[found]
        /\ \A b \in Headers \ {found} : next'[b] = next[b]
    <2>1. req \in Nat /\ DataPtr(found) \in Nat
        BY <1>2 DEF Inv, TypeOK, DataPtr, SizeofHeapEntry
    <2>2. CASE Splits(found, count)
        BY <2>1, <2>2, <1>2, SplitFacts
    <2>3. CASE ~Splits(found, count)
        BY <2>1, <2>3, <1>2 DEF Reserve, Headers
    <2> QED
        BY <2>2, <2>3
  <1>4. /\ DOMAIN live' = DOMAIN live \cup {DataPtr(found)}
        /\ live'[DataPtr(found)] = req
        /\ \A p \in DOMAIN live \ {DataPtr(found)} : live'[p] = live[p]
        /\ live' = [p \in DOMAIN live' |-> live'[p]]
      BY DEF Reserve
  <1>5. TypeOK'
    <2>1. reserved' \subseteq Headers'
        BY <1>3 DEF Reserve, Inv, TypeOK
    <2>2. /\ pc' = "idle" /\ it' \in (Headers \cup {heapEnd})'
          /\ found' \in Nat /\ req' \in Nat
      <3>1. heap \in Headers'
          BY <1>3 DEF Inv, Tiled
      <3> QED
          BY <3>1 DEF Reserve, Return, nullptr, heap
    <2>3. DOMAIN live' \subseteq Nat /\ live' \in [DOMAIN live' -> Nat]
      <3>1. DOMAIN live' \subseteq Nat
          BY <1>2, <1>4 DEF Inv, TypeOK, DataPtr, SizeofHeapEntry
      <3>2. \A p \in DOMAIN live' : live'[p] \in Nat
          BY <1>4 DEF Inv, TypeOK
      <3> QED
          BY <3>1, <3>2, <1>4
    <2> QED
        BY <1>1, <2>1, <2>2, <2>3 DEF TypeOK
  <1>6. ReservedAreLive'
    <2>1. HeaderOf(DataPtr(found)) = found
        BY <1>2 DEF HeaderOf, DataPtr, SizeofHeapEntry
    <2>2. reserved = {HeaderOf(p) : p \in DOMAIN live}
        BY DEF Inv, ReservedAreLive
    <2>3. {HeaderOf(p) : p \in DOMAIN live'} = {HeaderOf(p) : p \in DOMAIN live} \cup {found}
        BY <1>4, <2>1
    <2>4. reserved' = {HeaderOf(p) : p \in DOMAIN live'}
        BY <2>2, <2>3 DEF Reserve
    <2> QED
        BY <2>4 DEF ReservedAreLive, HeaderOf, SizeofHeapEntry
  <1>7. LargeEnough'
    <2>1. HeaderOf(DataPtr(found)) = found
        BY <1>2 DEF HeaderOf, DataPtr, SizeofHeapEntry
    <2>2. ASSUME NEW p \in DOMAIN live'
          PROVE  HeaderOf(p) \in Headers' /\ live'[p] <= next'[HeaderOf(p)] - HeaderOf(p) - 8
      <3>1. CASE p = DataPtr(found)
        <4>1. req \in Nat /\ next'[found] \in Nat
            BY <1>1, <1>3 DEF Inv, TypeOK
        <4>2. req <= next'[found] - found - 8
            BY <4>1, <1>2, <1>3 DEF DataPtr, SizeofHeapEntry
        <4> QED
            BY <4>2, <3>1, <2>1, <1>3, <1>4
      <3>2. CASE p # DataPtr(found)
        <4>1. p \in DOMAIN live /\ live'[p] = live[p] /\ p \in Nat
            BY <3>2, <1>4 DEF Inv, TypeOK
        <4>2. HeaderOf(p) \in Headers /\ live[p] <= Size(HeaderOf(p))
            BY <4>1 DEF Inv, LargeEnough
        <4>3. HeaderOf(p) # found
            BY <3>2, <4>1, <1>2 DEF HeaderOf, DataPtr, SizeofHeapEntry
        <4>4. next'[HeaderOf(p)] = next[HeaderOf(p)]
            BY <4>2, <4>3, <1>3
        <4> QED
            BY <4>1, <4>2, <4>4, <1>3 DEF Size, SizeofHeapEntry
      <3> QED
          BY <3>1, <3>2
    <2> QED
        BY <2>2 DEF LargeEnough, Size, HeaderOf, SizeofHeapEntry
  <1>8. WalksProgress'
      BY DEF Reserve, Return, WalksProgress
  <1>9. Coalesced'
    <2>1. SUFFICES ASSUME NEW a \in Headers', next'[a] # heapEnd
                   PROVE  a \in reserved' \/ next'[a] \in reserved'
        BY DEF Coalesced, IsFree, heapEnd
    <2>2. reserved' = reserved \cup {found}
        BY DEF Reserve
    <2>3. \A b \in Headers : next[b] # heapEnd => b \in reserved \/ next[b] \in reserved
        BY DEF Reserve, Inv, Coalesced, IsFree
    <2>4. CASE a \in Headers
        BY <2>1, <2>2, <2>3, <2>4, <1>3
    <2>5. CASE a \notin Headers
      <3>1. Splits(found, count)
          BY <2>5 DEF Reserve, Headers
      <3>2. next'[a] = next[found]
          BY <3>1, <2>5, SplitFacts
      <3> QED
          BY <3>2, <2>1, <2>2, <2>3, <1>2 DEF IsFree
    <2> QED
        BY <2>4, <2>5
  <1> QED
      BY <1>1, <1>5, <1>6, <1>7, <1>8, <1>9 DEF Inv

-----------------------------------------------------------------------------
(* free() and its merge pass. *)

\* Entering free() clears the flag of one entry and one caller together.
LEMMA CallFreeInv ==
    ASSUME Inv, NEW p \in DOMAIN live, CallFree(p)
    PROVE  Inv'
  <1>1. /\ Headers' = Headers /\ next' = next
        /\ DOMAIN live' = DOMAIN live \ {p} /\ DOMAIN live \subseteq Nat
        /\ \A q \in DOMAIN live' : live'[q] = live[q]
        /\ live' = [q \in DOMAIN live' |-> live'[q]]
      BY DEF CallFree, Headers, Inv, TypeOK
  <1>2. Tiled' /\ Covered' /\ Aligned'
      BY <1>1 DEF Inv, Tiled, Covered, Aligned, heap, heapEnd
  <1>3. TypeOK'
      BY <1>1 DEF CallFree, Inv, TypeOK, Tiled, heap, heapEnd
  <1>4. ReservedAreLive'
    <2>1. reserved = {HeaderOf(q) : q \in DOMAIN live}
        BY DEF Inv, ReservedAreLive
    <2>2. \A q \in DOMAIN live : q # p => HeaderOf(q) # HeaderOf(p)
        BY <1>1 DEF HeaderOf, SizeofHeapEntry
    <2>3. reserved' = {HeaderOf(q) : q \in DOMAIN live'}
        BY <2>1, <2>2, <1>1 DEF CallFree
    <2> QED
        BY <2>3 DEF ReservedAreLive, HeaderOf, SizeofHeapEntry
  <1>5. LargeEnough'
      BY <1>1 DEF Inv, LargeEnough, Size, HeaderOf, SizeofHeapEntry
  <1>6. WalksProgress'
    <2>1. \A b \in Headers' : ~(b < it') /\ it' \in Headers'
        BY <1>1, Region DEF CallFree, Inv, Tiled, TypeOK
    <2> QED
        BY <2>1, <1>1 DEF CallFree, WalksProgress, Inv, Tiled
  <1>7. Coalesced'
      BY DEF CallFree, Coalesced
  <1> QED
      BY <1>2, <1>3, <1>4, <1>5, <1>6, <1>7 DEF Inv

\* The layout after an entry absorbed its successor.
LEMMA MergeFacts ==
    ASSUME Inv, Merge
    PROVE  /\ it \in Headers /\ next[it] \in Headers /\ next[it] # it
           /\ it \notin reserved /\ next[it] \notin reserved
           /\ Headers' = Headers \ {next[it]}
           /\ next'[it] = next[next[it]]
           /\ \A b \in Headers' \ {it} : next'[b] = next[b]
           /\ next' = [b \in Headers' |-> next'[b]]
  <1>1. it \in Headers /\ it \notin reserved /\ next[it] \notin reserved
      BY DEF Merge, Inv, WalksProgress, CanMerge, IsFree
  <1>2. next[it] \in Headers /\ next[it] # it
    <2>1. it \in Nat /\ next[it] \in Nat /\ it + 8 <= next[it]
          /\ next[it] \in Headers \cup {heapEnd}
        BY <1>1 DEF Inv, TypeOK, Tiled, SizeofHeapEntry
    <2> QED
        BY <2>1 DEF Merge
  <1>3. next' = Absorb(it)
      BY DEF Merge
  <1> QED
      BY <1>1, <1>2, <1>3 DEF Absorb, Headers

\* TryConsolidate() leaves a tiling: the absorbed bytes join the entry before.
LEMMA MergeLayout ==
    ASSUME Inv, Merge
    PROVE  /\ Tiled' /\ Covered' /\ Aligned'
           /\ Headers' \subseteq Nat /\ next' \in [Headers' -> Nat]
  <1> USE DEF SizeofHeapEntry
  <1> DEFINE nb == next[it]
  <1>0. /\ heap' = heap /\ heapEnd' = heapEnd
        /\ next \in [Headers -> Nat] /\ Headers \subseteq Nat
      BY DEF heap, heapEnd, Inv, TypeOK
  <1>1. /\ it \in Headers /\ nb \in Headers /\ nb # it
        /\ Headers' = Headers \ {nb} /\ next'[it] = next[nb]
        /\ \A b \in Headers' \ {it} : next'[b] = next[b]
        /\ next' = [b \in Headers' |-> next'[b]]
      BY MergeFacts
  <1>2. /\ it \in Nat /\ nb \in Nat /\ next[nb] \in Nat /\ heap \in Nat /\ heapEnd \in Nat
        /\ heap <= it /\ it + 8 <= nb /\ nb + 8 <= next[nb] /\ next[nb] <= heapEnd
        /\ next[nb] \in Headers \cup {heapEnd}
        /\ \A b \in Headers : (b <= it \/ nb <= b) /\ (b <= nb \/ next[nb] <= b)
      BY <1>0, <1>1, Region DEF Inv, Tiled
  <1> HIDE DEF nb
  <1>3. Tiled'
    <2>1. heap \in Headers'
        BY <1>1, <1>2 DEF Inv, Tiled
    <2>2. ASSUME NEW a \in Headers'
          PROVE  /\ heap <= a /\ a + 8 <= next'[a] /\ next'[a] <= heapEnd
                 /\ next'[a] \in Headers' \cup {heapEnd}
                 /\ \A b \in Headers' : b <= a \/ next'[a] <= b
      <3>1. CASE a = it
        <4>1. heap <= a /\ a + 8 <= next'[a] /\ next'[a] <= heapEnd
            BY <3>1, <1>1, <1>2
        <4>2. next'[a] \in Headers' \cup {heapEnd}
            BY <3>1, <1>1, <1>2
        <4>3. ASSUME NEW b \in Headers' PROVE b <= a \/ next'[a] <= b
          <5>1. b \in Nat /\ b # nb /\ (b <= it \/ nb <= b) /\ (b <= nb \/ next[nb] <= b)
              BY <1>0, <1>1, <1>2
          <5> QED
              BY <5>1, <3>1, <1>1, <1>2
        <4> QED
            BY <4>1, <4>2, <4>3
      <3>2. CASE a # it
        <4>1. /\ a \in Headers /\ a # nb /\ next'[a] = next[a] /\ a \in Nat /\ next[a] \in Nat
              /\ heap <= a /\ a + 8 <= next[a] /\ next[a] <= heapEnd
              /\ next[a] \in Headers \cup {heapEnd}
              /\ \A b \in Headers : b <= a \/ next[a] <= b
            BY <3>2, <1>0, <1>1 DEF Inv, Tiled
        <4>2. next[a] # nb
          <5>1. (it <= a \/ next[a] <= it) /\ (a <= it \/ nb <= a)
              BY <4>1, <1>1, <1>2
          <5> QED
              BY <5>1, <4>1, <3>2, <1>2
        <4> QED
            BY <4>1, <4>2, <1>1
      <3> QED
          BY <3>1, <3>2
    <2> QED
        BY <2>1, <2>2, <1>0 DEF Tiled
  <1>4. Covered'
    <2>1. SUFFICES ASSUME NEW x \in heap..(heapEnd - 1)
                   PROVE  \E a \in Headers' : a <= x /\ x < next'[a]
        BY <1>0 DEF Covered
    <2>2. PICK a \in Headers : a <= x /\ x < next[a]
        BY DEF Inv, Covered
    <2>3. CASE a # it /\ a # nb
        BY <2>2, <2>3, <1>1
    <2>4. CASE a = it \/ a = nb
      <3>1. it <= x /\ x < next[nb]
          BY <2>2, <2>4, <1>2 DEF nb
      <3> QED
          BY <3>1, <1>1
    <2> QED
        BY <2>3, <2>4
  <1>5. Aligned'
      BY <1>1 DEF Inv, Aligned
  <1>6. Headers' \subseteq Nat /\ next' \in [Headers' -> Nat]
    <2>1. \A b \in Headers' : next'[b] \in Nat
        BY <1>0, <1>1, <1>2
    <2> QED
        BY <2>1, <1>0, <1>1
  <1> QED
      BY <1>3, <1>4, <1>5, <1>6

\* A merge keeps Inv; the pass starts over, so it has passed nothing.
LEMMA MergeInv ==
    ASSUME Inv, Merge
    PROVE  Inv'
  <1>1. /\ Tiled' /\ Covered' /\ Aligned'
        /\ Headers' \subseteq Nat /\ next' \in [Headers' -> Nat]
      BY MergeLayout
  <1>2. /\ it \in Headers /\ next[it] \in Headers /\ next[it] # it
        /\ it \notin reserved /\ next[it] \notin reserved
        /\ Headers' = Headers \ {next[it]}
        /\ \A b \in Headers' \ {it} : next'[b] = next[b]
      BY MergeFacts
  <1>3. reserved' = reserved /\ live' = live /\ pc' = "merge" /\ it' = heap
      BY DEF Merge
  <1>4. TypeOK'
    <2>1. reserved' \subseteq Headers'
        BY <1>2, <1>3 DEF Inv, TypeOK
    <2>2. it' \in Headers'
        BY <1>1, <1>3 DEF Tiled, heap
    <2> QED
        BY <1>1, <1>3, <2>1, <2>2 DEF TypeOK, Merge, Inv
  <1>5. ReservedAreLive'
      BY <1>3 DEF Inv, ReservedAreLive, HeaderOf
  <1>6. LargeEnough'
    <2>1. ASSUME NEW p \in DOMAIN live
          PROVE  HeaderOf(p) \in Headers' /\ live[p] <= next'[HeaderOf(p)] - HeaderOf(p) - 8
      <3>1. HeaderOf(p) \in reserved
          BY DEF Inv, ReservedAreLive
      <3>2. HeaderOf(p) \in Headers /\ live[p] <= next[HeaderOf(p)] - HeaderOf(p) - 8
          BY DEF Inv, LargeEnough, Size, SizeofHeapEntry
      <3>3. HeaderOf(p) # it /\ HeaderOf(p) # next[it]
          BY <3>1, <1>2
      <3> QED
          BY <3>2, <3>3, <1>2
    <2> QED
        BY <2>1, <1>3 DEF LargeEnough, Size, HeaderOf, SizeofHeapEntry
  <1>7. WalksProgress'
    <2>1. it' \in Headers' /\ \A b \in Headers' : ~(b < it')
        BY <1>1, <1>3, Region DEF Tiled, heap
    <2> QED
        BY <2>1, <1>3 DEF WalksProgress
  <1>8. Coalesced'
      BY <1>3 DEF Coalesced
  <1> QED
      BY <1>1, <1>4, <1>5, <1>6, <1>7, <1>8 DEF Inv

\* A pair that cannot be merged joins the pairs the pass has seen.
LEMMA MergeSkipInv ==
    ASSUME Inv, MergeSkip
    PROVE  Inv'
  <1>1. Tiled' /\ Covered' /\ Aligned' /\ ReservedAreLive' /\ LargeEnough'
      BY SameList DEF MergeSkip
  <1>2. /\ it \in Headers /\ it \in Nat /\ next[it] \in Nat /\ next[it] \in Headers
        /\ \A b \in Headers : b \in Nat /\ (b <= it \/ next[it] <= b)
        /\ \A a \in Headers : a < it => ~CanMerge(a)
      BY DEF MergeSkip, Inv, TypeOK, Tiled, WalksProgress
  <1>3. Headers' = Headers /\ \A a : CanMerge(a)' = CanMerge(a)
      BY DEF MergeSkip, Headers, CanMerge, IsFree
  <1>4. TypeOK'
      BY <1>2, <1>3 DEF MergeSkip, Inv, TypeOK
  <1>5. WalksProgress'
    <2>1. ASSUME NEW a \in Headers, a < next[it] PROVE ~CanMerge(a)
      <3>1. a < it \/ a = it
          BY <2>1, <1>2
      <3> QED
          BY <3>1, <1>2 DEF MergeSkip
    <2> QED
        BY <2>1, <1>2, <1>3 DEF MergeSkip, WalksProgress
  <1>6. Coalesced'
      BY DEF MergeSkip, Coalesced
  <1> QED
      BY <1>1, <1>4, <1>5, <1>6 DEF Inv

\* The pass ended at the last entry without a merge, so all pairs were passed.
LEMMA MergeDoneInv ==
    ASSUME Inv, MergeDone
    PROVE  Inv'
  <1>1. Tiled' /\ Covered' /\ Aligned' /\ ReservedAreLive' /\ LargeEnough'
      BY SameList DEF MergeDone
  <1>2. Headers' = Headers /\ next' = next /\ reserved' = reserved
      BY DEF MergeDone, Headers
  <1>3. TypeOK'
      BY Region, <1>2 DEF MergeDone, Return, Inv, TypeOK, Tiled, nullptr, heap
  <1>4. WalksProgress'
      BY DEF MergeDone, Return, WalksProgress
  <1>5. Coalesced'
    <2>1. SUFFICES ASSUME NEW a \in Headers, next[a] # heapEnd PROVE ~CanMerge(a)
        BY <1>2 DEF Coalesced, CanMerge, IsFree, heapEnd
    <2>2. it \in Headers /\ next[it] = heapEnd /\ \A b \in Headers : b < it => ~CanMerge(b)
        BY DEF MergeDone, Inv, WalksProgress
    <2>3. /\ a \in Nat /\ it \in Nat /\ next[a] \in Nat /\ heapEnd \in Nat
          /\ a <= it \/ heapEnd <= a
          /\ a + 8 <= next[a] /\ next[a] <= heapEnd
        BY <2>2, Region DEF Inv, TypeOK, Tiled, SizeofHeapEntry
    <2>4. a < it
        BY <2>1, <2>2, <2>3
    <2> QED
        BY <2>2, <2>4
  <1> QED
      BY <1>1, <1>3, <1>4, <1>5 DEF Inv

-----------------------------------------------------------------------------
(* The invariant, and what follows from it in every reachable state. *)

\* A step that changes nothing keeps the invariant.
LEMMA StutterInv ==
    ASSUME Inv, UNCHANGED vars
    PROVE  Inv'
  <1>1. Tiled' /\ Covered' /\ Aligned' /\ ReservedAreLive' /\ LargeEnough'
      BY SameList DEF vars
  <1>2. TypeOK'
      BY DEF vars, Inv, TypeOK, Headers, heapEnd
  <1>3. WalksProgress'
      BY DEF vars, Inv, WalksProgress, Headers, Fits, Size, IsFree, count, CanMerge, nullptr
  <1>4. Coalesced'
      BY DEF vars, Inv, Coalesced, Headers, IsFree, heapEnd
  <1> QED
      BY <1>1, <1>2, <1>3, <1>4 DEF Inv

\* Every step keeps Inv: one lemma for each action.
LEMMA NextInv == Inv /\ [Next]_vars => Inv'
  <1> SUFFICES ASSUME Inv, [Next]_vars PROVE Inv'
      OBVIOUS
  <1>1. CASE \E n \in Requests : CallMalloc(n)
      BY <1>1, CallMallocInv
  <1>2. CASE \E p \in DOMAIN live : CallFree(p)
      BY <1>2, CallFreeInv
  <1>3. CASE Scan
      BY <1>3, ScanInv
  <1>4. CASE MallocFail
      BY <1>4, MallocFailInv
  <1>5. CASE Reserve
      BY <1>5, ReserveInv
  <1>6. CASE Merge
      BY <1>6, MergeInv
  <1>7. CASE MergeSkip
      BY <1>7, MergeSkipInv
  <1>8. CASE MergeDone
      BY <1>8, MergeDoneInv
  <1>9. CASE UNCHANGED vars
      BY <1>9, StutterInv
  <1> QED
      BY <1>1, <1>2, <1>3, <1>4, <1>5, <1>6, <1>7, <1>8, <1>9 DEF Next, Internal

\* Inv holds in every reachable state of the heap.
THEOREM Invariance == Spec => []Inv
  <1>1. Init => Inv
      BY InitInv
  <1>2. Inv /\ [Next]_vars => Inv'
      BY NextInv
  <1> QED
      BY <1>1, <1>2, PTL DEF Spec

\* Every variable of the heap keeps its type.
THEOREM TypeCorrect == Spec => []TypeOK
  <1>1. Inv => TypeOK
      BY DEF Inv
  <1> QED
      BY <1>1, Invariance, PTL

\* Whatever the size of the region and the order of calls, the entries that
\* malloc() splits and free() merges tile the region without gap or overlap.
THEOREM ListIsTiling == Spec => [](Tiled /\ Covered)
  <1>1. Inv => Tiled /\ Covered
      BY DEF Inv
  <1> QED
      BY <1>1, Invariance, PTL

\* In a tiling, blocks of different reserved entries cannot overlap.
LEMMA InvBlocksDisjoint == Inv => BlocksDisjoint
  <1> SUFFICES ASSUME Inv, NEW p \in DOMAIN live
               PROVE  /\ heap + 8 <= p /\ p + live[p] <= heapEnd
                      /\ p % 4 = 0
                      /\ \A q \in DOMAIN live : q = p \/ p + live[p] <= HeaderOf(q)
                                                     \/ q + live[q] <= HeaderOf(p)
                      /\ \A a \in Headers : a + 8 <= p \/ p + live[p] <= a
      BY DEF BlocksDisjoint, SizeofHeapEntry
  <1> DEFINE h(q) == q - 8
  <1>1. \A q \in DOMAIN live : /\ q \in Nat /\ live[q] \in Nat
                               /\ h(q) \in Headers /\ h(q) \in Nat /\ next[h(q)] \in Nat
                               /\ live[q] <= next[h(q)] - h(q) - 8
                               /\ HeaderOf(q) = h(q)
    <2> TAKE q \in DOMAIN live
    <2>1. q \in Nat /\ live[q] \in Nat
        BY DEF Inv, TypeOK
    <2>2. h(q) \in Headers /\ live[q] <= next[h(q)] - h(q) - 8 /\ HeaderOf(q) = h(q)
        BY DEF Inv, LargeEnough, Size, HeaderOf, SizeofHeapEntry
    <2> QED
        BY <2>1, <2>2 DEF Inv, TypeOK
  <1>2. \A a, b \in Headers : /\ a \in Nat /\ b \in Nat /\ next[a] \in Nat
                              /\ heap <= a /\ next[a] <= heapEnd /\ a % 4 = 0
                              /\ (b <= a \/ next[a] <= b)
      BY DEF Inv, TypeOK, Tiled, Aligned
  <1>3. heap + 8 <= p /\ p + live[p] <= heapEnd
      BY <1>1, <1>2, Region
  <1>4. p % 4 = 0
    <2>1. h(p) % 4 = 0 /\ h(p) \in Nat /\ p = h(p) + 8
        BY <1>1, <1>2
    <2> HIDE DEF h
    <2> QED
        BY <2>1
  <1>5. ASSUME NEW q \in DOMAIN live, q # p
        PROVE  p + live[p] <= HeaderOf(q) \/ q + live[q] <= HeaderOf(p)
    <2>1. h(p) # h(q)
        BY <1>1, <1>5
    <2>2. next[h(p)] <= h(q) \/ next[h(q)] <= h(p)
        BY <2>1, <1>1, <1>2
    <2> QED
        BY <2>2, <1>1
  <1>6. ASSUME NEW a \in Headers
        PROVE  a + 8 <= p \/ p + live[p] <= a
    <2>1. a <= h(p) \/ next[h(p)] <= a
        BY <1>1, <1>2
    <2> QED
        BY <2>1, <1>1, <1>2
  <1> QED
      BY <1>3, <1>4, <1>5, <1>6

\* Blocks handed out by malloc() never overlap each other or a list header.
THEOREM Disjointness == Spec => []BlocksDisjoint
  <1>1. Inv => BlocksDisjoint
      BY InvBlocksDisjoint
  <1> QED
      BY <1>1, Invariance, PTL

\* free() leaves no two neighbours free.
THEOREM Coalescing == Spec => []Coalesced
  <1>1. Inv => Coalesced
      BY DEF Inv
  <1> QED
      BY <1>1, Invariance, PTL

\* Two entries of a list without reserved ones would be free neighbours.
LEMMA InvEmptyHeapIsWhole == Inv => EmptyHeapIsWhole
  <1> SUFFICES ASSUME Inv, pc # "merge", DOMAIN live = {}
               PROVE  next = [a \in {heap} |-> heapEnd]
      BY DEF EmptyHeapIsWhole
  <1>1. reserved = {}
      BY DEF Inv, ReservedAreLive
  <1>2. \A a \in Headers : next[a] = heapEnd
      BY <1>1 DEF Inv, Coalesced, IsFree
  <1>3. \A a \in Headers : a = heap
    <2> TAKE a \in Headers
    <2>1. /\ heap \in Headers /\ a \in Nat /\ heap \in Nat /\ heapEnd \in Nat
          /\ heap <= a /\ a + 8 <= heapEnd /\ (a <= heap \/ heapEnd <= a)
        BY <1>2, Region DEF Inv, TypeOK, Tiled, SizeofHeapEntry
    <2> QED
        BY <2>1
  <1>4. Headers = {heap}
      BY <1>3 DEF Inv, Tiled
  <1> QED
      BY <1>2, <1>4 DEF Inv, TypeOK, Headers

\* When every block was given back the heap is as HeapInit() left it.
THEOREM Reclaim == Spec => []EmptyHeapIsWhole
  <1>1. Inv => EmptyHeapIsWhole
      BY InvEmptyHeapIsWhole
  <1> QED
      BY <1>1, Invariance, PTL

-----------------------------------------------------------------------------
(* What a step may do. *)

\* When the walk of malloc() is over, found is a smallest entry that fits.
LEMMA WalkDone ==
    ASSUME Inv, pc = "scan", it = heapEnd
    PROVE  \A a \in Headers : Fits(a) => /\ found # nullptr
                                         /\ found \in Headers /\ Fits(found)
                                         /\ Size(found) <= Size(a)
  <1>1. \A a \in Headers : a < it
    <2> TAKE a \in Headers
    <2>1. a \in Nat /\ next[a] \in Nat /\ a + 8 <= next[a] /\ next[a] <= heapEnd
        BY DEF Inv, TypeOK, Tiled, SizeofHeapEntry
    <2> QED
        BY <2>1, Region
  <1> QED
      BY <1>1 DEF Inv, WalksProgress

\* The pointer Reserve() returns was not held by a caller before.
LEMMA ReserveFresh ==
    ASSUME Inv, Reserve
    PROVE  /\ DataPtr(found) \notin DOMAIN live
           /\ HeaderOf(DataPtr(found)) = found
           /\ DOMAIN live' = DOMAIN live \cup {DataPtr(found)}
           /\ live'[DataPtr(found)] = req
           /\ \A p \in DOMAIN live : live'[p] = live[p]
  <1>1. found \in Nat /\ found \notin reserved
      BY ReserveFacts DEF IsFree
  <1>2. HeaderOf(DataPtr(found)) = found
      BY <1>1 DEF HeaderOf, DataPtr, SizeofHeapEntry
  <1>3. DataPtr(found) \notin DOMAIN live
      BY <1>1, <1>2 DEF Inv, ReservedAreLive
  <1> QED
      BY <1>2, <1>3 DEF Reserve

\* malloc() returns a smallest free entry that fits, and fails only when there
\* is none.
THEOREM MallocIsBestFit == Spec => BestFit
  <1>1. ASSUME Inv, [Next]_vars, pc = "scan", pc' = "idle", NEW a \in Headers, Fits(a)
        PROVE  \E p \in DOMAIN live' \ DOMAIN live :
                    /\ HeaderOf(p) \in Headers
                    /\ Fits(HeaderOf(p))
                    /\ Size(HeaderOf(p)) <= Size(a)
    <2>1. MallocFail \/ Reserve
        BY <1>1 DEF Next, Internal, CallMalloc, CallFree, Scan, Merge, MergeSkip, MergeDone, vars
    <2>2. it = heapEnd
        BY <2>1 DEF MallocFail, Reserve
    <2>3. /\ found # nullptr /\ found \in Headers /\ Fits(found)
          /\ Size(found) <= Size(a)
        BY <1>1, <2>2, WalkDone
    <2>4. Reserve
        BY <2>1, <2>3 DEF MallocFail
    <2> QED
        BY <1>1, <2>3, <2>4, ReserveFresh
  <1>2. Inv /\ [Next]_vars =>
           [pc = "scan" /\ pc' = "idle" =>
              \A a \in Headers : Fits(a) =>
                \E p \in DOMAIN live' \ DOMAIN live :
                    /\ HeaderOf(p) \in Headers
                    /\ Fits(HeaderOf(p))
                    /\ Size(HeaderOf(p)) <= Size(a)]_vars
      BY <1>1
  <1> QED
      BY <1>2, Invariance, PTL DEF Spec, BestFit

\* The entry of a block that stays allocated keeps its end.
LEMMA StepKeepsBlocks ==
    ASSUME Inv, [Next]_vars, NEW p \in DOMAIN live, p \in DOMAIN live'
    PROVE  live'[p] = live[p] /\ next'[HeaderOf(p)] = next[HeaderOf(p)]
  <1>1. HeaderOf(p) \in reserved /\ HeaderOf(p) \in Headers
      BY DEF Inv, ReservedAreLive, LargeEnough
  <1>2. CASE Reserve
    <2>1. found \in Headers /\ found # HeaderOf(p)
        BY <1>1, <1>2, ReserveFacts DEF IsFree
    <2>2. next'[HeaderOf(p)] = next[HeaderOf(p)]
      <3>1. CASE Splits(found, count)
          BY <1>1, <1>2, <2>1, <3>1, SplitFacts
      <3>2. CASE ~Splits(found, count)
          BY <1>2, <3>2 DEF Reserve
      <3> QED
          BY <3>1, <3>2
    <2> QED
        BY <1>2, <2>2, ReserveFresh
  <1>3. CASE Merge
    <2>1. HeaderOf(p) # it /\ HeaderOf(p) # next[it]
        BY <1>1, <1>3, MergeFacts
    <2> QED
        BY <2>1, <1>1, <1>3, MergeFacts DEF Merge
  <1>4. CASE \E q \in DOMAIN live : CallFree(q)
      BY <1>4 DEF CallFree
  <1>5. CASE UNCHANGED <<next, live>>
      BY <1>5
  <1> QED
      BY <1>2, <1>3, <1>4, <1>5
      DEF Next, Internal, CallMalloc, Scan, MallocFail, MergeSkip, MergeDone, vars

\* No call changes the place or the size of a block somebody holds.
THEOREM BlocksAreStable == Spec => BlocksStable
  <1>1. Inv /\ [Next]_vars =>
          [\A p \in DOMAIN live \cap DOMAIN live' :
              /\ live'[p] = live[p]
              /\ next'[HeaderOf(p)] = next[HeaderOf(p)]]_vars
      BY StepKeepsBlocks
  <1> QED
      BY <1>1, Invariance, PTL DEF Spec, BlocksStable

-----------------------------------------------------------------------------
(* The heap implements the pool of blocks of module BlockPool. *)

\* The blocks of the pool are the same after a step that keeps live.
LEMMA SameBlocks ==
    ASSUME Inv, [Next]_vars, live' = live
    PROVE  grantedBlocks' = grantedBlocks
  <1>1. \A p \in DOMAIN live : next'[HeaderOf(p)] = next[HeaderOf(p)]
      BY StepKeepsBlocks
  <1> QED
      BY <1>1 DEF grantedBlocks, Size, HeaderOf, SizeofHeapEntry

\* A failing malloc() really had no room: a range without blocks lies in one
\* free entry, because free entries are never neighbours.
LEMMA FailRefuses ==
    ASSUME Inv, MallocFail
    PROVE  Pool!Refuse(req)
  <1>1. pendingRequest = {req} /\ pendingRequest' = {}
      BY DEF MallocFail, Return, pendingRequest
  <1>2. grantedBlocks' = grantedBlocks
      BY SameBlocks DEF MallocFail, Next, Internal
  <1>3. ASSUME NEW from \in heap..heapEnd, Pool!Unused(from, from + 8 + req)
        PROVE  FALSE
    <2>1. /\ from \in Nat /\ req \in Nat /\ heap \in Nat /\ heapEnd \in Nat
          /\ heap <= from /\ from + 8 + req <= heapEnd
        BY <1>3, Region DEF Pool!Unused, Inv, TypeOK
    <2>2. \A p \in DOMAIN live : \/ from + 8 + req <= HeaderOf(p)
                                 \/ p + Size(HeaderOf(p)) <= from
        BY <1>3 DEF Pool!Unused, grantedBlocks, HeaderOf, SizeofHeapEntry
    <2>3. \A b \in reserved : from + 8 + req <= b \/ next[b] <= from
      <3> TAKE b \in reserved
      <3>1. PICK p \in DOMAIN live : b = HeaderOf(p)
          BY DEF Inv, ReservedAreLive
      <3>2. b \in Nat /\ next[b] \in Nat /\ p \in Nat /\ b = p - 8
          BY <3>1 DEF Inv, TypeOK, HeaderOf, SizeofHeapEntry
      <3>3. p + Size(HeaderOf(p)) = next[b]
          BY <3>1, <3>2 DEF Size, SizeofHeapEntry
      <3> QED
          BY <3>1, <3>3, <2>2
    <2>4. PICK a \in Headers : a <= from /\ from < next[a]
        BY <2>1 DEF Inv, Covered
    <2>5. /\ a \in Nat /\ next[a] \in Nat /\ a + 8 <= next[a] /\ next[a] <= heapEnd
          /\ next[a] \in Headers \cup {heapEnd}
        BY DEF Inv, TypeOK, Tiled, SizeofHeapEntry
    <2>6. a \notin reserved
        BY <2>1, <2>3, <2>4, <2>5
    <2>7. from + 8 + req <= next[a]
      <3>1. CASE next[a] = heapEnd
          BY <3>1, <2>1
      <3>2. CASE next[a] # heapEnd
        <4>1. next[a] \in Headers /\ next[a] \in reserved
            BY <3>2, <2>5, <2>6 DEF MallocFail, Inv, Coalesced, IsFree
        <4>2. next[next[a]] \in Nat /\ next[a] <= next[next[a]]
            BY <4>1, <2>5 DEF Inv, TypeOK, Tiled, SizeofHeapEntry
        <4> QED
            BY <4>1, <4>2, <2>1, <2>3, <2>4, <2>5
      <3> QED
          BY <3>1, <3>2
    <2>8. Size(a) \in Nat /\ req <= Size(a)
        BY <2>1, <2>4, <2>5, <2>7 DEF Size, SizeofHeapEntry
    <2>9. Size(a) % 4 = 0
      <3>1. a % 4 = 0 /\ next[a] % 4 = 0
          BY <2>5, Region DEF Inv, Aligned
      <3>2. \A x, y \in Nat : x % 4 = 0 /\ y % 4 = 0 => (x - y - 8) % 4 = 0
          BY AlignedSum
      <3>3. (next[a] - a - 8) % 4 = 0
          BY <3>1, <3>2, <2>5
      <3> QED
          BY <3>3 DEF Size, SizeofHeapEntry
    <2>10. Fits(a)
      <3>1. count <= Size(a)
          BY <2>1, <2>8, <2>9, RoundUpLeast DEF count
      <3>2. count \in Nat
          BY <2>1, RoundUpFacts DEF count
      <3> QED
          BY <3>1, <3>2, <2>6, <2>8 DEF Fits, IsFree
    <2> QED
        BY <2>10, WalkDone DEF MallocFail
  <1> QED
      BY <1>1, <1>2, <1>3 DEF Pool!Refuse, SizeofHeapEntry

\* A successful malloc() grants a block no other block overlaps.
LEMMA ReserveGrants ==
    ASSUME Inv, Reserve
    PROVE  /\ Pool!Grant(req, DataPtr(found))
           /\ DataPtr(found) \in heap..heapEnd
  <1> DEFINE p == DataPtr(found)
  <1>1. pendingRequest = {req} /\ pendingRequest' = {}
      BY DEF Reserve, Return, pendingRequest
  <1>2. /\ found \in Headers /\ found \in Nat /\ found \notin reserved
        /\ next[found] \in Nat /\ next[found] <= heapEnd /\ heap <= found
        /\ p + count <= next[found] /\ count \in Nat
      BY ReserveFacts DEF IsFree
  <1>3. /\ p \notin DOMAIN live /\ HeaderOf(p) = found
        /\ DOMAIN live' = DOMAIN live \cup {p} /\ live'[p] = req
        /\ \A q \in DOMAIN live : live'[q] = live[q]
      BY ReserveFresh
  <1>4. Inv'
      BY ReserveInv
  <1>5. /\ p \in Nat /\ p = found + 8 /\ p - 8 = found
      BY <1>2 DEF DataPtr, SizeofHeapEntry
  <1>6. p \in heap..heapEnd
      BY <1>2, <1>5, Region
  <1>7. /\ DOMAIN grantedBlocks' = DOMAIN grantedBlocks \cup {p}
        /\ \A q \in DOMAIN grantedBlocks : grantedBlocks'[q] = grantedBlocks[q]
        /\ p \notin DOMAIN grantedBlocks
    <2>1. \A q \in DOMAIN live : next'[HeaderOf(q)] = next[HeaderOf(q)]
        BY <1>3, StepKeepsBlocks DEF Next, Internal
    <2> QED
        BY <2>1, <1>3 DEF grantedBlocks, Size, HeaderOf, SizeofHeapEntry
  <1>8. next'[found] \in Nat /\ next'[found] <= next[found] /\ found \in Headers'
    <2>1. CASE Splits(found, count)
        BY <2>1, <1>2, SplitFacts
    <2>2. CASE ~Splits(found, count)
        BY <2>2, <1>2 DEF Reserve, Headers
    <2> QED
        BY <2>1, <2>2
  <1>9. grantedBlocks'[p] = next'[found] - found - 8
    <2>1. grantedBlocks' = [q \in DOMAIN live' |-> next'[q - 8] - (q - 8) - 8]
        BY DEF grantedBlocks, Size, HeaderOf, SizeofHeapEntry
    <2> QED
        BY <2>1, <1>3, <1>5
  <1>10. grantedBlocks'[p] >= req
    <2>1. \A q \in DOMAIN live' : live'[q] <= next'[q - 8] - (q - 8) - 8
        BY <1>4 DEF Inv, LargeEnough, Size, HeaderOf, SizeofHeapEntry
    <2>2. req <= next'[found] - found - 8
        BY <2>1, <1>3, <1>5
    <2>3. req \in Nat
        BY DEF Inv, TypeOK
    <2> QED
        BY <2>2, <2>3, <1>2, <1>8, <1>9
  <1>11. Pool!Unused(found, next'[found])
    <2>1. heap <= found /\ next'[found] <= heapEnd
        BY <1>2, <1>8, Region
    <2>2. ASSUME NEW q \in DOMAIN live
          PROVE  next'[found] <= q - 8 \/ q + grantedBlocks[q] <= found
      <3>1. /\ HeaderOf(q) \in Headers /\ HeaderOf(q) # found
            /\ q \in Nat /\ HeaderOf(q) = q - 8 /\ HeaderOf(q) \in Nat
            /\ next[HeaderOf(q)] \in Nat
          BY <1>2 DEF Inv, TypeOK, LargeEnough, ReservedAreLive, HeaderOf, SizeofHeapEntry
      <3>2. q + grantedBlocks[q] = next[HeaderOf(q)]
          BY <3>1 DEF grantedBlocks, Size, SizeofHeapEntry
      <3>3. next[found] <= HeaderOf(q) \/ next[HeaderOf(q)] <= found
        <4>1. /\ found <= HeaderOf(q) \/ next[HeaderOf(q)] <= found
              /\ HeaderOf(q) <= found \/ next[found] <= HeaderOf(q)
            BY <1>2, <3>1 DEF Inv, Tiled
        <4> QED
            BY <4>1, <3>1, <1>2
      <3> QED
          BY <3>1, <3>2, <3>3, <1>2, <1>8
    <2> QED
        BY <2>1, <2>2 DEF Pool!Unused, grantedBlocks, SizeofHeapEntry
  <1>12. Pool!Unused(p - 8, p + grantedBlocks'[p])
    <2>1. p + grantedBlocks'[p] = next'[found]
        BY <1>2, <1>5, <1>8, <1>9
    <2> QED
        BY <2>1, <1>5, <1>11
  <1> QED
      BY <1>1, <1>6, <1>7, <1>10, <1>12 DEF Pool!Grant, SizeofHeapEntry

\* malloc() and free() implement the pool: every step of the heap is a step of
\* BlockPool or leaves the pool as it is.
THEOREM HeapImplementsPool == Spec => ImplementsPool
  <1>1. Init => Pool!PoolInit
      BY DEF Init, Pool!PoolInit, pendingRequest, grantedBlocks
  <1>2. ASSUME Inv, [Next]_vars
        PROVE  [Pool!PoolNext]_(Pool!poolVars)
    <2>1. CASE \E n \in Requests : CallMalloc(n)
      <3>1. PICK n \in Requests : CallMalloc(n)
          BY <2>1
      <3>2. grantedBlocks' = grantedBlocks
          BY <3>1, <1>2, SameBlocks DEF CallMalloc
      <3>3. Pool!Ask(n)
          BY <3>1, <3>2 DEF Pool!Ask, CallMalloc, pendingRequest
      <3> QED
          BY <3>3 DEF Pool!PoolNext
    <2>2. CASE \E p \in DOMAIN live : CallFree(p)
      <3>1. PICK p \in DOMAIN live : CallFree(p)
          BY <2>2
      <3>2. pendingRequest = {} /\ pendingRequest' = {}
          BY <3>1 DEF CallFree, pendingRequest
      <3>3. grantedBlocks' = [q \in DOMAIN grantedBlocks \ {p} |-> grantedBlocks[q]]
          BY <3>1 DEF CallFree, grantedBlocks, Size, HeaderOf, SizeofHeapEntry
      <3>4. Pool!Release(p)
          BY <3>2, <3>3 DEF Pool!Release
      <3> QED
          BY <3>1, <3>4 DEF Pool!PoolNext, grantedBlocks
    <2>3. CASE MallocFail
      <3>1. Pool!Refuse(req) /\ req \in Requests
          BY <2>3, <1>2, FailRefuses DEF Inv, TypeOK, MallocFail
      <3> QED
          BY <3>1 DEF Pool!PoolNext
    <2>4. CASE Reserve
      <3>1. /\ Pool!Grant(req, DataPtr(found)) /\ DataPtr(found) \in heap..heapEnd
            /\ req \in Requests
          BY <2>4, <1>2, ReserveGrants DEF Inv, TypeOK, Reserve
      <3> QED
          BY <3>1 DEF Pool!PoolNext
    <2>5. CASE Scan \/ Merge \/ MergeSkip \/ MergeDone \/ UNCHANGED vars
      <3>1. grantedBlocks' = grantedBlocks
          BY <2>5, <1>2, SameBlocks DEF Scan, Merge, MergeSkip, MergeDone, vars
      <3>2. pendingRequest' = pendingRequest
          BY <2>5 DEF Scan, Merge, MergeSkip, MergeDone, Return, vars, pendingRequest
      <3> QED
          BY <3>1, <3>2 DEF Pool!poolVars
    <2> QED
        BY <1>2, <2>1, <2>2, <2>3, <2>4, <2>5 DEF Next, Internal
  <1> QED
      BY <1>1, <1>2, Invariance, PTL DEF Spec, ImplementsPool, Pool!Spec

=============================================================================
