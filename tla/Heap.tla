-------------------------------- MODULE Heap --------------------------------
(***************************************************************************)
(* The heap of the second stage boot loader (stage2/heap.cpp): a list of   *)
(* headers threaded through one region of memory, best fit allocation,     *)
(* splitting on malloc() and merging of neighbours on free().              *)
(*                                                                         *)
(* Addresses and sizes are in bytes.  A header is kept as an address in    *)
(* the domain of next; merging an entry into its predecessor turns its     *)
(* header into payload bytes, so it leaves that domain.  The two list      *)
(* walks (the search of malloc() and the merge pass of free()) are modelled*)
(* one iteration per step, so nothing is assumed about where they end.     *)
(***************************************************************************)
EXTENDS Integers

CONSTANTS
    Base,       \* heapPtr, the first byte after the boot stack
    MaxSize,    \* heapMaxSize
    Requests    \* the byte counts the callers ask malloc() for

SizeofHeapEntry == 8        \* static_assert(sizeof(HeapEntry) == 8)
nullptr == 0

\* The base is a word aligned address above 0 and there is room for a header.
\* Every request of the boot loader is far below 2^31 (the largest is one byte
\* more than bootConfigMaxSize), so rounding it to a word does not wrap.
ASSUME HeapAssumption ==
    /\ Base \in Nat /\ Base > 0 /\ Base % 4 = 0
    /\ MaxSize \in Nat /\ MaxSize >= SizeofHeapEntry
    /\ Requests \subseteq Nat
    /\ \A n \in Requests : n < 2147483644

VARIABLES
    next,       \* header address -> address of the next header (or heapEnd)
    reserved,   \* the headers whose Reserved flag is set
    pc,         \* "idle" (in the caller), "scan" (in malloc), "merge" (in free)
    it,         \* the loop variable of malloc() and of free()
    found,      \* the best candidate of malloc() so far
    req,        \* the size malloc() was called with
    live        \* history: pointer the callers hold -> size they asked for

vars == <<next, reserved, pc, it, found, req, live>>

heap == Base
heapEnd == Base + (MaxSize - (MaxSize % 4))

Headers == DOMAIN next

Size(a) == next[a] - a - SizeofHeapEntry
IsFree(a) == a \notin reserved
DataPtr(a) == a + SizeofHeapEntry
HeaderOf(p) == p - SizeofHeapEntry

\* Mutant: rounds down.
RoundDown(n) == n - (n % 4)

RoundUp(n) == IF n % 4 # 0 THEN n + (4 - (n % 4)) ELSE n
count == RoundUp(req)

\* Control goes back to the caller and the local variables are gone.
Return ==
    /\ pc' = "idle"
    /\ it' = heap
    /\ found' = nullptr
    /\ req' = 0

-----------------------------------------------------------------------------
(* HeapInit(): one free entry that spans the region. *)
Init ==
    /\ next = [a \in {heap} |-> heapEnd]
    /\ reserved = {}
    /\ pc = "idle"
    /\ it = heap
    /\ found = nullptr
    /\ req = 0
    /\ live = [p \in {} |-> 0]

(***************************************************************************)
(* malloc(count)                                                           *)
(***************************************************************************)
CallMalloc(n) ==
    /\ pc = "idle"
    /\ pc' = "scan"
    /\ req' = n
    /\ it' = heap
    /\ found' = nullptr
    /\ UNCHANGED <<next, reserved, live>>

\* Mutant: an entry of exactly the right size is passed over.
FitsLoosely(a) == IsFree(a) /\ Size(a) > count

Fits(a) == IsFree(a) /\ Size(a) >= count

\* Mutant: the first entry that fits.
FirstFit(a) == found = nullptr

Better(a) == found = nullptr \/ Size(a) < Size(found)

Scan ==
    /\ pc = "scan"
    /\ it # heapEnd
    /\ found' = IF Fits(it) /\ Better(it) THEN it ELSE found
    /\ it' = next[it]
    /\ UNCHANGED <<next, reserved, pc, req, live>>

MallocFail ==
    /\ pc = "scan"
    /\ it = heapEnd
    /\ found = nullptr
    /\ Return
    /\ UNCHANGED <<next, reserved, live>>

\* Mutant: splits although there is no room for the header of the rest.
SplitsTightly(a, n) == Size(a) - n >= 4

\* HeapEntry::Reserve splits only when a header and a word are left over.
Splits(a, n) == Size(a) - n >= SizeofHeapEntry + 4

SplitOff(a, n) ==
    LET ent == DataPtr(a) + n
    IN  [b \in Headers \cup {ent} |-> IF b = a THEN ent
                                      ELSE IF b = ent THEN next[a]
                                      ELSE next[b]]

Reserve ==
    /\ pc = "scan"
    /\ it = heapEnd
    /\ found # nullptr
    /\ Fits(found)
    /\ next' = IF Splits(found, count) THEN SplitOff(found, count) ELSE next
    /\ reserved' = reserved \cup {found}
    /\ live' = [p \in DOMAIN live \cup {DataPtr(found)} |->
                    IF p = DataPtr(found) THEN req ELSE live[p]]
    /\ Return

(***************************************************************************)
(* free(ptr).  free(nullptr) returns at once and is a stuttering step.     *)
(***************************************************************************)
CallFree(p) ==
    /\ pc = "idle"
    /\ reserved' = reserved \ {HeaderOf(p)}
    /\ live' = [q \in DOMAIN live \ {p} |-> live[q]]
    /\ it' = heap
    /\ pc' = "merge"
    /\ UNCHANGED <<next, found, req>>

Absorb(a) ==
    [b \in Headers \ {next[a]} |-> IF b = a THEN next[next[a]] ELSE next[b]]

\* Mutants: only the first of the two entries has to be free; the last entry
\* is never merged.
CanMergeFirstFree(a) == IsFree(a)
CanMergeNotLast(a) == IsFree(a) /\ IsFree(next[a]) /\ next[next[a]] # heapEnd

CanMerge(a) == IsFree(a) /\ IsFree(next[a])

\* Mutant: free() returns after the first merge.
MergeOnce ==
    /\ pc = "merge"
    /\ next[it] # heapEnd
    /\ CanMerge(it)
    /\ next' = Absorb(it)
    /\ Return
    /\ UNCHANGED <<reserved, live>>

\* TryConsolidate() succeeded: the pass starts over from the first entry.
Merge ==
    /\ pc = "merge"
    /\ next[it] # heapEnd
    /\ CanMerge(it)
    /\ next' = Absorb(it)
    /\ it' = heap
    /\ UNCHANGED <<reserved, pc, found, req, live>>

\* Mutant: the walk starts over also when nothing was merged.
MergeSkipRestarts ==
    /\ pc = "merge"
    /\ next[it] # heapEnd
    /\ ~CanMerge(it)
    /\ it' = heap
    /\ UNCHANGED <<next, reserved, pc, found, req, live>>

MergeSkip ==
    /\ pc = "merge"
    /\ next[it] # heapEnd
    /\ ~CanMerge(it)
    /\ it' = next[it]
    /\ UNCHANGED <<next, reserved, pc, found, req, live>>

MergeDone ==
    /\ pc = "merge"
    /\ next[it] = heapEnd
    /\ Return
    /\ UNCHANGED <<next, reserved, live>>

-----------------------------------------------------------------------------
Internal == Scan \/ MallocFail \/ Reserve \/ Merge \/ MergeSkip \/ MergeDone

Next ==
    \/ \E n \in Requests : CallMalloc(n)
    \/ \E p \in DOMAIN live : CallFree(p)
    \/ Internal

Spec == Init /\ [][Next]_vars

\* The boot loader is one thread with nothing to wait for inside the heap: a
\* call that was entered keeps executing.
FairSpec == Spec /\ WF_vars(Internal)

-----------------------------------------------------------------------------
(***************************************************************************)
(* Properties                                                              *)
(***************************************************************************)

\* The type of each variable of the heap.
TypeOK ==
    /\ Headers \subseteq Nat
    /\ next \in [Headers -> Nat]
    /\ reserved \subseteq Headers
    /\ pc \in {"idle", "scan", "merge"}
    /\ it \in Headers \cup {heapEnd}
    /\ found \in Nat
    /\ req \in Nat /\ (pc = "scan" => req \in Requests)
    /\ DOMAIN live \subseteq Nat
    /\ live \in [DOMAIN live -> Nat]

\* Following next from any entry never leaves the region, never skips an entry
\* and never lands inside one: splitting and merging keep the entries a tiling
\* of the region with no gap and no overlap.
Tiled ==
    /\ heap \in Headers
    /\ \A a \in Headers :
        /\ heap <= a
        /\ a + SizeofHeapEntry <= next[a]
        /\ next[a] <= heapEnd
        /\ next[a] \in Headers \cup {heapEnd}
        /\ \A b \in Headers : b <= a \/ next[a] <= b

\* Every byte of the region belongs to an entry: no sequence of malloc() and
\* free() loses memory.
Covered ==
    \A x \in heap..(heapEnd - 1) : \E a \in Headers : a <= x /\ x < next[a]

\* The blocks the callers hold lie inside the heap, are word aligned, do not
\* overlap each other and contain no header of the list, so a caller that
\* stays inside what it asked for can damage neither.
BlocksDisjoint ==
    \A p \in DOMAIN live :
        /\ heap + SizeofHeapEntry <= p /\ p + live[p] <= heapEnd
        /\ p % 4 = 0
        /\ \A q \in DOMAIN live : q = p \/ p + live[p] <= HeaderOf(q) \/ q + live[q] <= HeaderOf(p)
        /\ \A a \in Headers : a + SizeofHeapEntry <= p \/ p + live[p] <= a

\* The Reserved flags are exactly the blocks the callers hold: nothing is
\* handed out twice, and nothing stays reserved after it was freed.
ReservedAreLive == reserved = {HeaderOf(p) : p \in DOMAIN live}

\* Outside of free() no two neighbouring entries are both free, so free space
\* is never kept in pieces that a larger request could not use.
Coalesced ==
    pc # "merge" =>
        \A a \in Headers : next[a] # heapEnd => ~(IsFree(a) /\ IsFree(next[a]))

\* Once the callers have given everything back the heap is again the one free
\* entry HeapInit() made, whatever the order of the calls was.
EmptyHeapIsWhole ==
    (pc # "merge" /\ DOMAIN live = {}) => next = [a \in {heap} |-> heapEnd]

\* The walks of malloc() and free() establish what they are written for: among
\* the entries already passed, found is the smallest free one that is large
\* enough, and no two neighbours are free.
WalksProgress ==
    /\ pc = "scan" =>
        /\ found # nullptr => found \in Headers /\ Fits(found)
        /\ \A b \in Headers : b < it /\ Fits(b) => found # nullptr /\ Size(found) <= Size(b)
    /\ pc = "merge" =>
        /\ it \in Headers
        /\ \A a \in Headers : a < it => ~CanMerge(a)

\* malloc() answers nullptr only when no free entry is large enough, and
\* otherwise takes the smallest one that is.
BestFit ==
    [][pc = "scan" /\ pc' = "idle" =>
        \A a \in Headers : Fits(a) =>
            \E p \in DOMAIN live' \ DOMAIN live :
                /\ HeaderOf(p) \in Headers
                /\ Fits(HeaderOf(p))
                /\ Size(HeaderOf(p)) <= Size(a)]_vars

\* No step shrinks, grows or moves a block somebody still holds.
BlocksStable ==
    [][\A p \in DOMAIN live \cap DOMAIN live' :
        /\ live'[p] = live[p]
        /\ next'[HeaderOf(p)] = next[HeaderOf(p)]]_vars

\* Every call returns: both walks reach heapEnd although free() starts its
\* walk over after every merge.
CallsReturn == pc # "idle" ~> pc = "idle"

\* Every header is on a word boundary.
Aligned == \A a \in Headers : a % 4 = 0

\* A block is at least as large as its holder asked for.
LargeEnough ==
    \A p \in DOMAIN live : HeaderOf(p) \in Headers /\ live[p] <= Size(HeaderOf(p))

\* The parts that together are inductive.
Inv ==
    /\ TypeOK
    /\ Tiled
    /\ Covered
    /\ Aligned
    /\ ReservedAreLive
    /\ LargeEnough
    /\ WalksProgress
    /\ Coalesced

-----------------------------------------------------------------------------
(***************************************************************************)
(* What the callers may rely on: the pool of blocks of module BlockPool.   *)
(***************************************************************************)
pendingRequest == IF pc = "scan" THEN {req} ELSE {}
grantedBlocks == [p \in DOMAIN live |-> Size(HeaderOf(p))]

Pool == INSTANCE BlockPool WITH
            Lo <- heap,
            Hi <- heapEnd,
            HeaderSize <- SizeofHeapEntry,
            pending <- pendingRequest,
            granted <- grantedBlocks

\* The list based heap implements the abstract pool of blocks.
ImplementsPool == Pool!Spec
=============================================================================
