------------------------------ MODULE BlockPool ------------------------------
(***************************************************************************)
(* What malloc() and free() promise to the boot loader, without a list: a  *)
(* request is answered by a block that overlaps no other block, or refused *)
(* when there is no room for it anywhere in the region.                    *)
(***************************************************************************)
EXTENDS Integers

CONSTANTS
    Lo, Hi,         \* the region is Lo .. Hi - 1
    HeaderSize,     \* bytes of bookkeeping in front of every block
    Requests        \* the sizes that are asked for

VARIABLES
    pending,        \* the request being served: {} or a singleton
    granted         \* block -> the bytes that belong to it

poolVars == <<pending, granted>>

\* The bytes [from, to) are inside the region and free of blocks.
Unused(from, to) ==
    /\ Lo <= from /\ to <= Hi
    /\ \A p \in DOMAIN granted : to <= p - HeaderSize \/ p + granted[p] <= from

PoolInit ==
    /\ pending = {}
    /\ granted = [p \in {} |-> 0]

Ask(n) ==
    /\ pending = {}
    /\ pending' = {n}
    /\ UNCHANGED granted

Grant(n, p) ==
    /\ pending = {n}
    /\ pending' = {}
    /\ p \notin DOMAIN granted
    /\ DOMAIN granted' = DOMAIN granted \cup {p}
    /\ \A q \in DOMAIN granted : granted'[q] = granted[q]
    /\ granted'[p] >= n
    /\ Unused(p - HeaderSize, p + granted'[p])

\* A refusal means that the request and its header fit nowhere.
Refuse(n) ==
    /\ pending = {n}
    /\ pending' = {}
    /\ \A from \in Lo..Hi : ~Unused(from, from + HeaderSize + n)
    /\ UNCHANGED granted

Release(p) ==
    /\ pending = {}
    /\ granted' = [q \in DOMAIN granted \ {p} |-> granted[q]]
    /\ UNCHANGED pending

PoolNext ==
    \/ \E n \in Requests : Ask(n) \/ Refuse(n) \/ (\E p \in Lo..Hi : Grant(n, p))
    \/ \E p \in DOMAIN granted : Release(p)

Spec == PoolInit /\ [][PoolNext]_poolVars
=============================================================================
