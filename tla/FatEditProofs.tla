---------------------------- MODULE FatEditProofs ----------------------------
(***************************************************************************)
(* Theorems about FatEdit, for every size of the image and of its tables,  *)
(* all names and host files, with a kill at any step (CrashSpec): the      *)
(* links and the clusters of the image (Inv), and then the tree that it    *)
(* holds and what survives a kill (TreeInv).                               *)
(***************************************************************************)
EXTENDS FatEdit, Induction, SequenceTheorems, FiniteSetTheorems

\* Tables as the editor leaves them.
TableOK(t) ==
    /\ t \in [0..(FatEntries - 1) -> Links]
    /\ t[0] = EOC /\ t[1] = EOC

\* Directory entries that name a cluster, or one of the given clusters.
Leading(C) == {s \in Slots : IsEntry(s) => s.first \in C}
Used(t) == {c \in Clusters : t[c] # 0}

\* The contents of an image all of whose slots are in V.
Filled(V) == [Clusters -> [0..(SlotsPerCluster - 1) -> V]]

-----------------------------------------------------------------------------
(* Constants *)

LEMMA Sizes ==
    /\ FatEntries \in Nat /\ NumClusters \in Nat /\ NumClusters >= 1
    /\ NumClusters + 2 <= FatEntries /\ FatEntries < EOC /\ EOC \in Nat
    /\ SlotsPerCluster \in Nat /\ SlotsPerCluster >= 3
    /\ Root \in Clusters /\ NoCluster \notin Nat
    /\ Clusters \subseteq Nat /\ Clusters \subseteq 0..(FatEntries - 1)
    /\ \A c \in Clusters : c >= 2 /\ c < EOC
  BY FatEditAssumption DEF Clusters, EOC, Root, NoCluster

LEMMA LinkValues ==
    ASSUME NEW l \in Links
    PROVE  /\ l \in Nat
           /\ l < 2 <=> l = 0
           /\ l >= EOC <=> l = EOC
           /\ (l < 2 \/ l >= EOC) <=> l \notin Clusters
  BY Sizes, SMT DEF Links, EOC

\* The first free entry of a table is the entry of a cluster.
LEMMA FreeCluster ==
    ASSUME NEW t, TableOK(t), NEW c, c = FindFreeCluster(t), c # NoCluster
    PROVE  c \in Clusters /\ t[c] = 0
  <1> DEFINE free == {i \in 0..(NumClusters - 1) : t[i] = 0}
  <1>1. free # {} /\ c = Min(free)
      BY DEF FindFreeCluster
  <1>2. \A x \in free : x \in Nat
      BY Sizes
  <1>3. \E x \in free : \A y \in free : x <= y
      BY <1>1, <1>2, LeastNatural
  <1>4. c \in free
      BY <1>1, <1>3 DEF Min
  <1>5. c # 0 /\ c # 1
      BY <1>4 DEF TableOK, EOC
  <1> QED
      BY <1>4, <1>5, Sizes DEF Clusters

-----------------------------------------------------------------------------
(* Cluster chains *)

\* The walks a FileReader can make, and what one step of a walk does.
Walks == {w \in Seq(Clusters) : w # <<>>}
IsWalk(u, t, c) ==
    /\ u \in [0..FatEntries -> Walks] /\ u[0] = <<c>>
    /\ \A i \in 1..FatEntries : u[i] = NextCluster(t, u[i - 1])

LEMMA LastOf ==
    ASSUME NEW w \in Walks
    PROVE  Last(w) \in Clusters /\ Len(w) \in Nat \ {0} /\ Last(w) = w[Len(w)]
  <1>1. w \in Seq(Clusters) /\ w # <<>>
      BY DEF Walks
  <1>2. Len(w) \in Nat /\ Len(w) # 0
      BY <1>1, EmptySeq, LenProperties
  <1>3. Len(w) \in 1..Len(w)
      BY <1>2
  <1> QED
      BY <1>1, <1>2, <1>3, ElementOfSeq DEF Last

\* A walk goes on where the table has a link.
LEMMA NextOf ==
    ASSUME NEW t, TableOK(t), NEW w \in Walks
    PROVE  /\ t[Last(w)] \in Clusters => NextCluster(t, w) = Append(w, t[Last(w)])
           /\ t[Last(w)] \notin Clusters => NextCluster(t, w) = w
           /\ NextCluster(t, w) \in Walks
  <1>1. Last(w) \in 0..(FatEntries - 1)
      BY LastOf, Sizes
  <1>2. t[Last(w)] \in Links
      BY <1>1 DEF TableOK
  <1>3. PICK l \in Links : l = t[Last(w)]
      BY <1>2
  <1>4. (l < 2 \/ l >= EOC) <=> l \notin Clusters
      BY LinkValues
  <1>5. CASE l \in Clusters
    <2>1. NextCluster(t, w) = Append(w, l)
        BY <1>3, <1>4, <1>5 DEF NextCluster
    <2>2. Append(w, l) \in Seq(Clusters) /\ Append(w, l) # <<>>
        BY <1>5, AppendProperties DEF Walks
    <2> QED
        BY <1>3, <1>5, <2>1, <2>2 DEF Walks
  <1>6. CASE l \notin Clusters
      BY <1>3, <1>4, <1>6 DEF NextCluster
  <1> QED
      BY <1>5, <1>6

\* ChainOf is the end of such a walk.
LEMMA ChainWalk ==
    ASSUME NEW t, TableOK(t), NEW c \in Clusters
    PROVE  \E u : IsWalk(u, t, c) /\ ChainOf(t, c) = u[FatEntries]
  <1> DEFINE n == FatEntries
             F == [p \in Walks \X (1..n) |-> NextCluster(t, p[1])]
             E(g) == [i \in 0..n |-> IF i = 0 THEN <<c>> ELSE NextCluster(t, g[i - 1])]
             u == CHOOSE g : g = E(g)
  <1>1. n \in Nat
      BY Sizes
  <1>2. Keeps(F, n, Walks)
      BY NextOf DEF Keeps
  <1>3. <<c>> \in Walks
      BY DEF Walks
  <1>4. PICK f \in [0..n -> Walks] : IsHistory(f, n, <<c>>, F)
    <2> HIDE DEF F, n
    <2> QED
        BY <1>1, <1>2, <1>3, HistoryExists
  <1>5. f[0] = <<c>> /\ \A i \in 1..n : f[i] = NextCluster(t, f[i - 1])
    <2>1. ASSUME NEW i \in 1..n PROVE F[<<f[i - 1], i>>] = NextCluster(t, f[i - 1])
      <3>1. f[i - 1] \in Walks
          BY <1>1
      <3> QED
          BY <3>1
    <2> QED
        BY <1>4, <2>1 DEF IsHistory
  <1>6. f = E(f)
    <2>1. ASSUME NEW i \in 0..n PROVE f[i] = E(f)[i]
      <3>1. CASE i = 0
          BY <1>5, <3>1
      <3>2. CASE i # 0
        <4>1. i \in 1..n
            BY <1>1, <3>2
        <4> QED
            BY <1>5, <3>2, <4>1
      <3> QED
          BY <3>1, <3>2
    <2>2. DOMAIN f = 0..n /\ DOMAIN E(f) = 0..n
        OBVIOUS
    <2> QED
        BY <2>1, <2>2
  <1>7. u = E(u)
    <2> HIDE DEF E
    <2> QED
        BY <1>6, Zenon
  <1>8. ChainOf(t, c) = u[n]
      BY DEF ChainOf
  <1> HIDE DEF u
  <1>9. u[0] = <<c>> /\ \A i \in 1..n : u[i] = NextCluster(t, u[i - 1])
      BY <1>1, <1>7
  <1>10. \A i \in 0..n : u[i] \in Walks
    <2>1. ASSUME NEW i \in 1..n, u[i - 1] \in Walks PROVE u[i] \in Walks
        BY <1>9, <2>1, NextOf
    <2>2. Stays(u, n, Walks)
        BY <1>3, <1>9, <2>1 DEF Stays
    <2> HIDE DEF n
    <2> QED
        BY <1>1, <2>2, HistoryType
  <1>11. u \in [0..n -> Walks]
      BY <1>7, <1>10
  <1>12. IsWalk(u, t, c)
      BY <1>9, <1>11 DEF IsWalk
  <1> QED
      BY <1>8, <1>12

\* What holds of <<c>> and is kept by a step holds of the chain.
LEMMA ChainKeeps ==
    ASSUME NEW t, TableOK(t), NEW c \in Clusters, NEW V, <<c>> \in V,
           \A w \in Walks : w \in V => NextCluster(t, w) \in V
    PROVE  ChainOf(t, c) \in V /\ ChainOf(t, c) \in Walks
  <1>1. PICK u : IsWalk(u, t, c) /\ ChainOf(t, c) = u[FatEntries]
      BY ChainWalk
  <1>2. FatEntries \in Nat /\ FatEntries \in 0..FatEntries
      BY Sizes
  <1>3. Stays(u, FatEntries, V)
    <2>1. ASSUME NEW i \in 1..FatEntries, u[i - 1] \in V PROVE u[i] \in V
      <3>1. u[i - 1] \in Walks
          BY <1>1, <1>2 DEF IsWalk
      <3> QED
          BY <1>1, <2>1, <3>1 DEF IsWalk
    <2> QED
        BY <1>1, <2>1 DEF Stays, IsWalk
  <1>4. u[FatEntries] \in V
      BY <1>2, <1>3, HistoryType
  <1> QED
      BY <1>1, <1>2, <1>4 DEF IsWalk

\* Every chain of a table is a walk.
LEMMA ChainTyped ==
    ASSUME NEW t, TableOK(t), NEW c \in Clusters
    PROVE  ChainOf(t, c) \in Walks
  <1>1. <<c>> \in Walks
      BY DEF Walks
  <1> QED
      BY <1>1, NextOf, ChainKeeps

\* Links lead to entries in use.
Linked(t) == \A x \in Clusters : t[x] \in Clusters => t[x] \in Used(t)

\* So a chain that begins with a cluster in use consists of such.
LEMMA ChainUsed ==
    ASSUME NEW t, TableOK(t), Linked(t), NEW c \in Used(t)
    PROVE  ChainOf(t, c) \in Walks /\ \A k \in 1..Len(ChainOf(t, c)) : ChainOf(t, c)[k] \in Used(t)
  <1> DEFINE V == Seq(Used(t))
  <1>1. c \in Clusters
      BY DEF Used
  <1>2. <<c>> \in V
      OBVIOUS
  <1>3. ASSUME NEW w \in Walks, w \in V PROVE NextCluster(t, w) \in V
    <2>1. CASE t[Last(w)] \in Clusters
      <3>1. t[Last(w)] \in Used(t)
          BY <2>1, LastOf DEF Linked
      <3> QED
          BY <1>3, <2>1, <3>1, NextOf, AppendProperties
    <2> QED
        BY <1>3, <2>1, NextOf
  <1>4. ChainOf(t, c) \in V /\ ChainOf(t, c) \in Walks
    <2> HIDE DEF V
    <2> QED
        BY <1>1, <1>2, <1>3, ChainKeeps
  <1> QED
      BY <1>4, ElementOfSeq

\* p is the beginning of w.
Begins(p, w) == Len(p) <= Len(w) /\ \A k \in 1..Len(p) : w[k] = p[k]

\* The links of t are links of v too.
Extends(t, v) == \A x \in Clusters : t[x] \in Clusters => v[x] = t[x]

\* Then a chain in v is at least as long as it is in t.
LEMMA ChainGrows ==
    ASSUME NEW t, TableOK(t), NEW v, TableOK(v), Extends(t, v), NEW c \in Clusters
    PROVE  Begins(ChainOf(t, c), ChainOf(v, c))
  <1>1. PICK u : IsWalk(u, t, c) /\ ChainOf(t, c) = u[FatEntries]
      BY ChainWalk
  <1>2. PICK w : IsWalk(w, v, c) /\ ChainOf(v, c) = w[FatEntries]
      BY ChainWalk
  <1> DEFINE V == {i \in 0..FatEntries :
                    /\ Begins(u[i], w[i])
                    /\ u[i] = w[i] \/ t[Last(u[i])] \notin Clusters}
  <1>3. FatEntries \in Nat /\ FatEntries \in 0..FatEntries /\ 0 \in 0..FatEntries
      BY Sizes
  <1>4. 0 \in V
    <2>1. u[0] = w[0]
        BY <1>1, <1>2 DEF IsWalk
    <2>2. Len(u[0]) \in Nat
      <3>1. u[0] \in Walks
          BY <1>1, <1>3 DEF IsWalk
      <3> QED
          BY <3>1, LastOf
    <2> QED
        BY <1>3, <2>1, <2>2 DEF Begins
  <1>5. ASSUME NEW i \in 0..(FatEntries - 1), i \in V PROVE i + 1 \in V
    <2>1. i \in 0..FatEntries /\ i + 1 \in 1..FatEntries /\ i + 1 \in 0..FatEntries /\ (i + 1) - 1 = i
        BY <1>3
    <2>2. PICK a \in Walks : a = u[i]
        BY <1>1, <2>1 DEF IsWalk
    <2>3. PICK b \in Walks : b = w[i]
        BY <1>2, <2>1 DEF IsWalk
    <2>4. u[i + 1] = NextCluster(t, a) /\ w[i + 1] = NextCluster(v, b)
        BY <1>1, <1>2, <2>1, <2>2, <2>3 DEF IsWalk
    <2>5. Begins(a, b) /\ (a = b \/ t[Last(a)] \notin Clusters)
        BY <1>5, <2>2, <2>3
    <2>6. CASE t[Last(a)] \in Clusters
      <3>1. a = b /\ v[Last(a)] = t[Last(a)]
          BY <2>5, <2>6, LastOf DEF Extends
      <3>2. u[i + 1] = w[i + 1]
          BY <2>4, <2>6, <3>1, NextOf
      <3>3. NextCluster(t, a) \in Walks
          BY NextOf
      <3>4. Len(u[i + 1]) \in Nat
          BY <2>4, <3>3, LastOf
      <3> QED
          BY <2>1, <3>2, <3>4 DEF Begins
    <2>7. CASE t[Last(a)] \notin Clusters
      <3>1. u[i + 1] = a
          BY <2>4, <2>7, NextOf
      <3>2. Begins(b, NextCluster(v, b))
        <4>1. b \in Seq(Clusters) /\ Len(b) \in Nat
            BY LastOf DEF Walks
        <4>2. CASE v[Last(b)] \in Clusters
            BY <4>1, <4>2, NextOf, AppendProperties DEF Begins
        <4>3. CASE v[Last(b)] \notin Clusters
            BY <4>1, <4>3, NextOf DEF Begins
        <4> QED
            BY <4>2, <4>3
      <3>3. Begins(a, NextCluster(v, b))
        <4>1. /\ Len(a) \in Nat /\ Len(b) \in Nat
              /\ NextCluster(v, b) \in Walks /\ Len(NextCluster(v, b)) \in Nat
            BY LastOf, NextOf
        <4> QED
            BY <2>5, <3>2, <4>1 DEF Begins
      <3> QED
          BY <2>1, <2>4, <2>7, <3>1, <3>3
    <2> QED
        BY <2>6, <2>7
  <1>6. FatEntries \in V
    <2> HIDE DEF V
    <2> QED
        BY <1>3, <1>4, <1>5, UpTo
  <1> QED
      BY <1>1, <1>2, <1>6
-----------------------------------------------------------------------------
(* Slots of a chain *)

\* Where the slots along a chain lie.
LEMMA SlotsAre ==
    ASSUME NEW V, data \in Filled(V), NEW w \in Walks, NEW s, s = SlotsAlong(w)
    PROVE  /\ s \in Seq(V) /\ Len(s) = Len(w) * SlotsPerCluster
           /\ \A i \in 0..(Len(w) * SlotsPerCluster - 1) :
                /\ i \div SlotsPerCluster \in 0..(Len(w) - 1)
                /\ i % SlotsPerCluster \in 0..(SlotsPerCluster - 1)
                /\ s[i + 1] = data[w[(i \div SlotsPerCluster) + 1]][i % SlotsPerCluster]
  <1>1. PICK b \in Nat \ {0} : b = SlotsPerCluster
      BY Sizes
  <1>2. PICK l \in Nat \ {0} : l = Len(w)
      BY LastOf
  <1>3. PICK n \in Nat : n = l * b
      OBVIOUS
  <1>4. ASSUME NEW i \in 0..(n - 1)
        PROVE  i \div b \in 0..(l - 1) /\ i % b \in 0..(b - 1)
    <2>1. i \in Nat /\ i < n
        BY <1>3
    <2>2. PICK q : q = i \div b
        OBVIOUS
    <2>3. PICK r : r = i % b
        OBVIOUS
    <2>4. q < l
        BY <1>3, <2>1, <2>2, DivBelow
    <2>5. q \in Nat /\ r \in 0..(b - 1)
        BY <2>1, <2>2, <2>3, DivMod
    <2>6. q \in 0..(l - 1)
        BY <2>4, <2>5
    <2> QED
        BY <2>2, <2>3, <2>5, <2>6
  <1>5. ASSUME NEW i \in 0..(n - 1)
        PROVE  data[w[(i \div b) + 1]][i % b] \in V
    <2>1. PICK q \in 0..(l - 1) : q = i \div b
        BY <1>4
    <2>2. PICK r \in 0..(b - 1) : r = i % b
        BY <1>4
    <2>3. w \in Seq(Clusters) /\ q + 1 \in 1..Len(w)
        BY <1>2, <2>1 DEF Walks
    <2>4. w[q + 1] \in Clusters
        BY <2>3, ElementOfSeq
    <2> QED
        BY <1>1, <2>1, <2>2, <2>4 DEF Filled
  <1>6. s = [i \in 1..n |-> data[w[((i - 1) \div b) + 1]][(i - 1) % b]]
      BY <1>1, <1>2, <1>3 DEF SlotsAlong
  <1>7. ASSUME NEW i \in 1..n PROVE s[i] \in V
    <2>1. PICK j \in 0..(n - 1) : j = i - 1
        BY <1>3
    <2>2. s[i] = data[w[(j \div b) + 1]][j % b]
        BY <1>6, <2>1
    <2> QED
        BY <1>5, <2>1, <2>2
  <1>8. s \in [1..n -> V]
      BY <1>6, <1>7
  <1>9. s \in Seq(V) /\ Len(s) = n
      BY <1>3, <1>8, SeqDef
  <1>10. ASSUME NEW i \in 0..(n - 1) PROVE s[i + 1] = data[w[(i \div b) + 1]][i % b]
    <2>1. i + 1 \in 1..n /\ (i + 1) - 1 = i
        BY <1>3
    <2> QED
        BY <1>6, <2>1
  <1> QED
      BY <1>1, <1>2, <1>3, <1>4, <1>9, <1>10

IsZero(s) == s.t = "zero"

\* The list ScanDirectory makes ends in front of the first zero.
LEMMA ScannedList ==
    ASSUME NEW V, NEW s \in Seq(V), NEW list, list = UpToZero(s)
    PROVE  /\ list \in Seq(V) /\ Len(list) \in 0..Len(s) /\ Len(list) \in Nat
           /\ \A i \in 1..Len(list) : list[i] = s[i] /\ ~IsZero(s[i])
           /\ Len(list) < Len(s) => IsZero(s[Len(list) + 1])
  <1> DEFINE Z == {i \in 1..Len(s) : s[i].t = "zero"}
  <1>1. Len(s) \in Nat
      OBVIOUS
  <1>2. CASE Z = {}
    <2>1. SelectInSeq(s, LAMBDA x : x.t = "zero") = 0
        BY <1>2 DEF SelectInSeq
    <2>2. list = s
        BY <2>1 DEF UpToZero
    <2>3. \A i \in 1..Len(s) : ~IsZero(s[i])
        BY <1>2 DEF IsZero
    <2>4. Len(s) \in 0..Len(s) /\ ~(Len(s) < Len(s))
        BY <1>1
    <2>5. list \in Seq(V) /\ Len(list) = Len(s)
        BY <2>2
    <2>6. \A i \in 1..Len(list) : list[i] = s[i] /\ ~IsZero(s[i])
        BY <2>2, <2>3
    <2> QED
        BY <1>1, <2>4, <2>5, <2>6
  <1>3. CASE Z # {}
    <2>1. \E x \in Z : \A y \in Z : x <= y
      <3>1. Z \subseteq Nat
          BY <1>1
      <3> HIDE DEF Z
      <3> QED
          BY <1>3, <3>1, LeastNatural
    <2>2. PICK m : m = Min(Z)
        OBVIOUS
    <2>3. m \in Z /\ \A y \in Z : m <= y
        BY <2>1, <2>2 DEF Min
    <2>4. SelectInSeq(s, LAMBDA x : x.t = "zero") = m
        BY <1>3, <2>2 DEF SelectInSeq
    <2>5. m \in 1..Len(s) /\ m \in Nat /\ m # 0
        BY <1>1, <2>3
    <2>6. list = SubSeq(s, 1, m - 1)
        BY <2>4, <2>5 DEF UpToZero
    <2>7. \A i \in 1..(m - 1) : i \in 1..Len(s) /\ s[i] \in V /\ ~IsZero(s[i])
      <3>1. ASSUME NEW i \in 1..(m - 1) PROVE i \in 1..Len(s) /\ s[i] \in V /\ ~IsZero(s[i])
        <4>1. i \in 1..Len(s) /\ ~(m <= i)
            BY <1>1, <2>5
        <4> QED
            BY <2>3, <4>1, ElementOfSeq DEF IsZero
      <3> QED
          BY <3>1
    <2>8. /\ list \in Seq(V) /\ Len(list) = m - 1
          /\ \A i \in 1..(m - 1) : list[i] = s[i]
      <3>1. PICK k \in Nat : k = m - 1
          BY <2>5
      <3>2. /\ SubSeq(s, 1, k) \in Seq(V) /\ Len(SubSeq(s, 1, k)) = IF 1 <= k THEN k - 1 + 1 ELSE 0
            /\ \A i \in 1..(k - 1 + 1) : SubSeq(s, 1, k)[i] = s[1 + i - 1]
          BY <2>7, <3>1, SubSeqProperties
      <3> QED
          BY <2>6, <3>1, <3>2
    <2> QED
        BY <1>1, <2>3, <2>5, <2>7, <2>8 DEF IsZero
  <1> QED
      BY <1>2, <1>3
\* A directory as ScanDirectory sees it: the slots before the end of the list
\* are not zero, the one there is, unless the chain ends first.
IsScan(w, total) ==
    /\ total \in Nat /\ total <= Len(w) * SlotsPerCluster
    /\ \A i \in 0..(total - 1) :
        ~IsZero(data[w[(i \div SlotsPerCluster) + 1]][i % SlotsPerCluster])
    /\ total < Len(w) * SlotsPerCluster =>
        IsZero(data[w[(total \div SlotsPerCluster) + 1]][total % SlotsPerCluster])

LEMMA ScanIs ==
    ASSUME NEW V, data \in Filled(V), NEW t, TableOK(t), NEW c \in Clusters,
           ChainOf(t, c) \in Walks, NEW scan, scan = ScanDirectory(t, c)
    PROVE  /\ scan.list \in Seq(V) /\ scan.total = Len(scan.list) /\ scan.total \in Nat
           /\ IsScan(ChainOf(t, c), scan.total)
  <1>1. PICK w \in Walks : w = ChainOf(t, c)
      OBVIOUS
  <1>2. PICK s : s = SlotsAlong(w)
      OBVIOUS
  <1>3. PICK list : list = UpToZero(s)
      OBVIOUS
  <1>4. scan.list = list /\ scan.total = Len(list)
      BY <1>1, <1>2, <1>3 DEF ScanDirectory, SlotsOf, ScanResult
  <1>5. PICK b \in Nat \ {0} : b = SlotsPerCluster
      BY Sizes
  <1>6. PICK l \in Nat \ {0} : l = Len(w)
      BY LastOf
  <1>7. PICK n \in Nat : n = l * b
      OBVIOUS
  <1>8. /\ s \in Seq(V) /\ Len(s) = n
        /\ \A i \in 0..(n - 1) : s[i + 1] = data[w[(i \div b) + 1]][i % b]
    <2>1. /\ s \in Seq(V) /\ Len(s) = Len(w) * SlotsPerCluster
          /\ \A i \in 0..(Len(w) * SlotsPerCluster - 1) :
                s[i + 1] = data[w[(i \div SlotsPerCluster) + 1]][i % SlotsPerCluster]
        BY <1>2, SlotsAre, SMTT(20)
    <2> QED
        BY <1>5, <1>6, <1>7, <2>1, Zenon
  <1>14. s \in Seq(V)
      BY <1>8
  <1>9. /\ list \in Seq(V) /\ Len(list) \in 0..Len(s) /\ Len(list) \in Nat
        /\ \A i \in 1..Len(list) : list[i] = s[i] /\ ~IsZero(s[i])
        /\ Len(list) < Len(s) => IsZero(s[Len(list) + 1])
      BY <1>3, <1>14, ScannedList, SMTT(20)
  <1>10. PICK k \in Nat : k = Len(list) /\ k <= n
      BY <1>8, <1>9
  <1>11. ASSUME NEW i \in 0..(k - 1) PROVE ~IsZero(data[w[(i \div b) + 1]][i % b])
    <2>1. i \in 0..(n - 1) /\ i + 1 \in 1..k
        BY <1>10
    <2>2. ~IsZero(s[i + 1])
        BY <1>9, <1>10, <2>1
    <2> QED
        BY <1>8, <2>1, <2>2
  <1>12. ASSUME k < n PROVE IsZero(data[w[(k \div b) + 1]][k % b])
    <2>1. k \in 0..(n - 1)
        BY <1>12
    <2>2. IsZero(s[k + 1])
        BY <1>8, <1>9, <1>10, <1>12
    <2> QED
        BY <1>8, <2>1, <2>2
  <1>13. IsScan(w, k)
      BY <1>5, <1>6, <1>7, <1>10, <1>11, <1>12 DEF IsScan
  <1> QED
      BY <1>1, <1>4, <1>9, <1>10, <1>13

\* Division with remainder, once more.
LEMMA Quotient ==
    ASSUME NEW m \in Nat, NEW b \in Nat \ {0}
    PROVE  \E q \in Nat, r \in 0..(b - 1) : q = m \div b /\ m = q * b + r
  <1>1. PICK q : q = m \div b
      OBVIOUS
  <1>2. PICK r : r = m % b
      OBVIOUS
  <1>3. q \in Nat /\ r \in 0..(b - 1) /\ m = q * b + r
      BY <1>1, <1>2, SMT
  <1> QED
      BY <1>1, <1>3

\* FileWriter(idx, size) skips all clusters but the last one that is in use.
LEMMA SkipPlace ==
    ASSUME NEW b \in Nat \ {0}, NEW n \in Nat, NEW k,
           k = IF n = 0 THEN 0 ELSE (n - 1) \div b
    PROVE  /\ k \in Nat /\ n - k * b \in 0..b /\ n - k * b \in Nat
           /\ n = 0 => k = 0
           /\ n # 0 => n > k * b
  <1>1. CASE n = 0
      BY <1>1
  <1>2. CASE n # 0
    <2>1. PICK m \in Nat : m = n - 1
        BY <1>2
    <2>2. PICK q \in Nat, r \in 0..(b - 1) : q = m \div b /\ m = q * b + r
        BY Quotient
    <2>3. k = m \div b
        BY <1>2, <2>1
    <2>4. k \in Nat /\ r \in 0..(b - 1) /\ m = k * b + r
        BY <2>2, <2>3, Zenon
    <2>5. PICK z \in Nat : z = k * b
        BY <2>4
    <2> QED
        BY <1>2, <2>1, <2>4, <2>5
  <1> QED
      BY <1>1, <1>2

LEMMA DivUnique ==
    ASSUME NEW b \in Nat \ {0}, NEW q \in Nat, NEW r \in Nat, r < b, NEW a \in Nat, a = q * b + r
    PROVE  a \div b = q /\ a % b = r
  OBVIOUS

\* A smaller multiple.
LEMMA FewerClusters ==
    ASSUME NEW b \in Nat \ {0}, NEW k \in Nat, NEW l \in Nat, NEW n \in Nat,
           k * b <= n, n <= l * b
    PROVE  /\ k * b < n => k < l
           /\ k < l => k * b + b <= l * b
  <1>1. CASE k < l
    <2>1. PICK d \in Nat : l = k + 1 + d
        BY <1>1
    <2>2. l * b = k * b + b + d * b /\ d * b \in Nat
        BY <2>1
    <2> QED
        BY <1>1, <2>2
  <1>2. CASE ~(k < l)
    <2>1. PICK d \in Nat : k = l + d
        BY <1>2
    <2>2. k * b = l * b + d * b /\ d * b \in Nat /\ l * b \in Nat
        BY <2>1
    <2> QED
        BY <1>2, <2>2
  <1> QED
      BY <1>1, <1>2
\* Where AppendDirectoryEntry continues: at the zero that ends the list, in the
\* cluster it is in, or behind the last slot of a full cluster.
LEMMA EndPlace ==
    ASSUME NEW w \in Walks, NEW n, IsScan(w, n), NEW k, k = Skip(n),
           NEW off, off = n - k * SlotsPerCluster
    PROVE  /\ k \in Nat /\ k < Len(w) /\ off \in 0..SlotsPerCluster
           /\ off < SlotsPerCluster => IsZero(data[w[k + 1]][off])
           /\ \A i \in 0..(off - 1) : ~IsZero(data[w[k + 1]][i])
  <1>1. PICK b \in Nat \ {0} : b = SlotsPerCluster
      BY Sizes
  <1>2. PICK l \in Nat \ {0} : l = Len(w)
      BY LastOf
  <1>3. /\ n \in Nat /\ n <= l * b
        /\ \A i \in 0..(n - 1) : ~IsZero(data[w[(i \div b) + 1]][i % b])
        /\ n < l * b => IsZero(data[w[(n \div b) + 1]][n % b])
      BY <1>1, <1>2 DEF IsScan
  <1>4. k = IF n = 0 THEN 0 ELSE (n - 1) \div b
      BY <1>1 DEF Skip
  <1>5. /\ k \in Nat /\ off \in 0..b /\ off \in Nat
        /\ n = 0 => k = 0
        /\ n # 0 => n > k * b
      BY <1>1, <1>3, <1>4, SkipPlace
  <1>12. PICK j \in Nat : j = k
      BY <1>5
  <1>6. PICK z \in Nat : z = j * b
      OBVIOUS
  <1>7. n = z + off
      BY <1>1, <1>3, <1>5, <1>6, <1>12
  <1>13. j * b <= n /\ n <= l * b
      BY <1>3, <1>5, <1>6, <1>7
  <1>8. k < l
    <2>1. CASE n = 0
        BY <1>5, <2>1
    <2>2. CASE n # 0
      <3>1. j * b < n
          BY <1>5, <1>12, <2>2
      <3> QED
          BY <1>3, <1>12, <1>13, <3>1, FewerClusters
    <2> QED
        BY <2>1, <2>2
  <1>9. z + b <= l * b
      BY <1>3, <1>6, <1>8, <1>12, <1>13, FewerClusters
  <1>10. ASSUME off < b PROVE IsZero(data[w[k + 1]][off])
    <2>1. n < l * b
        BY <1>5, <1>7, <1>9, <1>10
    <2>2. n \div b = k /\ n % b = off
        BY <1>3, <1>5, <1>6, <1>7, <1>10, <1>12, DivUnique
    <2> QED
        BY <1>3, <2>1, <2>2
  <1>11. ASSUME NEW i \in 0..(off - 1) PROVE ~IsZero(data[w[k + 1]][i])
    <2>1. PICK a \in Nat : a = z + i
        BY <1>5
    <2>2. i \in Nat /\ i < b /\ a \in 0..(n - 1)
        BY <1>3, <1>5, <1>7, <2>1
    <2>3. a \div b = k /\ a % b = i
        BY <1>6, <1>12, <2>1, <2>2, DivUnique
    <2> QED
        BY <1>3, <2>2, <2>3
  <1> QED
      BY <1>1, <1>2, <1>5, <1>8, <1>10, <1>11

\* The entry of a name is one of the list, or none.
LEMMA PickOne ==
    ASSUME NEW V, NotFound \in V, NEW scan, scan.list \in Seq(V), NEW name
    PROVE  Pick(scan, name) \in V
  <1> DEFINE I == {i \in 1..Len(scan.list) : scan.list[i].name = name}
  <1>1. PICK at : at = SelectInSeq(scan.list, LAMBDA s : s.name = name)
      OBVIOUS
  <1>2. at = IF I # {} THEN Min(I) ELSE 0
      BY <1>1 DEF SelectInSeq
  <1>3. ASSUME at # 0 PROVE at \in 1..Len(scan.list)
    <2>1. I # {} /\ at = Min(I)
        BY <1>2, <1>3
    <2>2. I \subseteq Nat
        OBVIOUS
    <2>3. \E x \in I : \A y \in I : x <= y
      <3> HIDE DEF I
      <3> QED
          BY <2>1, <2>2, LeastNatural
    <2> QED
        BY <2>1, <2>3 DEF Min
  <1>4. CASE scan.ok /\ at # 0
    <2>1. Pick(scan, name) = scan.list[at]
        BY <1>1, <1>4 DEF Pick
    <2> QED
        BY <1>3, <1>4, <2>1, ElementOfSeq
  <1>5. CASE ~(scan.ok /\ at # 0)
      BY <1>1, <1>5 DEF Pick
  <1> QED
      BY <1>4, <1>5

\* What FindFile returns is the root, nothing, or a slot it has read.
LEMMA Found ==
    ASSUME NEW V, data \in Filled(V), RootEntry \in V, NotFound \in V,
           \A s \in V : s.t = "dir" => s.first \in Clusters,
           NEW t, TableOK(t), NEW path \in Seq(Names)
    PROVE  FindFile(t, path) \in V
  <1>1. ASSUME NEW dir \in V, NEW name PROVE Lookup(t, dir, name) \in V
    <2>1. CASE dir.t = "dir"
      <3>1. dir.first \in Clusters
          BY <2>1
      <3>2. ChainOf(t, dir.first) \in Walks
          BY <3>1, ChainTyped
      <3>3. PICK scan : scan = ScanDirectory(t, dir.first)
          OBVIOUS
      <3>4. scan.list \in Seq(V)
          BY <3>1, <3>2, <3>3, ScanIs
      <3>5. Pick(scan, name) \in V
          BY <3>4, PickOne
      <3> QED
          BY <2>1, <3>3, <3>5 DEF Lookup
    <2>2. CASE dir.t # "dir"
        BY <2>2 DEF Lookup
    <2> QED
        BY <2>1, <2>2
  <1> DEFINE n == Len(path)
             F == [p \in V \X (1..n) |-> Lookup(t, p[1], path[p[2]])]
             E(g) == [i \in 0..n |-> IF i = 0 THEN RootEntry ELSE Lookup(t, g[i - 1], path[i])]
             u == CHOOSE g : g = E(g)
  <1>2. n \in Nat
      OBVIOUS
  <1>3. Keeps(F, n, V)
      BY <1>1 DEF Keeps
  <1>4. PICK f \in [0..n -> V] : IsHistory(f, n, RootEntry, F)
    <2> HIDE DEF F, n
    <2> QED
        BY <1>2, <1>3, HistoryExists
  <1>5. f[0] = RootEntry /\ \A i \in 1..n : f[i] = Lookup(t, f[i - 1], path[i])
    <2>1. ASSUME NEW i \in 1..n PROVE F[<<f[i - 1], i>>] = Lookup(t, f[i - 1], path[i])
      <3>1. f[i - 1] \in V
          BY <1>2
      <3> QED
          BY <3>1
    <2> QED
        BY <1>4, <2>1 DEF IsHistory
  <1>6. f = E(f)
    <2>1. ASSUME NEW i \in 0..n PROVE f[i] = E(f)[i]
      <3>1. CASE i = 0
          BY <1>5, <3>1
      <3>2. CASE i # 0
        <4>1. i \in 1..n
            BY <1>2, <3>2
        <4> QED
            BY <1>5, <3>2, <4>1
      <3> QED
          BY <3>1, <3>2
    <2>2. DOMAIN f = 0..n /\ DOMAIN E(f) = 0..n
        OBVIOUS
    <2> QED
        BY <2>1, <2>2
  <1>7. u = E(u)
    <2> HIDE DEF E
    <2> QED
        BY <1>6, Zenon
  <1>8. FindFile(t, path) = u[n]
      BY DEF FindFile
  <1> HIDE DEF u
  <1>9. u[0] = RootEntry /\ \A i \in 1..n : u[i] = Lookup(t, u[i - 1], path[i])
      BY <1>2, <1>7
  <1>10. \A i \in 0..n : u[i] \in V
    <2>1. ASSUME NEW i \in 1..n, u[i - 1] \in V PROVE u[i] \in V
        BY <1>1, <1>9, <2>1
    <2>2. Stays(u, n, V)
        BY <1>9, <2>1 DEF Stays
    <2> HIDE DEF n
    <2> QED
        BY <1>2, <2>2, HistoryType
  <1> QED
      BY <1>2, <1>8, <1>10

-----------------------------------------------------------------------------
(***************************************************************************)
(* The inductive invariant.  The first part holds at all times.            *)
(***************************************************************************)
SlotIdx == 0..(SlotsPerCluster - 1)
Busy == todo # <<>> \/ entry # {}

TypeInv ==
    /\ TypeOK
    /\ \A k \in 1..NumFats : TableOK(imgFat[k])
    /\ pc \in {"prompt", "flush"} => TableOK(fat) /\ sessions > 0
    /\ pc = "prompt" => flushed = 0
    /\ data \in Filled(Leading(Clusters))
    /\ todo \in Seq(Leading(Clusters))
    /\ \A d, e \in entry : d = e
    /\ Busy => pc = "prompt" /\ wr.cluster \in Clusters /\ wr.first \in Clusters

(***************************************************************************)
(* The second part holds until the first session is lost.  The table that  *)
(* counts is the one in memory during a session, and the one on the image  *)
(* between sessions.                                                       *)
(***************************************************************************)
Current == IF pc = "closed" THEN imgFat[1] ELSE fat
Written(s) == s.t \in {"dir", "file", "piece"}

\* Nothing is written in a cluster that is free, nor behind a zero slot.
FreeIsFresh(t) == \A c \in Clusters : t[c] = 0 => \A i \in SlotIdx : ~Written(data[c][i])
ZeroEnds ==
    \A c \in Clusters : \A i, j \in SlotIdx :
        i < j /\ IsZero(data[c][i]) => ~Written(data[c][j])

\* The slots from the writer's position on are unused, those before it not zero.
WriterFresh ==
    \A i \in SlotIdx : /\ i >= wr.off => ~Written(data[wr.cluster][i])
                       /\ i < wr.off => ~IsZero(data[wr.cluster][i])

\* The place where an entry will be appended is still the end of its directory,
\* and the writer is at work in another cluster.
EndOfList(d, off) ==
    /\ off \in 0..SlotsPerCluster /\ d # wr.cluster
    /\ off < SlotsPerCluster => IsZero(data[d][off])
    /\ \A i \in 0..(off - 1) : ~IsZero(data[d][i])
Waiting(e) ==
    /\ e.cluster \in Used(fat) /\ Skip(e.size) < Len(ChainOf(fat, e.cluster))
    /\ EndOfList(ChainOf(fat, e.cluster)[Skip(e.size) + 1], e.size - Skip(e.size) * SlotsPerCluster)

TableInv(t) ==
    /\ Linked(t) /\ Root \in Used(t)
    /\ data \in Filled(Leading(Used(t))) /\ todo \in Seq(Leading(Used(t)))
    /\ FreeIsFresh(t)
    /\ Busy => t[wr.cluster] = EOC /\ wr.first \in Used(t)

SafeInv ==
    /\ pc # "dead"
    /\ pc = "flush" /\ flushed > 0 => imgFat[1] = fat
    /\ TableInv(Current)
    /\ ZeroEnds
    /\ \A i \in 1..Len(todo) : IsZero(todo[i]) => i = Len(todo)
    /\ todo # <<>> => WriterFresh
    /\ \A e \in entry : Waiting(e)

Inv == TypeInv /\ (lost = 0 => SafeInv)
-----------------------------------------------------------------------------
(* Allocation *)

\* A cluster that was free is linked to the end of a chain, or begins one.
LEMMA GrowTable ==
    ASSUME NEW t, TableOK(t), NEW c \in Clusters, t[c] = 0, NEW v,
           v = Allocate(t, c) \/ \E l \in Clusters : t[l] = EOC /\ v = AllocateAfter(t, l, c)
    PROVE  /\ TableOK(v) /\ Extends(t, v) /\ v[c] = EOC
           /\ Used(v) = Used(t) \cup {c} /\ c \notin Used(t)
           /\ Linked(t) => Linked(v)
  <1>1. /\ t \in [0..(FatEntries - 1) -> Links] /\ Clusters \subseteq 0..(FatEntries - 1)
        /\ EOC \in Links /\ c \in Links /\ EOC \notin Clusters /\ EOC # 0
        /\ 0 \notin Clusters /\ 1 \notin Clusters
        /\ 0 \in 0..(FatEntries - 1) /\ 1 \in 0..(FatEntries - 1)
    <2>1. \A x \in Clusters : x >= 2 /\ x < EOC /\ x \in Nat
        BY Sizes
    <2>2. EOC \in Nat /\ EOC # 0
        BY Sizes DEF EOC
    <2> QED
        BY <2>1, <2>2, Sizes DEF TableOK, Links
  <1>2. CASE v = Allocate(t, c)
    <2>1. v = [t EXCEPT ![c] = EOC]
        BY <1>2 DEF Allocate
    <2>2. TableOK(v) /\ v[c] = EOC
        BY <1>1, <2>1 DEF TableOK
    <2>3. \A x \in Clusters : x # c => v[x] = t[x]
        BY <1>1, <2>1
    <2>4. Extends(t, v)
        BY <1>1, <2>3 DEF Extends
    <2>7. \A x \in Clusters : v[x] # 0 <=> (t[x] # 0 \/ x = c)
        BY <1>1, <2>2, <2>3
    <2>5. Used(v) = Used(t) \cup {c} /\ c \notin Used(t)
        BY <2>7 DEF Used
    <2>6. ASSUME Linked(t) PROVE Linked(v)
        BY <1>1, <2>2, <2>3, <2>5, <2>6 DEF Linked
    <2> QED
        BY <2>2, <2>4, <2>5, <2>6
  <1>3. ASSUME NEW l \in Clusters, t[l] = EOC, v = AllocateAfter(t, l, c)
        PROVE  /\ TableOK(v) /\ Extends(t, v) /\ v[c] = EOC
               /\ Used(v) = Used(t) \cup {c} /\ c \notin Used(t)
               /\ Linked(t) => Linked(v)
    <2>1. v = [t EXCEPT ![c] = EOC, ![l] = c] /\ l # c
        BY <1>1, <1>3 DEF AllocateAfter
    <2>2. TableOK(v) /\ v[c] = EOC /\ v[l] = c
        BY <1>1, <2>1 DEF TableOK
    <2>3. \A x \in Clusters : x # c /\ x # l => v[x] = t[x]
        BY <1>1, <2>1
    <2>4. Extends(t, v)
        BY <1>1, <1>3, <2>3 DEF Extends
    <2>7. \A x \in Clusters : v[x] # 0 <=> (t[x] # 0 \/ x = c)
        BY <1>1, <1>3, <2>2, <2>3
    <2>5. Used(v) = Used(t) \cup {c} /\ c \notin Used(t)
        BY <2>7 DEF Used
    <2>6. ASSUME Linked(t) PROVE Linked(v)
        BY <1>1, <2>2, <2>3, <2>5, <2>6 DEF Linked
    <2> QED
        BY <2>2, <2>4, <2>5, <2>6
  <1> QED
      BY <1>2, <1>3

\* A table is a table, whatever cluster comes before the new one.
LEMMA AfterOK ==
    ASSUME NEW t, TableOK(t), NEW c \in Clusters, NEW l \in Clusters
    PROVE  TableOK(AllocateAfter(t, l, c))
  <1>1. /\ t \in [0..(FatEntries - 1) -> Links] /\ Clusters \subseteq 0..(FatEntries - 1)
        /\ EOC \in Links /\ c \in Links
        /\ \A x \in Clusters : x >= 2
      BY Sizes DEF TableOK, Links
  <1>2. AllocateAfter(t, l, c) = [t EXCEPT ![c] = EOC, ![l] = c]
      BY DEF AllocateAfter
  <1>3. 0 # c /\ 0 # l /\ 1 # c /\ 1 # l
      BY <1>1
  <1>4. 0 \in 0..(FatEntries - 1) /\ 1 \in 0..(FatEntries - 1)
      BY Sizes
  <1> QED
      BY <1>1, <1>2, <1>3, <1>4 DEF TableOK

\* More clusters in use, and the entries that lead to them.
LEMMA LeadingMore ==
    ASSUME NEW C, NEW D, C \subseteq D
    PROVE  /\ Leading(C) \subseteq Leading(D)
           /\ \A x \in Filled(Leading(C)) : x \in Filled(Leading(D))
           /\ \A x \in Seq(Leading(C)) : x \in Seq(Leading(D))
  <1>1. Leading(C) \subseteq Leading(D)
      BY DEF Leading
  <1> HIDE DEF Leading
  <1>2. \A x \in Filled(Leading(C)) : x \in Filled(Leading(D))
      BY <1>1 DEF Filled
  <1>3. ASSUME NEW x \in Seq(Leading(C)) PROVE x \in Seq(Leading(D))
    <2>1. Len(x) \in Nat /\ x \in [1..Len(x) -> Leading(C)]
        BY LenProperties
    <2>2. x \in [1..Len(x) -> Leading(D)]
        BY <1>1, <2>1
    <2> QED
        BY <2>1, <2>2, SeqDef
  <1> QED
      BY <1>1, <1>2, <1>3

\* The slots the editor makes.
LEMMA EntrySlot ==
    ASSUME NEW C, NEW isDir \in BOOLEAN, NEW name \in Labels, NEW first \in C \cap Nat, NEW size \in Nat,
           NEW s, s = DirEnt(isDir, name, first, size)
    PROVE  s \in Leading(C) /\ ~IsZero(s)
  <1>1. PICK t \in {"dir", "file"} : t = IF isDir THEN "dir" ELSE "file"
      BY Zenon
  <1>2. s = [t |-> t, name |-> name, first |-> first, size |-> size]
      BY <1>1 DEF DirEnt, Slot
  <1> QED
      BY <1>2 DEF Leading, Slots, IsZero

LEMMA DataSlot ==
    ASSUME NEW C, NEW t \in {"piece", "zero", "junk"}, NEW name \in Labels, NEW size \in Nat,
           NEW s, s = Slot(t, name, 0, size)
    PROVE  s \in Leading(C) /\ (IsZero(s) <=> t = "zero") /\ (Written(s) <=> t = "piece")
  BY DEF Slot, Leading, Slots, IsEntry, IsZero, Written

LEMMA LeadingSlots ==
    ASSUME NEW C PROVE Leading(C) \subseteq Slots
  BY DEF Leading

-----------------------------------------------------------------------------
(* Steps that neither allocate nor write data *)

LEMMA InitInv == ASSUME Init PROVE Inv
  <1>1. NumFats \in Nat \ {0} /\ MaxSessions \in Nat \ {0} /\ 1 \in 1..NumFats
      BY FatEditAssumption
  <1>2. PICK old \in {"zero", "junk"} :
            data = [c \in Clusters |-> [i \in 0..(SlotsPerCluster - 1) |->
                        IF c = Root THEN Zero ELSE Slot(old, "", 0, 0)]]
      BY FatEditAssumption DEF Init
  <1>3. "" \in Labels /\ old \in {"piece", "zero", "junk"}
      BY DEF Labels
  <1>4. \A C : Zero \in Leading(C) /\ Slot(old, "", 0, 0) \in Leading(C)
      BY <1>3, DataSlot DEF Zero
  <1>5. ~Written(Zero) /\ ~Written(Slot(old, "", 0, 0)) /\ IsZero(Zero)
      BY <1>3, DataSlot DEF Zero
  <1>6. data \in Filled(Leading(Used(imgFat[1]))) /\ data \in Filled(Leading(Clusters))
        /\ data \in Filled(Slots)
    <2>1. ASSUME NEW C PROVE data \in Filled(Leading(C))
        BY <1>2, <1>4 DEF Filled
    <2>2. data \in Filled(Slots)
        BY <2>1, LeadingSlots DEF Filled
    <2> QED
        BY <2>1, <2>2
  <1>7. \A c \in Clusters, i \in SlotIdx : ~Written(data[c][i])
      BY <1>2, <1>5 DEF SlotIdx
  <1>8. \A k \in 1..NumFats : TableOK(imgFat[k])
    <2>1. \A k \in 1..NumFats :
            imgFat[k] = [i \in 0..(FatEntries - 1) |-> IF i <= Root THEN EOC ELSE 0]
        BY DEF Init
    <2>2. 0 \in 0..(FatEntries - 1) /\ 1 \in 0..(FatEntries - 1) /\ EOC \in Links /\ 0 \in Links
        BY Sizes DEF Links
    <2>3. PICK e \in Links : e = EOC
        BY <2>2
    <2>4. ASSUME NEW k \in 1..NumFats PROVE TableOK(imgFat[k])
      <3>1. imgFat[k] = [i \in 0..(FatEntries - 1) |-> IF i <= 2 THEN e ELSE 0]
          BY <2>1, <2>3 DEF Root
      <3>2. imgFat[k] \in [0..(FatEntries - 1) -> Links]
          BY <2>2, <3>1
      <3>3. imgFat[k][0] = e /\ imgFat[k][1] = e
          BY <2>2, <3>1
      <3> QED
          BY <2>3, <3>2, <3>3 DEF TableOK
    <2> QED
        BY <2>4
  <1>9. /\ \A x \in Clusters : imgFat[1][x] = IF x = Root THEN EOC ELSE 0
        /\ EOC # 0 /\ EOC \notin Clusters /\ 0 \notin Clusters /\ Root \in Clusters
    <2>1. imgFat[1] = [i \in 0..(FatEntries - 1) |-> IF i <= Root THEN EOC ELSE 0]
        BY <1>1 DEF Init
    <2>2. \A x \in Clusters : x \in 0..(FatEntries - 1) /\ (x <= Root <=> x = Root) /\ x # 0 /\ x # EOC
        BY Sizes DEF Root
    <2> QED
        BY <2>1, <2>2, Sizes DEF EOC
  <1>10. Linked(imgFat[1]) /\ Root \in Used(imgFat[1])
      BY <1>9 DEF Linked, Used
  <1>11. todo = <<>> /\ entry = {} /\ pc = "closed" /\ lost = 0 /\ flushed = 0 /\ sessions = 0
      BY DEF Init
  <1>12. TypeOK
    <2>1. fat \in Tables /\ imgFat \in [1..NumFats -> Tables]
      <3>1. 0 \in Links /\ EOC \in Links
          BY DEF Links
      <3>2. fat = [i \in 0..(FatEntries - 1) |-> 0]
          BY DEF Init
      <3>3. fat \in Tables
          BY <3>1, <3>2 DEF Tables
      <3>4. [i \in 0..(FatEntries - 1) |-> IF i <= Root THEN EOC ELSE 0] \in Tables
          BY <3>1 DEF Tables
      <3>5. imgFat = [k \in 1..NumFats |->
                        [i \in 0..(FatEntries - 1) |-> IF i <= Root THEN EOC ELSE 0]]
          BY DEF Init
      <3> QED
          BY <3>3, <3>4, <3>5
    <2>2. fsinfo.next \in Nat \cup {NoCluster} /\ fsinfo.free \in Nat
      <3>1. fsinfo = [next |-> Root + 1, free |-> FatEntries - 3]
          BY DEF Init
      <3>2. Root + 1 \in Nat /\ FatEntries - 3 \in Nat
          BY Sizes DEF Root
      <3> QED
          BY <3>1, <3>2
    <2>3. wr \in [cluster : Clusters \cup {0}, off : 0..SlotsPerCluster,
                  first : Clusters \cup {0}, total : Nat]
      <3>1. wr = [cluster |-> 0, off |-> 0, first |-> 0, total |-> 0]
          BY DEF Init, NoWriter, Writer
      <3>2. 0 \in 0..SlotsPerCluster
          BY Sizes
      <3> QED
          BY <3>1, <3>2
    <2>4. Cardinality(entry) <= 1
        BY <1>11, FS_EmptySet
    <2> QED
        BY <1>1, <1>6, <1>11, <2>1, <2>2, <2>3, <2>4 DEF TypeOK, Filled
  <1>13. TypeInv
      BY <1>6, <1>8, <1>11, <1>12 DEF TypeInv, Busy
  <1>14. TableInv(imgFat[1])
      BY <1>6, <1>7, <1>10, <1>11 DEF TableInv, FreeIsFresh, Busy
  <1>15. ZeroEnds
      BY <1>7 DEF ZeroEnds
  <1>16. Current = imgFat[1]
      BY <1>11 DEF Current
  <1>17. Len(todo) = 0
      BY <1>11
  <1>18. SafeInv
      BY <1>11, <1>14, <1>15, <1>16, <1>17 DEF SafeInv
  <1> QED
      BY <1>13, <1>18 DEF Inv

\* A session that dies is lost.
LEMMA DieStep ==
    ASSUME Inv, NEW why, Die(why), pc \in {"prompt", "flush"}
    PROVE  Inv'
  <1>1. sessions \in Nat /\ sessions > 0 /\ sessions \in 0..MaxSessions /\ lost \in 0..MaxSessions
      BY FatEditAssumption DEF Inv, TypeInv, TypeOK
  <1>2. /\ pc' = "dead" /\ todo' = <<>> /\ entry' = {} /\ wr' = NoWriter
        /\ fat' = fat /\ imgFat' = imgFat /\ data' = data /\ fsinfo' = fsinfo
        /\ flushed' = flushed /\ sessions' = sessions
        /\ lost' = IF lost = 0 THEN sessions ELSE lost
      BY DEF Die, image
  <1>3. lost' # 0 /\ lost' \in 0..MaxSessions
      BY <1>1, <1>2
  <1>4. wr' \in [cluster : Clusters \cup {0}, off : 0..SlotsPerCluster,
                 first : Clusters \cup {0}, total : Nat]
      BY <1>2, Sizes DEF NoWriter, Writer
  <1>5. Cardinality(entry') <= 1
      BY <1>2, FS_EmptySet
  <1>6. TypeOK'
      BY <1>2, <1>3, <1>4, <1>5 DEF Inv, TypeInv, TypeOK
  <1>7. TypeInv'
      BY <1>2, <1>6 DEF Inv, TypeInv, Busy
  <1> QED
      BY <1>3, <1>7 DEF Inv

LEMMA OpenStep == ASSUME Inv, Open PROVE Inv'
  <1>1. /\ pc' = "prompt" /\ flushed' = 0 /\ sessions' = sessions + 1 /\ fat' = imgFat[1]
        /\ imgFat' = imgFat /\ data' = data /\ fsinfo' = fsinfo /\ wr' = wr /\ todo' = todo
        /\ entry' = entry /\ lost' = lost
      BY DEF Open, image
  <1>2. TypeInv /\ TypeOK
      BY DEF Inv, TypeInv
  <1>3. ~Busy /\ todo = <<>> /\ entry = {}
      BY <1>2 DEF TypeInv, Busy, Open
  <1>4. 1 \in 1..NumFats /\ imgFat[1] \in Tables /\ TableOK(imgFat[1])
      BY <1>2, FatEditAssumption DEF TypeInv, TypeOK
  <1>5. sessions' \in 0..MaxSessions /\ sessions' > 0
      BY <1>1, <1>2, FatEditAssumption DEF TypeOK, Open
  <1>6. TypeOK'
      BY <1>1, <1>2, <1>4, <1>5, FatEditAssumption DEF TypeOK
  <1>7. TypeInv'
      BY <1>1, <1>2, <1>3, <1>4, <1>5, <1>6 DEF TypeInv, Busy
  <1>8. ASSUME lost = 0 PROVE SafeInv'
    <2>1. SafeInv /\ pc = "closed" /\ Current = imgFat[1] /\ TableInv(Current)
        BY <1>8 DEF Inv, SafeInv, Open, Current
    <2>2. Current' = imgFat[1]
        BY <1>1 DEF Current
    <2>3. TableInv(Current)'
        BY <1>1, <1>3, <2>1, <2>2 DEF TableInv, FreeIsFresh, Busy
    <2> QED
        BY <1>1, <1>3, <2>1, <2>3 DEF SafeInv, ZeroEnds
  <1> QED
      BY <1>1, <1>7, <1>8 DEF Inv

\* Nothing is under way when the input has ended.
LEMMA EndStep == ASSUME Inv, EndOfInput PROVE Inv'
  <1>1. /\ pc = "prompt" /\ todo = <<>> /\ entry = {}
        /\ pc' = "flush" /\ flushed' = flushed /\ sessions' = sessions /\ fat' = fat
        /\ imgFat' = imgFat /\ data' = data /\ fsinfo' = fsinfo /\ wr' = wr /\ todo' = todo
        /\ entry' = entry /\ lost' = lost
      BY DEF EndOfInput, Idle, image
  <1>2. TypeInv /\ TypeOK /\ flushed = 0
      BY <1>1 DEF Inv, TypeInv
  <1>3. TypeOK'
      BY <1>1, <1>2 DEF TypeOK
  <1>4. TypeInv'
      BY <1>1, <1>2, <1>3 DEF TypeInv, Busy
  <1>5. ASSUME lost = 0 PROVE SafeInv'
    <2>1. SafeInv /\ Current = fat /\ TableInv(Current)
        BY <1>1, <1>5 DEF Inv, SafeInv, Current
    <2>2. Current' = fat
        BY <1>1 DEF Current
    <2>3. TableInv(Current)'
        BY <1>1, <2>1, <2>2 DEF TableInv, FreeIsFresh, Busy
    <2> QED
        BY <1>1, <1>2, <2>1, <2>3 DEF SafeInv, ZeroEnds
  <1> QED
      BY <1>1, <1>4, <1>5 DEF Inv

\* The first table is written first, and not again.
LEMMA TableStep == ASSUME Inv, WriteTable PROVE Inv'
  <1>1. /\ pc = "flush" /\ flushed < NumFats
        /\ pc' = pc /\ flushed' = flushed + 1 /\ sessions' = sessions /\ fat' = fat
        /\ imgFat' = [imgFat EXCEPT ![flushed + 1] = fat]
        /\ data' = data /\ fsinfo' = fsinfo /\ wr' = wr /\ todo' = todo
        /\ entry' = entry /\ lost' = lost
      BY DEF WriteTable
  <1>2. TypeInv /\ TypeOK /\ TableOK(fat)
      BY <1>1 DEF Inv, TypeInv
  <1>3. todo = <<>> /\ entry = {}
      BY <1>1, <1>2 DEF TypeInv, Busy
  <1>4. flushed \in Nat /\ flushed + 1 \in 0..NumFats /\ flushed + 1 \in 1..NumFats
      BY <1>1, <1>2, FatEditAssumption DEF TypeOK
  <1>5. imgFat' \in [1..NumFats -> Tables] /\ \A k \in 1..NumFats : TableOK(imgFat'[k])
      BY <1>1, <1>2, <1>4 DEF TypeInv, TypeOK
  <1>6. TypeOK'
      BY <1>1, <1>2, <1>4, <1>5 DEF TypeOK
  <1>7. TypeInv'
      BY <1>1, <1>2, <1>3, <1>5, <1>6 DEF TypeInv, Busy
  <1>8. ASSUME lost = 0 PROVE SafeInv'
    <2>1. SafeInv /\ Current = fat /\ TableInv(Current)
        BY <1>1, <1>8 DEF Inv, SafeInv, Current
    <2>2. Current' = fat
        BY <1>1 DEF Current
    <2>3. TableInv(Current)'
        BY <1>1, <1>3, <2>1, <2>2 DEF TableInv, FreeIsFresh, Busy
    <2>4. imgFat'[1] = fat
      <3>1. DOMAIN imgFat = 1..NumFats /\ 1 \in 1..NumFats
          BY <1>2, FatEditAssumption DEF TypeOK
      <3>2. CASE flushed = 0
          BY <1>1, <3>1, <3>2
      <3>3. CASE flushed # 0
          BY <1>1, <1>4, <2>1, <3>1, <3>3 DEF SafeInv
      <3> QED
          BY <3>2, <3>3
    <2> QED
        BY <1>1, <1>3, <2>1, <2>3, <2>4 DEF SafeInv, ZeroEnds
  <1> QED
      BY <1>1, <1>7, <1>8 DEF Inv

\* The free entries of a table can be counted.
LEMMA FreeCount ==
    ASSUME NEW t, TableOK(t)
    PROVE  NumFreeClusters(t) \in Nat /\ FindFreeCluster(t) \in Nat \cup {NoCluster}
  <1> DEFINE free == {i \in 0..(FatEntries - 1) : t[i] = 0}
  <1>1. IsFiniteSet(0..(FatEntries - 1))
      BY Sizes, FS_Interval
  <1>2. IsFiniteSet(free)
      BY <1>1, FS_Subset
  <1>3. Cardinality(free) \in Nat
    <2> HIDE DEF free
    <2> QED
        BY <1>2, FS_CardinalityType
  <1>4. NumFreeClusters(t) \in Nat
      BY <1>3 DEF NumFreeClusters
  <1>5. PICK c : c = FindFreeCluster(t)
      OBVIOUS
  <1>6. CASE c = NoCluster
      BY <1>4, <1>5, <1>6
  <1>7. CASE c # NoCluster
    <2>1. c \in Clusters
        BY <1>5, <1>7, FreeCluster
    <2> QED
        BY <1>4, <1>5, <2>1, Sizes
  <1> QED
      BY <1>6, <1>7

\* When a session ends, the first table is the one it had in memory.
LEMMA InfoStep == ASSUME Inv, WriteFsInfo PROVE Inv'
  <1>1. /\ pc = "flush" /\ flushed = NumFats
        /\ pc' = "closed" /\ flushed' = flushed /\ sessions' = sessions /\ fat' = fat
        /\ imgFat' = imgFat /\ data' = data /\ wr' = NoWriter /\ todo' = todo
        /\ entry' = entry /\ lost' = lost
        /\ fsinfo' = [next |-> FindFreeCluster(fat), free |-> NumFreeClusters(fat)]
      BY DEF WriteFsInfo
  <1>2. TypeInv /\ TypeOK /\ TableOK(fat)
      BY <1>1 DEF Inv, TypeInv
  <1>3. todo = <<>> /\ entry = {}
      BY <1>1, <1>2 DEF TypeInv, Busy
  <1>4. fsinfo'.next \in Nat \cup {NoCluster} /\ fsinfo'.free \in Nat
    <2>1. NumFreeClusters(fat) \in Nat /\ FindFreeCluster(fat) \in Nat \cup {NoCluster}
        BY <1>2, FreeCount
    <2> QED
        BY <1>1, <2>1
  <1>5. wr' \in [cluster : Clusters \cup {0}, off : 0..SlotsPerCluster,
                 first : Clusters \cup {0}, total : Nat]
      BY <1>1, Sizes DEF NoWriter, Writer
  <1>6. TypeOK'
      BY <1>1, <1>2, <1>4, <1>5 DEF TypeOK
  <1>7. TypeInv'
      BY <1>1, <1>2, <1>3, <1>6 DEF TypeInv, Busy
  <1>8. ASSUME lost = 0 PROVE SafeInv'
    <2>1. SafeInv /\ Current = fat /\ TableInv(Current) /\ imgFat[1] = fat
        BY <1>1, <1>8, FatEditAssumption DEF Inv, SafeInv, Current
    <2>2. Current' = fat
        BY <1>1, <2>1 DEF Current
    <2>3. TableInv(Current)'
        BY <1>1, <1>3, <2>1, <2>2 DEF TableInv, FreeIsFresh, Busy
    <2> QED
        BY <1>1, <1>3, <2>1, <2>3 DEF SafeInv, ZeroEnds
  <1> QED
      BY <1>1, <1>7, <1>8 DEF Inv

LEMMA StutterStep == ASSUME Inv, UNCHANGED vars PROVE Inv'
  <1>1. /\ pc' = pc /\ flushed' = flushed /\ sessions' = sessions /\ fat' = fat
        /\ imgFat' = imgFat /\ data' = data /\ wr' = wr /\ todo' = todo
        /\ entry' = entry /\ lost' = lost /\ fsinfo' = fsinfo
      BY DEF vars
  <1>2. TypeInv'
      BY <1>1 DEF Inv, TypeInv, TypeOK, Busy
  <1>3. ASSUME lost = 0 PROVE SafeInv'
    <2>1. SafeInv
        BY <1>3 DEF Inv
    <2>2. TableInv(Current)'
        BY <1>1, <2>1 DEF SafeInv, TableInv, FreeIsFresh, Busy, Current
    <2>3. todo' # <<>> => WriterFresh'
        BY <1>1, <2>1 DEF SafeInv, WriterFresh
    <2>4. \A e \in entry' : Waiting(e)'
        BY <1>1, <2>1 DEF SafeInv, Waiting, EndOfList
    <2> QED
        BY <1>1, <2>1, <2>2, <2>3, <2>4 DEF SafeInv, ZeroEnds
  <1> QED
      BY <1>1, <1>2, <1>3 DEF Inv

-----------------------------------------------------------------------------
(* Steps of the FileWriter *)

\* One slot of one cluster is replaced.
LEMMA OneSlot ==
    ASSUME NEW V, data \in Filled(V), NEW c \in Clusters, NEW i \in SlotIdx, NEW s \in V,
           data' = [data EXCEPT ![c][i] = s]
    PROVE  /\ data' \in Filled(V) /\ data'[c][i] = s
           /\ \A x \in Clusters, j \in SlotIdx : (x # c \/ j # i) => data'[x][j] = data[x][j]
  <1>1. data \in [Clusters -> [SlotIdx -> V]]
      BY DEF Filled, SlotIdx
  <1>2. data' = [data EXCEPT ![c] = [data[c] EXCEPT ![i] = s]]
      OBVIOUS
  <1>3. [data[c] EXCEPT ![i] = s] \in [SlotIdx -> V]
      BY <1>1
  <1>4. data' \in [Clusters -> [SlotIdx -> V]]
      BY <1>1, <1>2, <1>3
  <1>5. data'[c][i] = s
      BY <1>1, <1>2
  <1>6. \A x \in Clusters, j \in SlotIdx : (x # c \/ j # i) => data'[x][j] = data[x][j]
      BY <1>1, <1>2
  <1>7. data' \in Filled(V)
      BY <1>4 DEF Filled, SlotIdx
  <1> QED
      BY <1>5, <1>6, <1>7

\* The rest of what is to be appended.
LEMMA RestOf ==
    ASSUME NEW V, NEW s \in Seq(V), s # <<>>
    PROVE  /\ Head(s) \in V /\ Head(s) = s[1] /\ Tail(s) \in Seq(V)
           /\ Len(s) \in Nat \ {0} /\ Len(Tail(s)) = Len(s) - 1
           /\ \A i \in 1..(Len(s) - 1) : Tail(s)[i] = s[i + 1]
  <1>1. Len(s) \in Nat \ {0}
      BY EmptySeq, LenProperties
  <1> QED
      BY <1>1, HeadTailProperties, ElementOfSeq

\* The cluster where an entry will be appended is one of the chain's.
LEMMA WaitingPlace ==
    ASSUME NEW t, TableOK(t), NEW c \in Clusters, NEW size \in Nat,
           Skip(size) < Len(ChainOf(t, c))
    PROVE  /\ ChainOf(t, c) \in Walks /\ Skip(size) \in Nat
           /\ Skip(size) + 1 \in 1..Len(ChainOf(t, c))
           /\ ChainOf(t, c)[Skip(size) + 1] \in Clusters
           /\ size - Skip(size) * SlotsPerCluster \in 0..SlotsPerCluster
  <1>1. PICK b \in Nat \ {0} : b = SlotsPerCluster
      BY Sizes
  <1>2. PICK k : k = Skip(size)
      OBVIOUS
  <1>3. k = IF size = 0 THEN 0 ELSE (size - 1) \div b
      BY <1>1, <1>2 DEF Skip
  <1>4. k \in Nat /\ size - k * b \in 0..b
      BY <1>3, SkipPlace
  <1>5. PICK w \in Walks : w = ChainOf(t, c)
      BY ChainTyped
  <1>6. w \in Seq(Clusters) /\ Len(w) \in Nat /\ k + 1 \in 1..Len(w)
      BY <1>2, <1>4, <1>5, LastOf DEF Walks
  <1>7. w[k + 1] \in Clusters
      BY <1>6, ElementOfSeq
  <1> QED
      BY <1>1, <1>2, <1>4, <1>5, <1>6, <1>7

LEMMA WriteStep == ASSUME Inv, Write PROVE Inv'
  <1>1. /\ pc = "prompt" /\ todo # <<>> /\ wr.off < SlotsPerCluster
        /\ pc' = pc /\ flushed' = flushed /\ sessions' = sessions /\ fat' = fat
        /\ imgFat' = imgFat /\ fsinfo' = fsinfo /\ entry' = entry /\ lost' = lost
        /\ data' = [data EXCEPT ![wr.cluster][wr.off] = Head(todo)]
        /\ wr' = Writer(wr.cluster, wr.off + 1, wr.first, wr.total + 1)
        /\ todo' = Tail(todo)
      BY DEF Write
  <1>2. TypeInv /\ TypeOK /\ Busy
      BY <1>1 DEF Inv, TypeInv, Busy
  <1>3. PICK c \in Clusters : c = wr.cluster
      BY <1>2 DEF TypeInv
  <1>4. PICK o \in SlotIdx : o = wr.off
      BY <1>1, <1>2, Sizes DEF TypeOK, SlotIdx
  <1>5. PICK h : h = Head(todo)
      OBVIOUS
  <1>6. data' = [data EXCEPT ![c][o] = h]
      BY <1>1, <1>3, <1>4, <1>5
  <1>7. /\ h \in Leading(Clusters) /\ todo' \in Seq(Leading(Clusters))
        /\ Len(todo) \in Nat \ {0} /\ Len(todo') = Len(todo) - 1
        /\ h = todo[1] /\ \A i \in 1..Len(todo') : todo'[i] = todo[i + 1]
      BY <1>1, <1>2, <1>5, RestOf DEF TypeInv
  <1>17. data \in Filled(Leading(Clusters)) /\ h \in Leading(Clusters)
      BY <1>2, <1>7 DEF TypeInv
  <1>8. data' \in Filled(Leading(Clusters)) /\ data'[c][o] = h
    <2>1. data' \in Filled(Leading(Clusters))
        BY <1>6, <1>17, OneSlot
    <2>2. data'[c][o] = h
        BY <1>6, <1>17 DEF Filled, SlotIdx
    <2> QED
        BY <2>1, <2>2
  <1>9. \A x \in Clusters, j \in SlotIdx : (x # c \/ j # o) => data'[x][j] = data[x][j]
      BY <1>6, <1>17, OneSlot
  <1>10. data' \in Filled(Slots) /\ todo' \in Seq(Slots)
    <2>1. h \in Slots
        BY <1>7, LeadingSlots
    <2>2. data' \in Filled(Slots)
        BY <1>2, <1>6, <2>1, OneSlot DEF TypeOK, Filled
    <2> QED
        BY <1>1, <1>2, <2>2, RestOf DEF TypeOK
  <1>11. /\ wr' = [cluster |-> c, off |-> o + 1, first |-> wr.first, total |-> wr.total + 1]
         /\ wr.first \in Clusters /\ o + 1 \in 0..SlotsPerCluster /\ wr.total + 1 \in Nat
    <2>1. wr.first \in Clusters /\ wr.total \in Nat
        BY <1>2 DEF TypeInv, TypeOK
    <2>2. o + 1 \in 0..SlotsPerCluster
        BY Sizes DEF SlotIdx
    <2>3. wr' = [cluster |-> c, off |-> o + 1, first |-> wr.first, total |-> wr.total + 1]
        BY <1>1, <1>3, <1>4 DEF Writer
    <2> QED
        BY <2>1, <2>2, <2>3
  <1>12. wr' \in [cluster : Clusters \cup {0}, off : 0..SlotsPerCluster,
                  first : Clusters \cup {0}, total : Nat]
      BY <1>11
  <1>13. wr'.cluster = c /\ wr'.off = o + 1 /\ wr'.first = wr.first
      BY <1>11
  <1>14. TypeOK'
      BY <1>1, <1>2, <1>10, <1>12 DEF TypeOK, Filled
  <1>15. TypeInv'
      BY <1>1, <1>2, <1>7, <1>8, <1>11, <1>13, <1>14 DEF TypeInv, Busy
  <1>16. ASSUME lost = 0 PROVE SafeInv'
    <2>1. SafeInv /\ Current = fat /\ TableInv(fat) /\ WriterFresh /\ ZeroEnds
        BY <1>1, <1>16 DEF Inv, SafeInv, Current
    <2>2. Current' = fat
        BY <1>1 DEF Current
    <2>3. \A i \in SlotIdx : /\ i >= o => ~Written(data[c][i])
                             /\ i < o => ~IsZero(data[c][i])
        BY <1>3, <1>4, <2>1 DEF WriterFresh
    <2>4. fat[c] = EOC /\ EOC # 0
        BY <1>2, <1>3, <2>1 DEF TableInv, EOC
    <2>5. h \in Leading(Used(fat)) /\ todo' \in Seq(Leading(Used(fat)))
        BY <1>1, <1>5, <2>1, RestOf DEF TableInv
    <2>6. data' \in Filled(Leading(Used(fat)))
        BY <1>6, <2>1, <2>5, OneSlot DEF TableInv
    <2>7. FreeIsFresh(fat)'
        BY <1>1, <1>9, <2>1, <2>4 DEF TableInv, FreeIsFresh
    <2>8. TableInv(Current)'
        BY <1>1, <1>2, <1>3, <1>13, <2>1, <2>2, <2>4, <2>5, <2>6, <2>7 DEF TableInv, Busy
    <2>9. ZeroEnds'
      <3> SUFFICES ASSUME NEW x \in Clusters, NEW i \in SlotIdx, NEW j \in SlotIdx,
                          i < j, IsZero(data'[x][i])
                   PROVE  ~Written(data'[x][j])
          BY DEF ZeroEnds
      <3>1. CASE x # c
          BY <1>9, <2>1, <3>1 DEF ZeroEnds
      <3>2. CASE x = c
        <4>1. CASE i = o
          <5>1. ~Written(data[c][j]) /\ j # o
              BY <2>3, <4>1 DEF SlotIdx
          <5> QED
              BY <1>9, <3>2, <5>1
        <4>2. CASE j = o
          <5>1. i # o /\ i < o
              BY <4>2 DEF SlotIdx
          <5> QED
              BY <1>9, <2>3, <3>2, <5>1
        <4>3. CASE i # o /\ j # o
            BY <1>9, <2>1, <3>2, <4>3 DEF ZeroEnds
        <4> QED
            BY <4>1, <4>2, <4>3
      <3> QED
          BY <3>1, <3>2
    <2>10. \A i \in 1..Len(todo') : IsZero(todo'[i]) => i = Len(todo')
      <3> SUFFICES ASSUME NEW i \in 1..Len(todo'), IsZero(todo'[i]) PROVE i = Len(todo')
          OBVIOUS
      <3>1. i + 1 \in 1..Len(todo) /\ todo'[i] = todo[i + 1]
          BY <1>7
      <3>2. i + 1 = Len(todo)
          BY <2>1, <3>1 DEF SafeInv
      <3> QED
          BY <1>7, <3>2
    <2>11. ASSUME todo' # <<>> PROVE WriterFresh'
      <3>1. Len(todo') # 0
        <4>1. todo' \in Seq(Slots)
            BY <1>10
        <4> QED
            BY <2>11, <4>1, EmptySeq
      <3>2. 1 \in 1..Len(todo) /\ 1 # Len(todo)
          BY <1>7, <3>1
      <3>3. ~IsZero(h)
          BY <1>7, <2>1, <3>2 DEF SafeInv
      <3> SUFFICES ASSUME NEW i \in SlotIdx
                   PROVE  /\ i >= o + 1 => ~Written(data'[c][i])
                          /\ i < o + 1 => ~IsZero(data'[c][i])
          BY <1>13 DEF WriterFresh
      <3>4. CASE i = o
          BY <1>8, <3>3, <3>4 DEF SlotIdx
      <3>5. CASE i # o
        <4>1. data'[c][i] = data[c][i]
            BY <1>9, <3>5
        <4>2. (i >= o + 1 => i >= o) /\ (i < o + 1 => i < o)
            BY <3>5 DEF SlotIdx
        <4> QED
            BY <2>3, <4>1, <4>2
      <3> QED
          BY <3>4, <3>5
    <2>12. \A e \in entry' : Waiting(e)'
      <3> SUFFICES ASSUME NEW e \in entry PROVE Waiting(e)'
          BY <1>1
      <3>1. PICK d : d = ChainOf(fat, e.cluster)[Skip(e.size) + 1]
          OBVIOUS
      <3>2. PICK off : off = e.size - Skip(e.size) * SlotsPerCluster
          OBVIOUS
      <3>3. /\ e.cluster \in Used(fat) /\ Skip(e.size) < Len(ChainOf(fat, e.cluster))
            /\ EndOfList(d, off)
          BY <2>1, <3>1, <3>2 DEF SafeInv, Waiting
      <3>4. d \in Clusters
          BY <1>1, <1>2, <3>1, <3>3, WaitingPlace DEF TypeInv, TypeOK
      <3>5. \A i \in SlotIdx : data'[d][i] = data[d][i]
          BY <1>3, <1>9, <3>3, <3>4 DEF EndOfList
      <3>6. EndOfList(d, off)'
        <4>1. /\ off \in 0..SlotsPerCluster /\ d # c
              /\ off < SlotsPerCluster => IsZero(data[d][off])
              /\ \A i \in 0..(off - 1) : ~IsZero(data[d][i])
            BY <1>3, <3>3 DEF EndOfList
        <4>2. /\ off < SlotsPerCluster => off \in SlotIdx
              /\ \A i \in 0..(off - 1) : i \in SlotIdx
            BY <4>1, Sizes DEF SlotIdx
        <4> QED
            BY <1>13, <3>5, <4>1, <4>2 DEF EndOfList
      <3> QED
          BY <1>1, <3>1, <3>2, <3>3, <3>6 DEF Waiting
    <2> QED
        BY <1>1, <2>8, <2>9, <2>10, <2>11, <2>12 DEF SafeInv
  <1> QED
      BY <1>1, <1>15, <1>16 DEF Inv

\* An entry that waits still does when a free cluster has come into use.
LEMMA StillEnd ==
    ASSUME NEW t, TableOK(t), Linked(t), NEW v, TableOK(v), Extends(t, v),
           NEW c \in Used(t), NEW size \in Nat, Skip(size) < Len(ChainOf(t, c)), NEW d,
           d = ChainOf(t, c)[Skip(size) + 1]
    PROVE  /\ d \in Used(t) /\ Skip(size) < Len(ChainOf(v, c))
           /\ ChainOf(v, c)[Skip(size) + 1] = d
  <1>1. c \in Clusters
      BY DEF Used
  <1>2. PICK k \in Nat : k = Skip(size) /\ k + 1 \in 1..Len(ChainOf(t, c))
      BY <1>1, WaitingPlace
  <1>3. d \in Used(t)
      BY <1>2, ChainUsed
  <1>4. Begins(ChainOf(t, c), ChainOf(v, c))
      BY <1>1, ChainGrows
  <1>5. Len(ChainOf(t, c)) \in Nat /\ Len(ChainOf(v, c)) \in Nat
      BY <1>1, ChainTyped, LastOf
  <1> QED
      BY <1>2, <1>3, <1>4, <1>5 DEF Begins

LEMMA ExtendStep == ASSUME Inv, Extend PROVE Inv'
  <1>1. PICK c : c = FindFreeCluster(fat)
      OBVIOUS
  <1>2. /\ pc = "prompt" /\ todo # <<>> /\ c # NoCluster
        /\ pc' = pc /\ flushed' = flushed /\ sessions' = sessions
        /\ imgFat' = imgFat /\ data' = data /\ fsinfo' = fsinfo /\ entry' = entry /\ lost' = lost
        /\ fat' = AllocateAfter(fat, wr.cluster, c)
        /\ wr' = Writer(c, 0, wr.first, wr.total)
        /\ todo' = todo
      BY <1>1 DEF Extend, image
  <1>3. TypeInv /\ TypeOK /\ Busy /\ TableOK(fat)
      BY <1>2 DEF Inv, TypeInv, Busy
  <1>4. PICK l \in Clusters : l = wr.cluster
      BY <1>3 DEF TypeInv
  <1>5. c \in Clusters /\ fat[c] = 0
      BY <1>1, <1>2, <1>3, FreeCluster
  <1>6. TableOK(fat')
      BY <1>2, <1>3, <1>4, <1>5, AfterOK
  <1>7. fat' \in Tables
      BY <1>6 DEF TableOK, Tables
  <1>8. wr.first \in Clusters /\ wr.total \in Nat
      BY <1>3 DEF TypeInv, TypeOK
  <1>9. wr' = [cluster |-> c, off |-> 0, first |-> wr.first, total |-> wr.total]
      BY <1>2 DEF Writer
  <1>10. wr'.cluster = c /\ wr'.off = 0 /\ wr'.first = wr.first
      BY <1>9
  <1>11. wr' \in [cluster : Clusters \cup {0}, off : 0..SlotsPerCluster,
                  first : Clusters \cup {0}, total : Nat]
      BY <1>5, <1>8, <1>9, Sizes
  <1>12. TypeOK'
      BY <1>2, <1>3, <1>7, <1>11 DEF TypeOK
  <1>13. TypeInv'
      BY <1>2, <1>3, <1>5, <1>6, <1>8, <1>10, <1>12 DEF TypeInv, Busy
  <1>14. ASSUME lost = 0 PROVE SafeInv'
    <2>1. SafeInv /\ Current = fat /\ TableInv(fat)
        BY <1>2, <1>14 DEF Inv, SafeInv, Current
    <2>2. Current' = fat'
        BY <1>2 DEF Current
    <2>3. Linked(fat) /\ fat[l] = EOC
        BY <1>3, <1>4, <2>1 DEF TableInv
    <2>4. PICK v : v = fat'
        OBVIOUS
    <2>5. v = AllocateAfter(fat, l, c)
        BY <1>2, <1>4, <2>4
    <2>6. /\ Extends(fat, v) /\ v[c] = EOC
          /\ Used(v) = Used(fat) \cup {c} /\ c \notin Used(fat)
          /\ Linked(v)
        BY <1>3, <1>5, <2>3, <2>5, GrowTable
    <2>7. data' \in Filled(Leading(Used(v))) /\ todo' \in Seq(Leading(Used(v)))
      <3>1. Used(fat) \subseteq Used(v)
          BY <2>6
      <3>2. data \in Filled(Leading(Used(fat))) /\ todo \in Seq(Leading(Used(fat)))
          BY <2>1 DEF TableInv
      <3> QED
          BY <1>2, <3>1, <3>2, LeadingMore
    <2>8. \A x \in Clusters : v[x] = 0 => fat[x] = 0
        BY <2>6 DEF Used
    <2>9. TableInv(v)'
      <3>1. Root \in Used(v) /\ wr'.first \in Used(v)
          BY <1>3, <1>10, <2>1, <2>6 DEF TableInv
      <3>2. FreeIsFresh(v)'
          BY <1>2, <2>1, <2>8 DEF TableInv, FreeIsFresh
      <3> QED
          BY <1>10, <2>6, <2>7, <3>1, <3>2 DEF TableInv
    <2>10. WriterFresh'
      <3>1. \A i \in SlotIdx : ~Written(data[c][i]) /\ ~(i < 0)
          BY <1>5, <2>1 DEF TableInv, FreeIsFresh, SlotIdx
      <3> QED
          BY <1>2, <1>10, <3>1 DEF WriterFresh
    <2>11. \A e \in entry' : Waiting(e)'
      <3> SUFFICES ASSUME NEW e \in entry PROVE Waiting(e)'
          BY <1>2
      <3>1. PICK d : d = ChainOf(fat, e.cluster)[Skip(e.size) + 1]
          OBVIOUS
      <3>2. PICK off : off = e.size - Skip(e.size) * SlotsPerCluster
          OBVIOUS
      <3>3. /\ e.cluster \in Used(fat) /\ Skip(e.size) < Len(ChainOf(fat, e.cluster))
            /\ EndOfList(d, off)
          BY <2>1, <3>1, <3>2 DEF SafeInv, Waiting
      <3>4. e.size \in Nat
          BY <1>3 DEF TypeOK
      <3>5. TableOK(v)
          BY <1>6, <2>4
      <3>6. /\ d \in Used(fat) /\ Skip(e.size) < Len(ChainOf(v, e.cluster))
            /\ ChainOf(v, e.cluster)[Skip(e.size) + 1] = d
          BY <1>3, <2>3, <2>6, <3>1, <3>3, <3>4, <3>5, StillEnd
      <3>7. EndOfList(d, off)'
          BY <1>2, <1>10, <2>6, <3>3, <3>6 DEF EndOfList
      <3> QED
          BY <2>4, <2>6, <3>2, <3>3, <3>6, <3>7 DEF Waiting
    <2> QED
        BY <1>2, <2>1, <2>2, <2>4, <2>9, <2>10, <2>11 DEF SafeInv, ZeroEnds
  <1> QED
      BY <1>2, <1>13, <1>14 DEF Inv

\* The entry goes to the end of its directory.
LEMMA AppendStep == ASSUME Inv, AppendDirectoryEntry PROVE Inv'
  <1>1. PICK e \in entry :
            /\ AtEnd(e.cluster, e.size)
            /\ LET last == ChainOf(fat, e.cluster)[Skip(e.size) + 1]
               IN  wr' = Writer(last, e.size - Skip(e.size) * SlotsPerCluster, e.cluster, e.size)
            /\ todo' = <<DirEnt(e.isDir, e.name, wr.first, IF e.isDir THEN 0 ELSE wr.total), Zero>>
      BY DEF AppendDirectoryEntry
  <1>2. /\ pc = "prompt" /\ entry' = {}
        /\ pc' = pc /\ flushed' = flushed /\ sessions' = sessions /\ fat' = fat
        /\ imgFat' = imgFat /\ data' = data /\ fsinfo' = fsinfo /\ lost' = lost
      BY DEF AppendDirectoryEntry, image
  <1>3. TypeInv /\ TypeOK /\ Busy /\ TableOK(fat)
      BY <1>1, <1>2 DEF Inv, TypeInv, Busy
  <1>4. /\ e.name \in Names /\ e.isDir \in BOOLEAN /\ e.cluster \in Clusters /\ e.size \in Nat
        /\ wr.first \in Clusters /\ wr.total \in Nat
      BY <1>1, <1>3 DEF TypeInv, TypeOK
  <1>5. PICK last : last = ChainOf(fat, e.cluster)[Skip(e.size) + 1]
      OBVIOUS
  <1>6. PICK off : off = e.size - Skip(e.size) * SlotsPerCluster
      OBVIOUS
  <1>7. Skip(e.size) < Len(ChainOf(fat, e.cluster)) /\ fat[last] >= EOC
      BY <1>1, <1>5 DEF AtEnd
  <1>8. last \in Clusters /\ off \in 0..SlotsPerCluster
      BY <1>3, <1>4, <1>5, <1>6, <1>7, WaitingPlace
  <1>9. fat[last] = EOC
    <2>1. fat[last] \in Links
        BY <1>3, <1>8, Sizes DEF TableOK
    <2> QED
        BY <1>7, <2>1, LinkValues
  <1>10. wr' = [cluster |-> last, off |-> off, first |-> e.cluster, total |-> e.size]
      BY <1>1, <1>5, <1>6 DEF Writer
  <1>11. wr'.cluster = last /\ wr'.off = off /\ wr'.first = e.cluster
      BY <1>10
  <1>12. wr' \in [cluster : Clusters \cup {0}, off : 0..SlotsPerCluster,
                  first : Clusters \cup {0}, total : Nat]
      BY <1>4, <1>8, <1>10
  <1>13. PICK s : s = DirEnt(e.isDir, e.name, wr.first, IF e.isDir THEN 0 ELSE wr.total)
      OBVIOUS
  <1>14. todo' = <<s, Zero>>
      BY <1>1, <1>13
  <1>15. ASSUME NEW C, wr.first \in C
         PROVE  s \in Leading(C) /\ ~IsZero(s) /\ Zero \in Leading(C)
    <2>1. wr.first \in C \cap Nat /\ e.name \in Labels /\ "" \in Labels
        BY <1>4, <1>15, Sizes DEF Labels
    <2>2. PICK size \in Nat : size = IF e.isDir THEN 0 ELSE wr.total
        BY <1>4
    <2>3. s \in Leading(C) /\ ~IsZero(s)
      <3>1. s = DirEnt(e.isDir, e.name, wr.first, size)
          BY <1>13, <2>2, Zenon
      <3>2. PICK d \in BOOLEAN : d = e.isDir
          BY <1>4, Zenon
      <3>3. PICK f \in C \cap Nat : f = wr.first
          BY <2>1, Zenon
      <3>4. PICK n \in Labels : n = e.name
          BY <2>1, Zenon
      <3>5. s = DirEnt(d, n, f, size)
          BY <3>1, <3>2, <3>3, <3>4, Zenon
      <3> QED
          BY <3>5, EntrySlot, Zenon
    <2>4. Zero \in Leading(C)
        BY <2>1, DataSlot DEF Zero
    <2> QED
        BY <2>3, <2>4
  <1>16. todo' \in Seq(Leading(Clusters)) /\ todo' \in Seq(Slots)
    <2>1. s \in Leading(Clusters) /\ Zero \in Leading(Clusters)
        BY <1>4, <1>15
    <2>2. s \in Slots /\ Zero \in Slots
        BY <2>1, LeadingSlots
    <2> QED
        BY <1>14, <2>1, <2>2
  <1>17. Cardinality(entry') <= 1
      BY <1>2, FS_EmptySet
  <1>18. TypeOK'
      BY <1>2, <1>3, <1>12, <1>16, <1>17 DEF TypeOK
  <1>19. TypeInv'
      BY <1>2, <1>3, <1>4, <1>8, <1>11, <1>16, <1>18 DEF TypeInv, Busy
  <1>20. ASSUME lost = 0 PROVE SafeInv'
    <2>1. SafeInv /\ Current = fat /\ TableInv(fat) /\ Waiting(e) /\ ZeroEnds
        BY <1>1, <1>2, <1>20 DEF Inv, SafeInv, Current
    <2>2. Current' = fat
        BY <1>2 DEF Current
    <2>3. e.cluster \in Used(fat) /\ EndOfList(last, off)
        BY <1>5, <1>6, <2>1 DEF Waiting
    <2>4. wr.first \in Used(fat)
        BY <1>3, <2>1 DEF TableInv
    <2>5. s \in Leading(Used(fat)) /\ ~IsZero(s) /\ Zero \in Leading(Used(fat))
        BY <1>15, <2>4
    <2>6. todo' \in Seq(Leading(Used(fat)))
        BY <1>14, <2>5
    <2>7. TableInv(fat)'
      <3>1. FreeIsFresh(fat)'
          BY <1>2, <2>1 DEF TableInv, FreeIsFresh
      <3>2. data' \in Filled(Leading(Used(fat)))
          BY <1>2, <2>1 DEF TableInv
      <3>3. Linked(fat) /\ Root \in Used(fat)
          BY <2>1 DEF TableInv
      <3> QED
          BY <1>2, <1>9, <1>11, <2>3, <2>6, <3>1, <3>2, <3>3 DEF TableInv
    <2>8. WriterFresh'
      <3> SUFFICES ASSUME NEW i \in SlotIdx
                   PROVE  /\ i >= off => ~Written(data[last][i])
                          /\ i < off => ~IsZero(data[last][i])
          BY <1>2, <1>11 DEF WriterFresh
      <3>1. ASSUME i >= off PROVE ~Written(data[last][i])
        <4>1. off < SlotsPerCluster /\ off \in SlotIdx
            BY <1>8, <3>1, Sizes DEF SlotIdx
        <4>2. IsZero(data[last][off])
            BY <2>3, <4>1 DEF EndOfList
        <4>3. CASE i = off
            BY <4>2, <4>3 DEF IsZero, Written
        <4>4. CASE i # off
          <5>1. off < i
              BY <1>8, <3>1, <4>4 DEF SlotIdx
          <5> QED
              BY <1>8, <2>1, <4>1, <4>2, <5>1 DEF ZeroEnds
        <4> QED
            BY <4>3, <4>4
      <3>2. ASSUME i < off PROVE ~IsZero(data[last][i])
        <4>1. i \in 0..(off - 1)
            BY <1>8, <3>2 DEF SlotIdx
        <4> QED
            BY <2>3, <4>1 DEF EndOfList
      <3> QED
          BY <3>1, <3>2
    <2>9. \A i \in 1..Len(todo') : IsZero(todo'[i]) => i = Len(todo')
      <3>1. Len(todo') = 2 /\ todo'[1] = s
          BY <1>14
      <3> QED
          BY <2>5, <3>1
    <2> QED
        BY <1>2, <2>1, <2>2, <2>7, <2>8, <2>9 DEF SafeInv, ZeroEnds
  <1> QED
      BY <1>2, <1>19, <1>20 DEF Inv

-----------------------------------------------------------------------------
(* Commands *)

\* The directory a command names, when there is one, is in a cluster its entry
\* leads to.
LEMMA ParentIn ==
    ASSUME NEW C, C \subseteq Clusters, Root \in C, data \in Filled(Leading(C)), TableOK(fat),
           NEW dir \in Dirs, FindFile(fat, dir).t = "dir"
    PROVE  FindFile(fat, dir).first \in C
  <1> DEFINE V == Leading(C) \cup {NotFound, RootEntry}
  <1>1. RootEntry.t = "dir" /\ RootEntry.first = Root /\ NotFound.t # "dir"
      BY DEF RootEntry, NotFound, DirEnt, Slot
  <1>2. \A s \in V : s.t = "dir" => s.first \in C
      BY <1>1 DEF Leading, IsEntry
  <1>3. data \in Filled(V)
    <2> DEFINE L == Leading(C)
    <2>1. L \subseteq V /\ data \in Filled(L)
        OBVIOUS
    <2> HIDE DEF L, V
    <2> QED
        BY <2>1 DEF Filled
  <1>4. RootEntry \in V /\ NotFound \in V
      OBVIOUS
  <1>5. dir \in Seq(Names)
    <2>1. CASE dir = <<>>
        BY <2>1, EmptySeq
    <2>2. CASE \E n \in Names : dir = <<n>>
        BY <2>2
    <2> QED
        BY <2>1, <2>2 DEF Dirs
  <1>6. \A s \in V : s.t = "dir" => s.first \in Clusters
      BY <1>2
  <1>7. FindFile(fat, dir) \in V
    <2> HIDE DEF V
    <2> QED
        BY <1>3, <1>4, <1>5, <1>6, Found
  <1> QED
      BY <1>2, <1>7

\* What a command appends to the new file: slots that are not zero, up to the
\* one that ends a directory.
NewContents(parent, first, what) ==
    IF what = "dir" THEN EmptyDirectory(parent, first) ELSE Contents(what)

LEMMA NewFile ==
    ASSUME NEW C, C \subseteq Clusters, NEW parent \in C, NEW first \in C,
           NEW what \in {"dir"} \cup (Inputs \ Unreadable),
           NEW q, q = NewContents(parent, first, what)
    PROVE  q \in Seq(Leading(C)) /\ \A i \in 1..Len(q) : IsZero(q[i]) => i = Len(q)
  <1>1. {"", ".", ".."} \subseteq Labels /\ Inputs \subseteq Labels
      BY DEF Labels
  <1>2. parent \in C \cap Nat /\ first \in C \cap Nat
      BY Sizes
  <1>3. CASE what = "dir"
    <2>1. PICK a : a = DirEnt(TRUE, ".", first, 0)
        OBVIOUS
    <2>2. PICK b : b = DirEnt(TRUE, "..", parent, 0)
        OBVIOUS
    <2>3. q = <<a, b, Zero>>
        BY <1>3, <2>1, <2>2 DEF NewContents, EmptyDirectory
    <2>4. PICK tr \in BOOLEAN : tr = TRUE
        BY Zenon
    <2>5. PICK d1 \in Labels : d1 = "."
        BY <1>1
    <2>6. PICK d2 \in Labels : d2 = ".."
        BY <1>1
    <2>7. a = DirEnt(tr, d1, first, 0) /\ b = DirEnt(tr, d2, parent, 0)
        BY <2>1, <2>2, <2>4, <2>5, <2>6, Zenon
    <2>8. 0 \in Nat
        OBVIOUS
    <2>9. a \in Leading(C) /\ ~IsZero(a)
        BY <1>2, <2>7, <2>8, EntrySlot, Zenon
    <2>10. b \in Leading(C) /\ ~IsZero(b)
        BY <1>2, <2>7, <2>8, EntrySlot, Zenon
    <2>11. Zero \in Leading(C)
        BY <1>1, DataSlot DEF Zero
    <2>12. q \in Seq(Leading(C)) /\ Len(q) = 3 /\ q[1] = a /\ q[2] = b
        BY <2>3, <2>9, <2>10, <2>11
    <2> QED
        BY <2>9, <2>10, <2>12
  <1>4. CASE what \in Inputs \ Unreadable /\ what # "dir"
    <2>1. PICK n \in Nat : n = FileSize[what]
        BY <1>4, FatEditAssumption
    <2>2. q = [i \in 1..n |-> Piece(what, i)]
        BY <1>4, <2>1 DEF NewContents, Contents
    <2>3. ASSUME NEW i \in 1..n PROVE Piece(what, i) \in Leading(C) /\ ~IsZero(Piece(what, i))
      <3>1. i \in Nat
          BY <2>1
      <3>2. what \in Labels
          BY <1>1, <1>4, Zenon
      <3> QED
          BY <3>1, <3>2, DataSlot DEF Piece
    <2>4. q \in [1..n -> Leading(C)]
        BY <2>2, <2>3
    <2>5. q \in Seq(Leading(C)) /\ Len(q) = n
        BY <2>1, <2>4, SeqDef
    <2>6. \A i \in 1..n : q[i] = Piece(what, i)
        BY <2>2
    <2> QED
        BY <2>3, <2>5, <2>6
  <1> QED
      BY <1>3, <1>4

LEMMA BeginStep ==
    ASSUME Inv, Idle, NEW dir \in Dirs, NEW name \in Names, MayCreate(dir, name),
           NEW what \in {"dir"} \cup (Inputs \ Unreadable),
           BeginFile(FindFile(fat, dir).first, FindFreeCluster(fat), name, what)
    PROVE  Inv'
  <1>1. PICK parent : parent = FindFile(fat, dir).first
      OBVIOUS
  <1>2. PICK c : c = FindFreeCluster(fat)
      OBVIOUS
  <1>3. PICK total : total = ScanDirectory(fat, parent).total
      OBVIOUS
  <1>4. PICK isDir \in BOOLEAN : isDir = (what = "dir")
      BY Zenon
  <1>5. /\ pc = "prompt" /\ c # NoCluster
        /\ pc' = pc /\ flushed' = flushed /\ sessions' = sessions
        /\ imgFat' = imgFat /\ data' = data /\ fsinfo' = fsinfo /\ lost' = lost
        /\ fat' = Allocate(fat, c)
        /\ wr' = Writer(c, 0, c, 0)
        /\ todo' = NewContents(parent, c, what)
      BY <1>1, <1>2 DEF BeginFile, Idle, image, NewContents
  <1>6. entry' = {Entry(name, isDir, parent, total)}
      BY <1>1, <1>3, <1>4, Zenon DEF BeginFile
  <1>7. TypeInv /\ TypeOK /\ TableOK(fat)
      BY <1>5 DEF Inv, TypeInv
  <1>8. FindFile(fat, dir).t = "dir"
      BY DEF MayCreate, ParentAccepts
  <1>9. parent \in Clusters
      BY <1>1, <1>7, <1>8, Sizes, ParentIn DEF TypeInv
  <1>10. c \in Clusters /\ fat[c] = 0
      BY <1>2, <1>5, <1>7, FreeCluster
  <1>11. PICK v : v = fat'
      OBVIOUS
  <1>12. v = Allocate(fat, c)
      BY <1>5, <1>11
  <1>13. /\ TableOK(v) /\ Extends(fat, v) /\ v[c] = EOC
         /\ Used(v) = Used(fat) \cup {c} /\ c \notin Used(fat)
         /\ Linked(fat) => Linked(v)
      BY <1>7, <1>10, <1>12, GrowTable
  <1>14. ChainOf(fat, parent) \in Walks
      BY <1>7, <1>9, ChainTyped
  <1>15. total \in Nat /\ IsScan(ChainOf(fat, parent), total)
    <2>1. data \in Filled(Leading(Clusters))
        BY <1>7 DEF TypeInv
    <2> QED
        BY <1>3, <1>7, <1>9, <1>14, <2>1, ScanIs
  <1>16. PICK e : e = [name |-> name, isDir |-> isDir, cluster |-> parent, size |-> total]
      OBVIOUS
  <1>17. entry' = {e}
      BY <1>6, <1>16, Zenon DEF Entry
  <1>18. e.cluster = parent /\ e.size = total
      BY <1>16
  <1>19. e \in [name : Names, isDir : BOOLEAN, cluster : Clusters, size : Nat]
      BY <1>9, <1>15, <1>16
  <1>20. wr' = [cluster |-> c, off |-> 0, first |-> c, total |-> 0]
      BY <1>5 DEF Writer
  <1>21. wr'.cluster = c /\ wr'.off = 0 /\ wr'.first = c
      BY <1>20
  <1>22. wr' \in [cluster : Clusters \cup {0}, off : 0..SlotsPerCluster,
                  first : Clusters \cup {0}, total : Nat]
      BY <1>10, <1>20, Sizes
  <1>23. todo' \in Seq(Leading(Clusters)) /\ todo' \in Seq(Slots)
    <2>1. PICK q : q = NewContents(parent, c, what)
        OBVIOUS
    <2>2. q \in Seq(Leading(Clusters))
        BY <1>9, <1>10, <2>1, NewFile
    <2>3. q \in Seq(Slots)
      <3>1. Len(q) \in Nat /\ q \in [1..Len(q) -> Leading(Clusters)]
          BY <2>2, LenProperties
      <3>2. q \in [1..Len(q) -> Slots]
          BY <3>1, LeadingSlots
      <3> QED
          BY <3>1, <3>2, SeqDef
    <2> QED
        BY <1>5, <2>1, <2>2, <2>3
  <1>24. fat' \in Tables
      BY <1>11, <1>13 DEF TableOK, Tables
  <1>25. Cardinality(entry') <= 1
    <2>1. Cardinality({e}) = 1
        BY FS_Singleton
    <2> QED
        BY <1>17, <2>1
  <1>26. TypeOK'
      BY <1>5, <1>7, <1>17, <1>19, <1>22, <1>23, <1>24, <1>25 DEF TypeOK
  <1>27. TypeInv'
      BY <1>5, <1>7, <1>10, <1>11, <1>13, <1>17, <1>21, <1>23, <1>26 DEF TypeInv, Busy
  <1>28. ASSUME lost = 0 PROVE SafeInv'
    <2>1. SafeInv /\ Current = fat /\ TableInv(fat)
        BY <1>5, <1>28 DEF Inv, SafeInv, Current
    <2>2. Current' = v
        BY <1>5, <1>11 DEF Current
    <2>3. Used(fat) \subseteq Clusters /\ Root \in Used(fat) /\ Linked(fat)
          /\ data \in Filled(Leading(Used(fat)))
        BY <2>1 DEF TableInv, Used
    <2>4. parent \in Used(fat)
        BY <1>1, <1>7, <1>8, <2>3, ParentIn
    <2>5. Used(fat) \subseteq Used(v) /\ Used(v) \subseteq Clusters /\ parent \in Used(v) /\ c \in Used(v)
        BY <1>13, <2>4 DEF Used
    <2>6. /\ todo' \in Seq(Leading(Used(v)))
          /\ \A i \in 1..Len(todo') : IsZero(todo'[i]) => i = Len(todo')
      <3>1. PICK q : q = NewContents(parent, c, what)
          OBVIOUS
      <3>2. q \in Seq(Leading(Used(v))) /\ \A i \in 1..Len(q) : IsZero(q[i]) => i = Len(q)
        <4>1. PICK U : U = Used(v)
            OBVIOUS
        <4>2. U \subseteq Clusters /\ parent \in U /\ c \in U
            BY <2>5, <4>1
        <4>3. q \in Seq(Leading(U)) /\ \A i \in 1..Len(q) : IsZero(q[i]) => i = Len(q)
            BY <3>1, <4>2, NewFile
        <4> QED
            BY <4>1, <4>3
      <3>3. todo' = q
          BY <1>5, <3>1
      <3> QED
          BY <3>2, <3>3
    <2>7. data' \in Filled(Leading(Used(v)))
        BY <1>5, <2>3, <2>5, LeadingMore
    <2>8. \A x \in Clusters : v[x] = 0 => fat[x] = 0
        BY <1>13 DEF Used
    <2>9. TableInv(v)'
      <3>1. Linked(v) /\ Root \in Used(v)
          BY <1>13, <2>3
      <3>2. FreeIsFresh(v)'
          BY <1>5, <2>1, <2>8 DEF TableInv, FreeIsFresh
      <3> QED
          BY <1>13, <1>21, <2>5, <2>6, <2>7, <3>1, <3>2 DEF TableInv
    <2>10. WriterFresh'
      <3>1. \A i \in SlotIdx : ~Written(data[c][i]) /\ ~(i < 0)
          BY <1>10, <2>1 DEF TableInv, FreeIsFresh, SlotIdx
      <3> QED
          BY <1>5, <1>21, <3>1 DEF WriterFresh
    <2>11. Waiting(e)'
      <3>1. PICK k : k = Skip(total)
          OBVIOUS
      <3>2. PICK off : off = total - k * SlotsPerCluster
          OBVIOUS
      <3>3. PICK w \in Walks : w = ChainOf(fat, parent)
          BY <1>14
      <3>4. IsScan(w, total)
          BY <1>15, <3>3
      <3>5. /\ k \in Nat /\ k < Len(w) /\ off \in 0..SlotsPerCluster
            /\ off < SlotsPerCluster => IsZero(data[w[k + 1]][off])
            /\ \A i \in 0..(off - 1) : ~IsZero(data[w[k + 1]][i])
          BY <3>1, <3>2, <3>4, EndPlace
      <3>6. PICK d : d = w[k + 1]
          OBVIOUS
      <3>7. Skip(total) < Len(ChainOf(fat, parent)) /\ d = ChainOf(fat, parent)[Skip(total) + 1]
          BY <3>1, <3>3, <3>5, <3>6
      <3>8. /\ d \in Used(fat) /\ Skip(total) < Len(ChainOf(v, parent))
            /\ ChainOf(v, parent)[Skip(total) + 1] = d
          BY <1>7, <1>13, <1>15, <2>3, <2>4, <3>7, StillEnd
      <3>9. d # c
          BY <1>13, <3>8
      <3>10. EndOfList(d, off)'
          BY <1>5, <1>21, <3>5, <3>6, <3>9 DEF EndOfList
      <3> QED
          BY <1>11, <1>18, <2>5, <3>1, <3>2, <3>8, <3>10 DEF Waiting
    <2>12. \A x \in entry' : Waiting(x)'
        BY <1>17, <2>11
    <2> QED
        BY <1>5, <2>1, <2>2, <2>6, <2>9, <2>10, <2>12 DEF SafeInv, ZeroEnds
  <1> QED
      BY <1>5, <1>27, <1>28 DEF Inv

-----------------------------------------------------------------------------
(* Theorems *)

LEMMA CommandStep ==
    ASSUME Inv, NEW dir \in Dirs, NEW name \in Names, Command(dir, name)
    PROVE  Inv'
  <1>1. ASSUME CreateDirectory(dir, name) PROVE Inv'
    <2>1. PICK what \in {"dir"} \cup (Inputs \ Unreadable) : what = "dir"
        OBVIOUS
    <2> QED
        BY <1>1, <2>1, BeginStep DEF CreateDirectory
  <1>2. ASSUME CreateFails(dir, name) PROVE Inv'
      BY <1>2, DieStep DEF CreateFails, Idle
  <1>3. ASSUME NEW f \in Inputs, PackDirectory(dir, name, f) PROVE Inv'
    <2>1. f \in {"dir"} \cup (Inputs \ Unreadable)
        BY <1>3 DEF PackDirectory
    <2> QED
        BY <1>3, <2>1, BeginStep DEF PackDirectory
  <1>4. ASSUME NEW f \in Inputs, PackFails(dir, name, f) PROVE Inv'
      BY <1>4, DieStep DEF PackFails, Idle
  <1> QED
      BY <1>1, <1>2, <1>3, <1>4 DEF Command

LEMMA StepInv == ASSUME Inv, [Next \/ Crash]_vars PROVE Inv'
  <1>1. ASSUME ExtendFails PROVE Inv'
      BY <1>1, DieStep DEF ExtendFails
  <1>2. ASSUME AppendEntryFails PROVE Inv'
      BY <1>2, DieStep DEF AppendEntryFails
  <1>3. ASSUME Crash PROVE Inv'
      BY <1>3, DieStep DEF Crash
  <1>4. ASSUME Proceed PROVE Inv'
      BY <1>1, <1>2, <1>4, WriteStep, ExtendStep, AppendStep, TableStep, InfoStep DEF Proceed
  <1>5. ASSUME Next PROVE Inv'
      BY <1>4, <1>5, OpenStep, CommandStep, EndStep DEF Next
  <1> QED
      BY <1>3, <1>5, StutterStep

\* The inductive invariant holds in every state, with a kill at any step.
THEOREM Invariance == CrashSpec => []Inv
  <1>1. Init => Inv
      BY InitInv
  <1>2. Inv /\ [Next \/ Crash]_vars => Inv'
      BY StepInv
  <1> QED
      BY <1>1, <1>2, PTL DEF CrashSpec

\* The variables of the editor have their types: in particular no step, in no
\* order of commands, failures and kills, puts a link into a table that leads
\* outside the data clusters, or a writer behind the end of its cluster.
THEOREM TypeCorrect == CrashSpec => []TypeOK
  <1>1. Inv => TypeOK
      BY DEF Inv, TypeInv
  <1> QED
      BY <1>1, Invariance, PTL

\* Only Write changes data, and the slot it writes to was not in use.
LEMMA KeepsWritten ==
    ASSUME Inv, [Next \/ Crash]_vars, lost = 0, NEW c \in Clusters,
           NEW i \in 0..(SlotsPerCluster - 1), data[c][i].t \in {"dir", "file", "piece"}
    PROVE  data'[c][i] = data[c][i]
  <1>1. CASE Write
    <2>1. /\ pc = "prompt" /\ todo # <<>> /\ wr.off < SlotsPerCluster
          /\ data' = [data EXCEPT ![wr.cluster][wr.off] = Head(todo)]
        BY <1>1 DEF Write
    <2>2. TypeInv /\ SafeInv /\ Busy
        BY <2>1 DEF Inv, Busy
    <2>3. PICK w \in Clusters : w = wr.cluster
        BY <2>2 DEF TypeInv
    <2>4. PICK o \in SlotIdx : o = wr.off
        BY <2>1, <2>2, Sizes DEF TypeInv, TypeOK, SlotIdx
    <2>5. PICK h : h = Head(todo)
        OBVIOUS
    <2>6. data' = [data EXCEPT ![w][o] = h] /\ data \in Filled(Slots) /\ h \in Slots
        BY <2>1, <2>2, <2>3, <2>4, <2>5, RestOf DEF TypeInv, TypeOK, Filled
    <2>7. ~Written(data[w][o])
        BY <2>1, <2>2, <2>3, <2>4 DEF SafeInv, WriterFresh, SlotIdx
    <2>8. i \in SlotIdx /\ (c # w \/ i # o)
        BY <2>7 DEF SlotIdx, Written
    <2> QED
        BY <2>6, <2>8, OneSlot
  <1>2. CASE ~Write
    <2>1. data' = data
        BY <1>2 DEF Next, Crash, Die, Open, Command, CreateDirectory, CreateFails, PackDirectory,
                    PackFails, BeginFile, EndOfInput, Proceed, Extend, ExtendFails,
                    AppendDirectoryEntry, AppendEntryFails, WriteTable, WriteFsInfo, image, vars
    <2> QED
        BY <2>1
  <1> QED
      BY <1>1, <1>2

\* Until the first session is lost no step overwrites a directory entry or a
\* piece of a file: where FileWriter continues is always the end of a directory
\* or a cluster nobody has used, for every image, whatever earlier sessions did.
THEOREM NothingOverwritten == CrashSpec => NeverOverwrites
  <1> DEFINE Kept == lost = 0 => \A c \in Clusters : \A i \in 0..(SlotsPerCluster - 1) :
                        data[c][i].t \in {"dir", "file", "piece"} => data'[c][i] = data[c][i]
  <1>1. Inv /\ [Next \/ Crash]_vars => [Kept]_vars
      BY KeepsWritten
  <1> QED
      BY <1>1, Invariance, PTL DEF CrashSpec, NeverOverwrites

-----------------------------------------------------------------------------
(***************************************************************************)
(* What is on the image.  The first invariant knows which clusters are in  *)
(* use; what follows says by which file or directory, and what is in them. *)
(***************************************************************************)

\* w is a chain of the table: it follows the links to an end marker.
IsChain(t, w) ==
    /\ \A k \in 1..(Len(w) - 1) : t[w[k]] = w[k + 1]
    /\ t[w[Len(w)]] = EOC
    /\ \A j, k \in 1..Len(w) : w[j] = w[k] => j = k

\* A walk that visits no cluster twice is not longer than the table.
LEMMA ShortChain ==
    ASSUME NEW w \in Walks, \A j, k \in 1..Len(w) : w[j] = w[k] => j = k
    PROVE  Len(w) <= FatEntries
  <1>1. PICK n \in Nat : n = Len(w) /\ w \in [1..n -> Clusters]
      BY LenProperties DEF Walks
  <1>2. w \in Injection(1..n, Clusters)
      BY <1>1 DEF Injection, IsInjective
  <1>3. IsFiniteSet(Clusters) /\ Cardinality(Clusters) = NumClusters
    <2>1. PICK m \in Int : m = NumClusters + 1
        BY Sizes
    <2>2. IsFiniteSet(2..m) /\ Cardinality(2..m) = IF 2 > m THEN 0 ELSE m - 2 + 1
        BY FS_Interval
    <2>3. Clusters = 2..m /\ m >= 2 /\ NumClusters = m - 1
        BY <2>1, Sizes DEF Clusters
    <2> QED
        BY <2>2, <2>3
  <1>4. Cardinality(1..n) <= NumClusters
      BY <1>2, <1>3, FS_Injection
  <1>5. Cardinality(1..n) = IF 1 > n THEN 0 ELSE n - 1 + 1
      BY FS_Interval
  <1> QED
      BY <1>1, <1>4, <1>5, Sizes

\* FileReader visits the clusters of the chain.
LEMMA ChainIs ==
    ASSUME NEW t, TableOK(t), NEW w \in Walks, IsChain(t, w)
    PROVE  ChainOf(t, w[1]) = w
  <1>1. PICK n \in Nat \ {0} : n = Len(w)
      BY LastOf
  <1>2. w \in Seq(Clusters) /\ \A k \in 1..n : w[k] \in Clusters
      BY <1>1, ElementOfSeq DEF Walks
  <1>3. w[1] \in Clusters
      BY <1>1, <1>2
  <1>4. PICK u : IsWalk(u, t, w[1]) /\ ChainOf(t, w[1]) = u[FatEntries]
      BY <1>3, ChainWalk
  <1> DEFINE V == {i \in 0..FatEntries : Begins(u[i], w) /\ (Len(u[i]) = i + 1 \/ Len(u[i]) = n)}
  <1>5. FatEntries \in Nat /\ FatEntries \in 0..FatEntries /\ 0 \in 0..FatEntries
      BY Sizes
  <1>6. 0 \in V
      BY <1>1, <1>4, <1>5, SMTT(30) DEF IsWalk, Begins
  <1>7. ASSUME NEW i \in 0..(FatEntries - 1), i \in V PROVE i + 1 \in V
    <2>1. i \in 0..FatEntries /\ i + 1 \in 1..FatEntries /\ i + 1 \in 0..FatEntries /\ (i + 1) - 1 = i
        BY <1>5
    <2>2. PICK a \in Walks : a = u[i]
        BY <1>4, <2>1 DEF IsWalk
    <2>3. PICK m \in Nat \ {0} : m = Len(a) /\ Last(a) = a[m]
        BY LastOf
    <2>4. u[i + 1] = NextCluster(t, a)
        BY <1>4, <2>1, <2>2 DEF IsWalk
    <2>5. Begins(a, w) /\ (m = i + 1 \/ m = n) /\ m <= n /\ Last(a) = w[m]
        BY <1>1, <1>7, <2>2, <2>3 DEF Begins
    <2>6. CASE m = n
      <3>1. t[Last(a)] = EOC
          BY <1>1, <2>5, <2>6 DEF IsChain
      <3>2. EOC \notin Clusters
          BY Sizes
      <3>3. u[i + 1] = a
          BY <2>4, <3>1, <3>2, NextOf
      <3> QED
          BY <2>1, <2>3, <2>5, <2>6, <3>3
    <2>7. CASE m # n
      <3>1. m \in 1..(n - 1) /\ m + 1 \in 1..n /\ m = i + 1
          BY <2>5, <2>7
      <3>2. t[Last(a)] = w[m + 1] /\ t[Last(a)] \in Clusters
          BY <1>1, <1>2, <2>5, <3>1 DEF IsChain
      <3>3. u[i + 1] = Append(a, w[m + 1])
          BY <2>4, <3>2, NextOf
      <3>4. a \in Seq(Clusters)
          BY DEF Walks
      <3>5. /\ Len(u[i + 1]) = m + 1 /\ u[i + 1][m + 1] = w[m + 1]
            /\ \A k \in 1..m : u[i + 1][k] = a[k]
        <4>1. PICK c \in Clusters : c = w[m + 1]
            BY <1>2, <3>1
        <4>2. /\ Len(Append(a, c)) = Len(a) + 1 /\ Append(a, c)[Len(a) + 1] = c
              /\ \A k \in 1..Len(a) : Append(a, c)[k] = a[k]
            BY <3>4, AppendProperties
        <4> QED
            BY <2>3, <3>3, <4>1, <4>2
      <3>6. Begins(u[i + 1], w)
          BY <1>1, <2>3, <2>5, <3>1, <3>5 DEF Begins
      <3> QED
          BY <2>1, <3>1, <3>5, <3>6
    <2> QED
        BY <2>6, <2>7
  <1>8. FatEntries \in V
    <2> HIDE DEF V
    <2> QED
        BY <1>5, <1>6, <1>7, UpTo
  <1>9. PICK x \in Walks : x = u[FatEntries]
      BY <1>4, <1>5 DEF IsWalk
  <1>10. Len(w) <= FatEntries
      BY ShortChain DEF IsChain
  <1>11. Begins(x, w) /\ Len(x) = Len(w)
      BY <1>1, <1>5, <1>8, <1>9, <1>10 DEF Begins
  <1>12. x = w
      BY <1>2, <1>11, SeqEqual DEF Begins, Walks
  <1> QED
      BY <1>4, <1>9, <1>12

-----------------------------------------------------------------------------
(* Slots along a chain *)

Place(D, w, i) == D[w[(i \div SlotsPerCluster) + 1]][i % SlotsPerCluster]
Room(w) == Len(w) * SlotsPerCluster

\* Each place is a slot of one of the clusters, and no two are the same.
LEMMA PlaceAt ==
    ASSUME NEW w \in Walks, NEW i \in 0..(Room(w) - 1)
    PROVE  \E q \in 1..Len(w), r \in SlotIdx :
                /\ i = (q - 1) * SlotsPerCluster + r
                /\ w[q] \in Clusters
                /\ \A D : Place(D, w, i) = D[w[q]][r]
  <1>1. PICK b \in Nat \ {0} : b = SlotsPerCluster
      BY Sizes
  <1>2. PICK l \in Nat \ {0} : l = Len(w)
      BY LastOf
  <1>3. i \in Nat /\ i < l * b
    <2>1. PICK n \in Nat : n = l * b
        OBVIOUS
    <2>2. Room(w) = n
        BY <1>1, <1>2, <2>1 DEF Room
    <2> QED
        BY <2>1, <2>2
  <1>4. PICK q0 \in Nat, r \in 0..(b - 1) : q0 = i \div b /\ i = q0 * b + r
      BY <1>3, Quotient
  <1>5. q0 < l
      BY <1>3, <1>4, DivBelow
  <1>6. r = i % b
    <2>1. r \in Nat /\ r < b /\ i \in Nat /\ i = q0 * b + r
        BY <1>3, <1>4
    <2> QED
        BY <2>1, DivUnique
  <1>7. PICK q : q = q0 + 1
      OBVIOUS
  <1>8. q \in 1..l /\ q - 1 = q0
      BY <1>5, <1>7
  <1>9. w \in Seq(Clusters)
      BY DEF Walks
  <1>10. w[q] \in Clusters
      BY <1>2, <1>8, <1>9, ElementOfSeq
  <1>11. \A D : Place(D, w, i) = D[w[q]][r]
      BY <1>1, <1>4, <1>6, <1>7 DEF Place
  <1>12. i = (q - 1) * SlotsPerCluster + r
      BY <1>1, <1>4, <1>8
  <1>13. q \in 1..Len(w) /\ r \in SlotIdx
      BY <1>1, <1>2, <1>4, <1>8 DEF SlotIdx
  <1> QED
      BY <1>10, <1>11, <1>12, <1>13

\* The number of places.
LEMMA RoomIs ==
    ASSUME NEW w \in Walks
    PROVE  Room(w) \in Nat /\ SlotsPerCluster <= Room(w)
  <1>1. PICK b \in Nat \ {0} : b = SlotsPerCluster
      BY Sizes
  <1>2. PICK l \in Nat \ {0} : l = Len(w)
      BY LastOf
  <1>3. l * b \in Nat /\ b <= l * b
    <2>1. PICK k \in Nat : l = k + 1
        BY <1>2
    <2>2. k * b \in Nat /\ l * b = k * b + b
        BY <2>1
    <2> QED
        BY <2>2
  <1> QED
      BY <1>1, <1>2, <1>3 DEF Room

\* What FileReader reads.
LEMMA SlotsArePlaces ==
    ASSUME NEW V, data \in Filled(V), NEW w \in Walks, NEW s, s = SlotsAlong(w)
    PROVE  /\ s \in Seq(V) /\ Len(s) = Room(w) /\ Room(w) \in Nat
           /\ \A i \in 0..(Room(w) - 1) : s[i + 1] = Place(data, w, i)
  <1>1. /\ s \in Seq(V) /\ Len(s) = Len(w) * SlotsPerCluster
        /\ \A i \in 0..(Len(w) * SlotsPerCluster - 1) :
                s[i + 1] = data[w[(i \div SlotsPerCluster) + 1]][i % SlotsPerCluster]
      BY SlotsAre, SMTT(20)
  <1>2. Room(w) \in Nat
      BY RoomIs
  <1> QED
      BY <1>1, <1>2, Zenon DEF Room, Place

\* The first n slots of b are on the image along w, and nothing behind them.
Stored(D, w, b, n) ==
    /\ n \in Nat /\ n <= Len(b) /\ n <= Room(w)
    /\ \A i \in 0..(n - 1) : Place(D, w, i) = b[i + 1]
    /\ \A i \in n..(Room(w) - 1) : ~Written(Place(D, w, i))

\* ScanDirectory reads the slots up to the first zero.
LEMMA ScanReads ==
    ASSUME NEW V, data \in Filled(V), NEW t, TableOK(t), NEW c \in Clusters,
           NEW w \in Walks, w = ChainOf(t, c), NEW scan, scan = ScanDirectory(t, c)
    PROVE  /\ scan.list \in Seq(V) /\ scan.total = Len(scan.list)
           /\ scan.total \in Nat /\ scan.total <= Room(w)
           /\ \A i \in 1..scan.total :
                scan.list[i] = Place(data, w, i - 1) /\ ~IsZero(scan.list[i])
           /\ scan.total < Room(w) => IsZero(Place(data, w, scan.total))
           /\ scan.ok <=> \A i \in 1..scan.total : IsEntry(scan.list[i])
  <1>1. PICK s : s = SlotsAlong(w)
      OBVIOUS
  <1>2. PICK n \in Nat : n = Room(w)
      BY RoomIs
  <1>3. /\ s \in Seq(V) /\ Len(s) = n
        /\ \A i \in 0..(n - 1) : s[i + 1] = Place(data, w, i)
      BY <1>1, <1>2, SlotsArePlaces
  <1>4. PICK list : list = UpToZero(s)
      OBVIOUS
  <1>5. scan = ScanResult(list)
      BY <1>1, <1>4 DEF ScanDirectory, SlotsOf
  <1>6. /\ scan.list = list /\ scan.total = Len(list)
        /\ scan.ok <=> \A i \in 1..Len(list) : IsEntry(list[i])
      BY <1>5 DEF ScanResult
  <1>7. s \in Seq(V)
      BY <1>3
  <1>8. /\ list \in Seq(V) /\ Len(list) \in 0..Len(s) /\ Len(list) \in Nat
        /\ \A i \in 1..Len(list) : list[i] = s[i] /\ ~IsZero(s[i])
        /\ Len(list) < Len(s) => IsZero(s[Len(list) + 1])
      BY <1>4, <1>7, ScannedList, SMTT(20)
  <1>9. PICK k \in Nat : k = Len(list) /\ k <= n
      BY <1>3, <1>8
  <1>10. ASSUME NEW i \in 1..k PROVE list[i] = Place(data, w, i - 1) /\ ~IsZero(list[i])
    <2>1. PICK j \in 0..(n - 1) : i = j + 1
        BY <1>9
    <2>2. list[i] = s[i] /\ ~IsZero(s[i])
        BY <1>8, <1>9
    <2>3. s[i] = Place(data, w, j) /\ i - 1 = j
        BY <1>3, <2>1
    <2> QED
        BY <2>2, <2>3
  <1>11. ASSUME k < n PROVE IsZero(Place(data, w, k))
    <2>1. k \in 0..(n - 1)
        BY <1>11
    <2>2. IsZero(s[k + 1])
        BY <1>3, <1>8, <1>9, <1>11
    <2> QED
        BY <1>3, <2>1, <2>2
  <1> QED
      BY <1>2, <1>6, <1>8, <1>9, <1>10, <1>11

\* Pick finds an entry of that name if there is one.
LEMMA PickIs ==
    ASSUME NEW scan, NEW V, scan.list \in Seq(V), scan.total = Len(scan.list), scan.ok, NEW name
    PROVE  \/ \E i \in 1..scan.total : scan.list[i].name = name /\ Pick(scan, name) = scan.list[i]
           \/ /\ \A i \in 1..scan.total : scan.list[i].name # name
              /\ Pick(scan, name) = NotFound
  <1> DEFINE I == {i \in 1..Len(scan.list) : scan.list[i].name = name}
  <1>1. PICK at : at = SelectInSeq(scan.list, LAMBDA x : x.name = name)
      OBVIOUS
  <1>2. at = IF I # {} THEN Min(I) ELSE 0
      BY <1>1 DEF SelectInSeq
  <1>3. CASE I # {}
    <2>1. I \subseteq Nat
        OBVIOUS
    <2>2. \E x \in I : \A y \in I : x <= y
      <3> HIDE DEF I
      <3> QED
          BY <1>3, <2>1, LeastNatural
    <2>3. at \in I
        BY <1>2, <1>3, <2>2 DEF Min
    <2>4. Len(scan.list) \in Nat /\ at # 0
        BY <2>3
    <2>5. Pick(scan, name) = scan.list[at]
        BY <1>1, <2>4 DEF Pick
    <2> QED
        BY <2>3, <2>5
  <1>4. CASE I = {}
    <2>1. at = 0
        BY <1>2, <1>4
    <2>2. Pick(scan, name) = NotFound
        BY <1>1, <2>1 DEF Pick
    <2> QED
        BY <1>4, <2>2
  <1> QED
      BY <1>3, <1>4

-----------------------------------------------------------------------------
(***************************************************************************)
(* The tree T the commands so far made, the cluster chain own[p] of each   *)
(* object p of it and the slots body[p] that it consists of.  The root is  *)
(* the object <<>>.  The entry of the objects in P is not written yet.     *)
(***************************************************************************)
Objects(T) == {<<>>} \cup DOMAIN T
IsDir(T, p) == p = <<>> \/ T[p] = "dir"

EntryOf(T, own, p, n) ==
    DirEnt(T[p] = "dir", n, own[p][1], IF T[p] = "dir" THEN 0 ELSE FileSize[T[p]])
Dot(s) == s.t = "dir" /\ s.name \in {".", ".."}

\* A directory: an entry for each of its children, and a zero at the end.
Catalog(T, own, b, p, P) ==
    /\ Len(b) >= 1 /\ IsZero(b[Len(b)])
    /\ \A i \in 1..(Len(b) - 1) :
        \/ Dot(b[i])
        \/ \E n \in Names : /\ Append(p, n) \in DOMAIN T \ P
                            /\ b[i] = EntryOf(T, own, Append(p, n), n)
    /\ \A n \in Names : Append(p, n) \in DOMAIN T \ P =>
        \E i \in 1..(Len(b) - 1) : b[i] = EntryOf(T, own, Append(p, n), n)

LEMMA EntryFacts ==
    ASSUME NEW T, NEW own, NEW p, NEW n, NEW e, e = EntryOf(T, own, p, n)
    PROVE  /\ e.name = n /\ e.first = own[p][1] /\ IsEntry(e) /\ Written(e) /\ ~IsZero(e)
           /\ T[p] = "dir" => e.t = "dir" /\ e.size = 0
           /\ T[p] # "dir" => e.t = "file" /\ e.size = FileSize[T[p]]
  <1>1. CASE T[p] = "dir"
    <2>1. e = [t |-> "dir", name |-> n, first |-> own[p][1], size |-> 0]
        BY <1>1 DEF EntryOf, DirEnt, Slot
    <2> QED
        BY <1>1, <2>1 DEF IsEntry, Written, IsZero
  <1>2. CASE T[p] # "dir"
    <2>1. e = [t |-> "file", name |-> n, first |-> own[p][1], size |-> FileSize[T[p]]]
        BY <1>2 DEF EntryOf, DirEnt, Slot
    <2> QED
        BY <1>2, <2>1 DEF IsEntry, Written, IsZero
  <1> QED
      BY <1>1, <1>2

\* The entries of a directory.
LEMMA Cataloged ==
    ASSUME NEW T, NEW own, NEW b, NEW p, NEW P, Catalog(T, own, b, p, P),
           NEW i \in 1..(Len(b) - 1)
    PROVE  /\ IsEntry(b[i]) /\ ~IsZero(b[i])
           /\ b[i].name \in Names \cup {".", ".."}
           /\ b[i].name \in Names => /\ Append(p, b[i].name) \in DOMAIN T \ P
                                     /\ b[i] = EntryOf(T, own, Append(p, b[i].name), b[i].name)
  <1>1. CASE Dot(b[i])
    <2>1. b[i].name \in {".", ".."} /\ b[i].t = "dir"
        BY <1>1 DEF Dot
    <2>2. b[i].name \notin Names
        BY <2>1, FatEditAssumption
    <2> QED
        BY <2>1, <2>2 DEF IsEntry, IsZero
  <1>2. CASE ~Dot(b[i])
    <2>1. PICK n \in Names : /\ Append(p, n) \in DOMAIN T \ P
                             /\ b[i] = EntryOf(T, own, Append(p, n), n)
        BY <1>2 DEF Catalog
    <2>2. PICK q : q = Append(p, n)
        OBVIOUS
    <2>3. PICK e : e = EntryOf(T, own, q, n)
        OBVIOUS
    <2>4. e.name = n /\ IsEntry(e) /\ ~IsZero(e)
        BY <2>3, EntryFacts
    <2> QED
        BY <2>1, <2>2, <2>3, <2>4
  <1> QED
      BY <1>1, <1>2

\* How ScanDirectory sees a directory: each child has its entry.
ScanShows(scan, T, own, b, p, P) ==
    /\ scan.ok /\ scan.total = Len(b) - 1
    /\ NamesIn(scan) \ {".", ".."} = {n \in Names : Append(p, n) \in DOMAIN T \ P}
    /\ \A n \in Names : Append(p, n) \in DOMAIN T \ P =>
            Pick(scan, n) = EntryOf(T, own, Append(p, n), n)
    /\ \A n \in Names : Append(p, n) \notin DOMAIN T \ P => Pick(scan, n) = NotFound

LEMMA DirectoryIs ==
    ASSUME data \in Filled(Slots), NEW t, TableOK(t), NEW w \in Walks, IsChain(t, w),
           NEW T, NEW own, NEW b \in Seq(Slots), NEW p, NEW P, Catalog(T, own, b, p, P),
           Stored(data, w, b, Len(b)), NEW scan, scan = ScanDirectory(t, w[1])
    PROVE  ScanShows(scan, T, own, b, p, P)
  <1>1. PICK m \in Nat \ {0} : m = Len(b)
      BY DEF Catalog
  <1>2. PICK c \in Clusters : c = w[1]
    <2>1. w \in Seq(Clusters) /\ 1 \in 1..Len(w)
        BY LastOf DEF Walks
    <2> QED
        BY <2>1, ElementOfSeq
  <1>3. w = ChainOf(t, c)
      BY <1>2, ChainIs
  <1>4. scan = ScanDirectory(t, c)
      BY <1>2
  <1>5. PICK r \in Nat : r = Room(w)
      BY RoomIs
  <1>6. /\ scan.list \in Seq(Slots) /\ scan.total = Len(scan.list)
        /\ scan.total \in Nat /\ scan.total <= r
        /\ \A i \in 1..scan.total :
                scan.list[i] = Place(data, w, i - 1) /\ ~IsZero(scan.list[i])
        /\ scan.total < r => IsZero(Place(data, w, scan.total))
        /\ scan.ok <=> \A i \in 1..scan.total : IsEntry(scan.list[i])
      BY <1>3, <1>4, <1>5, ScanReads, SMTT(20)
  <1>7. PICK k \in Nat : k = scan.total
      BY <1>6
  <1>8. m <= r /\ \A i \in 0..(m - 1) : Place(data, w, i) = b[i + 1]
      BY <1>1, <1>5 DEF Stored
  <1>9. IsZero(b[m]) /\ \A i \in 1..(m - 1) : ~IsZero(b[i])
    <2>1. IsZero(b[m])
        BY <1>1 DEF Catalog
    <2>2. \A i \in 1..(Len(b) - 1) : ~IsZero(b[i])
        BY Cataloged
    <2> QED
        BY <1>1, <2>1, <2>2
  <1>10. k = m - 1
    <2>1. ~(k > m - 1)
      <3>1. SUFFICES ASSUME k >= m PROVE FALSE
          OBVIOUS
      <3>2. m \in 1..k /\ m - 1 \in 0..(m - 1) /\ (m - 1) + 1 = m
          BY <3>1
      <3>3. scan.list[m] = Place(data, w, m - 1) /\ ~IsZero(scan.list[m])
          BY <1>6, <1>7, <3>2
      <3>4. Place(data, w, m - 1) = b[m]
          BY <1>8, <3>2
      <3> QED
          BY <1>9, <3>3, <3>4
    <2>2. ~(k < m - 1)
      <3>1. SUFFICES ASSUME k < m - 1 PROVE FALSE
          OBVIOUS
      <3>2. k \in 0..(m - 1) /\ k + 1 \in 1..(m - 1) /\ k < r
          BY <1>8, <3>1
      <3>3. IsZero(Place(data, w, k))
          BY <1>6, <1>7, <3>2
      <3> QED
          BY <1>8, <1>9, <3>2, <3>3
    <2> QED
        BY <2>1, <2>2
  <1>11. ASSUME NEW i \in 1..k PROVE scan.list[i] = b[i]
    <2>1. i - 1 \in 0..(m - 1) /\ (i - 1) + 1 = i
        BY <1>10
    <2> QED
        BY <1>6, <1>7, <1>8, <2>1
  <1>12. ASSUME NEW i \in 1..k
         PROVE  /\ IsEntry(b[i]) /\ b[i].name \in Names \cup {".", ".."}
                /\ b[i].name \in Names => /\ Append(p, b[i].name) \in DOMAIN T \ P
                                          /\ b[i] = EntryOf(T, own, Append(p, b[i].name), b[i].name)
    <2>1. i \in 1..(Len(b) - 1)
        BY <1>1, <1>10
    <2> QED
        BY <2>1, Cataloged
  <1>13. scan.ok
      BY <1>6, <1>7, <1>11, <1>12
  <1>14. ASSUME NEW n \in Names, Append(p, n) \in DOMAIN T \ P
         PROVE  \E i \in 1..k : b[i] = EntryOf(T, own, Append(p, n), n) /\ b[i].name = n
    <2>1. PICK i \in 1..k : b[i] = EntryOf(T, own, Append(p, n), n)
        BY <1>1, <1>10, <1>14 DEF Catalog
    <2>2. b[i].name = n
        BY <2>1, EntryFacts
    <2> QED
        BY <2>1, <2>2
  <1>15. NamesIn(scan) = {b[i].name : i \in 1..k}
      BY <1>7, <1>11 DEF NamesIn
  <1>16. Names \cap {".", ".."} = {}
      BY FatEditAssumption
  <1>17. NamesIn(scan) \ {".", ".."} = {n \in Names : Append(p, n) \in DOMAIN T \ P}
    <2>1. ASSUME NEW n \in NamesIn(scan) \ {".", ".."}
          PROVE  n \in Names /\ Append(p, n) \in DOMAIN T \ P
        BY <1>12, <1>15, <2>1
    <2>2. ASSUME NEW n \in Names, Append(p, n) \in DOMAIN T \ P
          PROVE  n \in NamesIn(scan) \ {".", ".."}
        BY <1>14, <1>15, <1>16, <2>2
    <2> QED
        BY <2>1, <2>2
  <1>18. ASSUME NEW n \in Names, Append(p, n) \in DOMAIN T \ P
         PROVE  Pick(scan, n) = EntryOf(T, own, Append(p, n), n)
    <2>1. PICK e : e = EntryOf(T, own, Append(p, n), n)
        OBVIOUS
    <2>2. \A i \in 1..scan.total : scan.list[i].name = n => scan.list[i] = e
        BY <1>7, <1>11, <1>12, <2>1
    <2>3. \E i \in 1..scan.total : scan.list[i].name = n
        BY <1>7, <1>11, <1>14, <1>18
    <2>4. scan.list \in Seq(Slots) /\ scan.total = Len(scan.list)
        BY <1>6
    <2>5. \/ \E i \in 1..scan.total : scan.list[i].name = n /\ Pick(scan, n) = scan.list[i]
          \/ \A i \in 1..scan.total : scan.list[i].name # n
        BY <1>13, <2>4, PickIs, SMTT(30)
    <2> QED
        BY <2>1, <2>2, <2>3, <2>5
  <1>19. ASSUME NEW n \in Names, Append(p, n) \notin DOMAIN T \ P
         PROVE  Pick(scan, n) = NotFound
    <2>1. \A i \in 1..scan.total : scan.list[i].name # n
        BY <1>7, <1>11, <1>12, <1>19
    <2>2. scan.list \in Seq(Slots) /\ scan.total = Len(scan.list)
        BY <1>6
    <2> QED
        BY <1>13, <2>1, <2>2, PickIs
  <1> QED
      BY <1>1, <1>7, <1>10, <1>13, <1>17, <1>18, <1>19 DEF ScanShows

\* DumpFile reads what is stored along the chain.
LEMMA FileIs ==
    ASSUME data \in Filled(Slots), NEW t, TableOK(t), NEW c \in Clusters,
           NEW w \in Walks, w = ChainOf(t, c), NEW b \in Seq(Slots), Len(b) <= Room(w),
           \A i \in 0..(Len(b) - 1) : Place(data, w, i) = b[i + 1],
           NEW ent, ent.first = c, ent.size = Len(b)
    PROVE  DumpFile(t, ent) = b
  <1>1. PICK s : s = SlotsAlong(w)
      OBVIOUS
  <1>2. PICK r \in Nat : r = Room(w)
      BY RoomIs
  <1>3. /\ s \in Seq(Slots) /\ Len(s) = r
        /\ \A i \in 0..(r - 1) : s[i + 1] = Place(data, w, i)
      BY <1>1, <1>2, SlotsArePlaces
  <1>4. PICK n \in Nat : n = Len(b)
      BY LenProperties
  <1>5. n <= r
      BY <1>2, <1>4
  <1>6. Min({n, r}) = n
      BY <1>5 DEF Min
  <1>7. DumpFile(t, ent) = SubSeq(s, 1, n)
      BY <1>1, <1>3, <1>4, <1>6 DEF DumpFile, FirstSlots, SlotsOf
  <1>8. \A i \in 1..n : s[i] = b[i] /\ s[i] \in Slots
    <2> TAKE i \in 1..n
    <2>1. PICK j \in 0..(n - 1) : i = j + 1
        BY <1>4
    <2>2. j \in 0..(r - 1)
        BY <1>5
    <2>3. s[i] = b[i]
        BY <1>3, <1>4, <2>1, <2>2
    <2>4. b[i] \in Slots
        BY <1>4, ElementOfSeq
    <2> QED
        BY <2>3, <2>4
  <1>9. /\ SubSeq(s, 1, n) \in Seq(Slots) /\ Len(SubSeq(s, 1, n)) = IF 1 <= n THEN n - 1 + 1 ELSE 0
        /\ \A i \in 1..(n - 1 + 1) : SubSeq(s, 1, n)[i] = s[1 + i - 1]
      BY <1>8, SubSeqProperties
  <1>10. PICK x : x = SubSeq(s, 1, n)
      OBVIOUS
  <1>11. x \in Seq(Slots) /\ Len(x) = n /\ \A i \in 1..n : x[i] = s[i]
      BY <1>9, <1>10
  <1>12. x = b
      BY <1>4, <1>8, <1>11, SeqEqual
  <1> QED
      BY <1>7, <1>10, <1>12

\* The entries on the way down a path, as FindFile looks them up.
IsWay(f, t, path) ==
    f = [i \in 0..Len(path) |-> IF i = 0 THEN RootEntry ELSE Lookup(t, f[i - 1], path[i])]

\* FindFile ends where u does, which goes down one directory after the other.
GoesDown(u, t, path) ==
    /\ u[0] = RootEntry /\ FindFile(t, path) = u[Len(path)]
    /\ \A i \in 1..Len(path) : u[i] = Lookup(t, u[i - 1], path[i])

LEMMA FindSteps ==
    ASSUME NEW t, NEW path, Len(path) \in Nat, NEW f, IsWay(f, t, path)
    PROVE  \E u : GoesDown(u, t, path)
  <1>1. PICK n \in Nat : n = Len(path)
      OBVIOUS
  <1> DEFINE E(g) == [i \in 0..n |-> IF i = 0 THEN RootEntry ELSE Lookup(t, g[i - 1], path[i])]
             u == CHOOSE g : g = E(g)
  <1>2. f = E(f)
      BY <1>1, Zenon DEF IsWay
  <1>3. u = E(u)
    <2> HIDE DEF E
    <2> QED
        BY <1>2, Zenon
  <1>4. FindFile(t, path) = u[n]
      BY <1>1, Zenon DEF FindFile
  <1> HIDE DEF u
  <1>5. u[0] = RootEntry /\ \A i \in 1..n : u[i] = Lookup(t, u[i - 1], path[i])
      BY <1>3
  <1> QED
      BY <1>1, <1>4, <1>5 DEF GoesDown

LEMMA FindRoot == ASSUME NEW t PROVE FindFile(t, <<>>) = RootEntry
  <1>1. PICK p : p = <<>>
      OBVIOUS
  <1>2. Len(p) = 0
      BY <1>1
  <1> DEFINE f == [i \in 0..0 |-> RootEntry]
  <1>3. IsWay(f, t, p)
      BY <1>2 DEF IsWay
  <1> HIDE DEF f
  <1>4. PICK u : GoesDown(u, t, p)
      BY <1>2, <1>3, FindSteps
  <1> QED
      BY <1>1, <1>2, <1>4 DEF GoesDown

LEMMA FindOne == ASSUME NEW t, NEW a PROVE FindFile(t, <<a>>) = Lookup(t, RootEntry, a)
  <1>1. PICK e : e = Lookup(t, RootEntry, a)
      OBVIOUS
  <1> DEFINE f == [i \in 0..1 |-> IF i = 0 THEN RootEntry ELSE e]
  <1>2. PICK p : p = <<a>>
      OBVIOUS
  <1>3. Len(p) = 1 /\ p[1] = a
      BY <1>2
  <1>4. IsWay(f, t, p)
    <2>1. f[0] = RootEntry
        OBVIOUS
    <2>2. \A i \in 0..1 : i = 0 \/ (i = 1 /\ i - 1 = 0)
        OBVIOUS
    <2> QED
        BY <1>1, <1>3, <2>1, <2>2 DEF IsWay
  <1> HIDE DEF f
  <1>5. PICK u : GoesDown(u, t, p)
      BY <1>3, <1>4, FindSteps
  <1>6. u[0] = RootEntry /\ FindFile(t, p) = u[1] /\ u[1] = Lookup(t, u[0], a)
    <2>1. 1 \in 1..1 /\ 1 - 1 = 0
        OBVIOUS
    <2> QED
        BY <1>3, <1>5, <2>1 DEF GoesDown
  <1> QED
      BY <1>2, <1>6

LEMMA FindTwo ==
    ASSUME NEW t, NEW a, NEW b PROVE FindFile(t, <<a, b>>) = Lookup(t, FindFile(t, <<a>>), b)
  <1>1. PICK e : e = Lookup(t, RootEntry, a)
      OBVIOUS
  <1>2. PICK g : g = Lookup(t, e, b)
      OBVIOUS
  <1>3. PICK p : p = <<a, b>>
      OBVIOUS
  <1>4. 2 \in Nat /\ 2 = Len(p) /\ p[1] = a /\ p[2] = b
      BY <1>3
  <1> DEFINE f == [i \in 0..2 |-> IF i = 0 THEN RootEntry ELSE IF i = 1 THEN e ELSE g]
  <1>5. IsWay(f, t, p)
    <2>1. f[0] = RootEntry /\ f[1] = e /\ f[2] = g
        OBVIOUS
    <2>2. f = [i \in 0..2 |-> f[i]]
        OBVIOUS
    <2> HIDE DEF f
    <2>3. ASSUME NEW i \in 0..2
          PROVE  f[i] = IF i = 0 THEN RootEntry ELSE Lookup(t, f[i - 1], p[i])
      <3>1. i = 0 \/ (i = 1 /\ i - 1 = 0) \/ (i = 2 /\ i - 1 = 1)
          OBVIOUS
      <3> QED
          BY <1>1, <1>2, <1>4, <2>1, <3>1
    <2>4. f = [i \in 0..2 |-> IF i = 0 THEN RootEntry ELSE Lookup(t, f[i - 1], p[i])]
        BY <2>2, <2>3
    <2> QED
        BY <1>4, <2>4 DEF IsWay
  <1> HIDE DEF f
  <1>6. PICK u : /\ u[0] = RootEntry /\ FindFile(t, p) = u[2]
                 /\ \A i \in 1..2 : u[i] = Lookup(t, u[i - 1], p[i])
    <2>1. PICK u : GoesDown(u, t, p)
        BY <1>4, <1>5, FindSteps
    <2> QED
        BY <1>4, <2>1 DEF GoesDown
  <1>7. u[1] = e /\ u[2] = g
    <2>1. 1 \in 1..2 /\ 1 - 1 = 0 /\ 2 \in 1..2 /\ 2 - 1 = 1
        OBVIOUS
    <2>2. u[1] = e
        BY <1>1, <1>4, <1>6, <2>1
    <2> QED
        BY <1>2, <1>4, <1>6, <2>1, <2>2
  <1>8. FindFile(t, <<a>>) = e
      BY <1>1, FindOne
  <1> QED
      BY <1>2, <1>3, <1>6, <1>7, <1>8

\* Every object but the root has a directory it is in.
Shape(T) ==
    /\ DOMAIN T \subseteq Paths
    /\ \A p \in DOMAIN T : T[p] \in {"dir"} \cup (Inputs \ Unreadable)
    /\ \A d \in Dirs, n \in Names :
        Append(d, n) \in DOMAIN T => d \in Objects(T) /\ IsDir(T, d)

\* Each object has a chain of its own, and no other cluster is in use.
Apart(v, w) == \A j \in 1..Len(v), k \in 1..Len(w) : v[j] # w[k]
Space(t, T, own) ==
    /\ own \in [Objects(T) -> Walks] /\ own[<<>>][1] = Root
    /\ \A p \in Objects(T) : IsChain(t, own[p])
    /\ \A p, q \in Objects(T) : p # q => Apart(own[p], own[q])
    /\ \A c \in Used(t) : \E p \in Objects(T) : \E k \in 1..Len(own[p]) : own[p][k] = c

\* Each object consists of what it should.
Texts(T, own, body, P) ==
    /\ body \in [Objects(T) -> Seq(Slots)]
    /\ \A p \in Objects(T) : IsDir(T, p) => Catalog(T, own, body[p], p, P)
    /\ \A p \in Objects(T) : ~IsDir(T, p) => body[p] = Contents(T[p])

\* All that is on the image.
Laid(t, T, own, body) ==
    /\ Shape(T) /\ Space(t, T, own) /\ Texts(T, own, body, {})
    /\ \A p \in Objects(T) : Stored(data, own[p], body[p], Len(body[p]))

\* Paths are sequences of names.
LEMMA DirIsPath == ASSUME NEW d \in Dirs PROVE d \in Seq(Names)
  <1>1. CASE d = <<>>
      BY <1>1, EmptySeq
  <1>2. CASE \E n \in Names : d = <<n>>
      BY <1>2
  <1> QED
      BY <1>1, <1>2 DEF Dirs

\* A path is the path of its directory and a name.
LEMMA AppendOneToOne ==
    ASSUME NEW d \in Seq(Names), NEW e \in Seq(Names), NEW m \in Names, NEW n \in Names,
           Append(d, m) = Append(e, n)
    PROVE  d = e /\ m = n
  <1>1. PICK p : p = Append(d, m) /\ p = Append(e, n)
      OBVIOUS
  <1>2. Len(p) = Len(d) + 1 /\ p[Len(d) + 1] = m /\ \A i \in 1..Len(d) : p[i] = d[i]
      BY <1>1, AppendProperties
  <1>3. Len(p) = Len(e) + 1 /\ p[Len(e) + 1] = n /\ \A i \in 1..Len(e) : p[i] = e[i]
      BY <1>1, AppendProperties
  <1>4. Len(d) \in Nat /\ Len(e) \in Nat
      BY LenProperties
  <1>5. Len(d) = Len(e)
      BY <1>2, <1>3, <1>4
  <1>6. d = e
      BY <1>2, <1>3, <1>5, SeqEqual
  <1> QED
      BY <1>2, <1>3, <1>6

LEMMA NotRoot ==
    ASSUME NEW d \in Seq(Names), NEW n \in Names
    PROVE  Append(d, n) # <<>> /\ Append(d, n) # d /\ Append(d, n) \in Seq(Names)
  <1>1. Len(Append(d, n)) = Len(d) + 1 /\ Append(d, n) # <<>> /\ Append(d, n) \in Seq(Names)
      BY AppendProperties
  <1>2. Len(d) \in Nat
      BY LenProperties
  <1> QED
      BY <1>1, <1>2

\* A path below a directory of the root.
LEMMA PathOfTwo ==
    ASSUME NEW a \in Names, NEW n \in Names
    PROVE  Append(<<a>>, n) = <<a, n>>
  <1>8. <<a>> \in Seq(Names) /\ Len(<<a>>) = 1 /\ <<a>>[1] = a
      OBVIOUS
  <1>1. PICK d \in Seq(Names) : d = <<a>> /\ Len(d) = 1 /\ d[1] = a
      BY <1>8
  <1>9. <<a, n>> \in Seq(Names) /\ Len(<<a, n>>) = 2 /\ <<a, n>>[1] = a /\ <<a, n>>[2] = n
      OBVIOUS
  <1>2. PICK p \in Seq(Names) : p = <<a, n>> /\ Len(p) = 2 /\ p[1] = a /\ p[2] = n
      BY <1>9
  <1>3. PICK q : q = Append(d, n)
      OBVIOUS
  <1>4. q \in Seq(Names) /\ Len(q) = 1 + 1 /\ q[1 + 1] = n /\ \A i \in 1..1 : q[i] = d[i]
      BY <1>1, <1>3, AppendProperties
  <1>5. Len(q) = 2 /\ q[1] = a /\ q[2] = n
      BY <1>1, <1>4
  <1>6. \A i \in 1..2 : i = 1 \/ i = 2
      OBVIOUS
  <1>7. p = q
      BY <1>2, <1>4, <1>5, <1>6, SeqEqual
  <1> QED
      BY <1>1, <1>2, <1>3, <1>7

\* The first cluster of a chain.
LEMMA FirstOf ==
    ASSUME NEW w \in Walks
    PROVE  w[1] \in Clusters /\ 1 \in 1..Len(w) /\ Len(w) \in 1..Len(w) /\ Len(w) \in Nat
           /\ \A k \in 1..Len(w) : w[k] \in Clusters
  <1>1. w \in Seq(Clusters) /\ Len(w) \in Nat \ {0}
      BY LastOf DEF Walks
  <1> QED
      BY <1>1, ElementOfSeq

\* A directory of the tree, on the image.
LEMMA LaidDirectory ==
    ASSUME data \in Filled(Slots), NEW t, TableOK(t), NEW T, NEW own, NEW body,
           Laid(t, T, own, body), NEW d \in Objects(T), IsDir(T, d),
           NEW scan, scan = ScanDirectory(t, own[d][1])
    PROVE  /\ own[d][1] \in Clusters /\ body[d] \in Seq(Slots)
           /\ ScanShows(scan, T, own, body[d], d, {})
  <1>1. PICK w \in Walks : w = own[d]
      BY DEF Laid, Space
  <1>2. PICK b \in Seq(Slots) : b = body[d]
      BY DEF Laid, Texts
  <1>3. IsChain(t, w)
      BY <1>1 DEF Laid, Space
  <1>4. Catalog(T, own, b, d, {})
      BY <1>2 DEF Laid, Texts
  <1>5. Stored(data, w, b, Len(b))
      BY <1>1, <1>2 DEF Laid
  <1>6. scan = ScanDirectory(t, w[1])
      BY <1>1
  <1>7. w[1] \in Clusters
      BY FirstOf
  <1>8. ScanShows(scan, T, own, b, d, {})
      BY <1>3, <1>4, <1>5, <1>6, DirectoryIs
  <1> QED
      BY <1>1, <1>2, <1>7, <1>8

\* FindFile finds what is in the tree, and nothing else.
Finds(t, T, own, p, n) ==
    /\ p \in DOMAIN T => FindFile(t, p) = EntryOf(T, own, p, n)
    /\ p \notin DOMAIN T => FindFile(t, p) = NotFound

LEMMA FindIs ==
    ASSUME data \in Filled(Slots), NEW t, TableOK(t), NEW T, NEW own, NEW body,
           Laid(t, T, own, body), NEW d \in Dirs, NEW n \in Names
    PROVE  Finds(t, T, own, Append(d, n), n)
  <1>6. PICK p : p = Append(d, n)
      OBVIOUS
  <1>1. RootEntry.t = "dir" /\ RootEntry.first = Root /\ NotFound.t # "dir"
      BY DEF RootEntry, NotFound, DirEnt, Slot
  <1>2. own[<<>>][1] = Root /\ Shape(T)
      BY DEF Laid, Space
  <1>3. ASSUME NEW m \in Names
        PROVE  /\ <<m>> \in DOMAIN T => FindFile(t, <<m>>) = EntryOf(T, own, <<m>>, m)
               /\ <<m>> \notin DOMAIN T => FindFile(t, <<m>>) = NotFound
    <2>1. PICK r : r = <<>>
        OBVIOUS
    <2>2. r \in Objects(T) /\ IsDir(T, r) /\ Append(r, m) = <<m>>
        BY <2>1 DEF Objects, IsDir
    <2>3. PICK scan : scan = ScanDirectory(t, own[r][1])
        OBVIOUS
    <2>4. /\ Append(r, m) \in DOMAIN T => Pick(scan, m) = EntryOf(T, own, Append(r, m), m)
          /\ Append(r, m) \notin DOMAIN T => Pick(scan, m) = NotFound
      <3>1. ScanShows(scan, T, own, body[r], r, {})
          BY <2>2, <2>3, LaidDirectory
      <3> QED
          BY <3>1 DEF ScanShows
    <2>5. FindFile(t, <<m>>) = Pick(scan, m)
        BY <1>1, <1>2, <2>1, <2>3, FindOne DEF Lookup
    <2> QED
        BY <2>2, <2>4, <2>5
  <1>4. CASE d = <<>>
    <2>1. p = <<n>>
        BY <1>4, <1>6
    <2> QED
        BY <1>3, <1>6, <2>1 DEF Finds
  <1>5. CASE d # <<>>
    <2>1. PICK a \in Names : d = <<a>>
        BY <1>5 DEF Dirs
    <2>2. p = <<a, n>>
        BY <1>6, <2>1, PathOfTwo
    <2>3. PICK e : e = FindFile(t, d)
        OBVIOUS
    <2>4. FindFile(t, p) = Lookup(t, e, n)
        BY <2>1, <2>2, <2>3, FindTwo
    <2>5. CASE d \in DOMAIN T /\ T[d] = "dir"
      <3>1. e = EntryOf(T, own, d, a)
          BY <1>3, <2>1, <2>3, <2>5
      <3>2. e.t = "dir" /\ e.first = own[d][1]
          BY <2>5, <3>1, EntryFacts
      <3>3. PICK scan : scan = ScanDirectory(t, own[d][1])
          OBVIOUS
      <3>4. d \in Objects(T) /\ IsDir(T, d)
          BY <2>5 DEF Objects, IsDir
      <3>5. /\ Append(d, n) \in DOMAIN T => Pick(scan, n) = EntryOf(T, own, Append(d, n), n)
            /\ Append(d, n) \notin DOMAIN T => Pick(scan, n) = NotFound
        <4>1. ScanShows(scan, T, own, body[d], d, {})
            BY <3>3, <3>4, LaidDirectory
        <4> QED
            BY <4>1 DEF ScanShows
      <3>6. FindFile(t, p) = Pick(scan, n)
          BY <2>4, <3>2, <3>3 DEF Lookup
      <3> QED
          BY <1>6, <3>5, <3>6 DEF Finds
    <2>6. CASE ~(d \in DOMAIN T /\ T[d] = "dir")
      <3>1. p \notin DOMAIN T
          BY <1>2, <1>5, <1>6, <2>6 DEF Shape, Objects, IsDir
      <3>2. e.t # "dir"
        <4>1. CASE d \in DOMAIN T
          <5>1. e = EntryOf(T, own, d, a)
              BY <1>3, <2>1, <2>3, <4>1
          <5>2. T[d] # "dir"
              BY <2>6, <4>1
          <5> QED
              BY <5>1, <5>2, EntryFacts
        <4>2. CASE d \notin DOMAIN T
            BY <1>1, <1>3, <2>1, <2>3, <4>2
        <4> QED
            BY <4>1, <4>2
      <3> QED
          BY <1>6, <2>4, <3>1, <3>2 DEF Lookup, Finds
    <2> QED
        BY <2>5, <2>6
  <1> QED
      BY <1>4, <1>5

\* The slots of a file.
LEMMA ContentsAre ==
    ASSUME NEW f \in Inputs \ Unreadable, NEW b, b = Contents(f)
    PROVE  /\ b \in Seq(Slots) /\ Len(b) = FileSize[f] /\ FileSize[f] \in Nat
           /\ \A i \in 1..Len(b) : b[i].t = "piece"
  <1>1. PICK n \in Nat : n = FileSize[f]
      BY FatEditAssumption
  <1>2. b = [i \in 1..n |-> Piece(f, i)]
      BY <1>1 DEF Contents
  <1>3. ASSUME NEW i \in 1..n PROVE Piece(f, i) \in Slots /\ Piece(f, i).t = "piece"
    <2>1. i \in Nat
        BY <1>1
    <2>3. f \in Labels
        BY Zenon DEF Labels
    <2>2. Piece(f, i) = [t |-> "piece", name |-> f, first |-> 0, size |-> i]
        BY DEF Piece, Slot
    <2> QED
        BY <2>1, <2>2, <2>3 DEF Slots
  <1>4. b \in [1..n -> Slots]
      BY <1>2, <1>3
  <1>5. b \in Seq(Slots) /\ Len(b) = n
      BY <1>4, SeqDef
  <1>6. \A i \in 1..n : b[i] = Piece(f, i)
      BY <1>2
  <1> QED
      BY <1>1, <1>3, <1>5, <1>6

\* Every path leads to what was put there.
LEMMA LaidShows ==
    ASSUME data \in Filled(Slots), NEW t, TableOK(t), NEW T, NEW own, NEW body,
           Laid(t, T, own, body)
    PROVE  Shows(t, T)
  <1>1. ASSUME NEW d \in Objects(T), IsDir(T, d), NEW ent, ent.first = own[d][1]
        PROVE  Lists(t, ent, T, d)
    <2>1. PICK scan : scan = ScanDirectory(t, own[d][1])
        OBVIOUS
    <2>2. ScanShows(scan, T, own, body[d], d, {})
        BY <1>1, <2>1, LaidDirectory
    <2>3. scan.ok /\ NamesIn(scan) \ {".", ".."} = {n \in Names : Append(d, n) \in DOMAIN T}
        BY <2>2 DEF ScanShows
    <2> QED
        BY <1>1, <2>1, <2>3 DEF Lists, ListIs
  <1>2. Lists(t, RootEntry, T, <<>>)
    <2>1. PICK r : r = <<>>
        OBVIOUS
    <2>2. r \in Objects(T) /\ IsDir(T, r) /\ own[r][1] = Root
        BY <2>1 DEF Objects, IsDir, Laid, Space
    <2>3. PICK e : e = RootEntry
        OBVIOUS
    <2>4. e.first = own[r][1]
        BY <2>2, <2>3 DEF RootEntry, DirEnt, Slot
    <2>5. Lists(t, e, T, r)
        BY <1>1, <2>2, <2>4
    <2> QED
        BY <2>1, <2>3, <2>5
  <1>3. ASSUME NEW d \in Dirs, NEW n \in Names, NEW p, p = Append(d, n)
        PROVE  IF p \in DOMAIN T THEN Leads(t, FindFile(t, p), T, p) ELSE FindFile(t, p) = NotFound
    <2>1. PICK ent : ent = FindFile(t, p)
        OBVIOUS
    <2>2. /\ p \in DOMAIN T => ent = EntryOf(T, own, p, n)
          /\ p \notin DOMAIN T => ent = NotFound
      <3>1. Finds(t, T, own, Append(d, n), n)
          BY FindIs
      <3> QED
          BY <1>3, <2>1, <3>1 DEF Finds
    <2>3. CASE p \notin DOMAIN T
        BY <2>1, <2>2, <2>3
    <2>4. CASE p \in DOMAIN T /\ T[p] = "dir"
      <3>1. ent.t = "dir" /\ ent.first = own[p][1]
          BY <2>2, <2>4, EntryFacts
      <3>2. p \in Objects(T) /\ IsDir(T, p)
          BY <2>4 DEF Objects, IsDir
      <3>3. Lists(t, ent, T, p)
          BY <1>1, <3>1, <3>2
      <3>4. Leads(t, ent, T, p)
          BY <2>4, <3>1, <3>3 DEF Leads
      <3> QED
          BY <2>1, <2>4, <3>4
    <2>5. CASE p \in DOMAIN T /\ T[p] # "dir"
      <3>1. ent.t = "file" /\ ent.first = own[p][1] /\ ent.size = FileSize[T[p]]
          BY <2>2, <2>5, EntryFacts
      <3>2. p \in Objects(T) /\ ~IsDir(T, p)
        <4>1. d \in Seq(Names)
            BY DirIsPath
        <4>2. p # <<>>
            BY <1>3, <4>1, NotRoot
        <4> QED
            BY <2>5, <4>2 DEF Objects, IsDir
      <3>3. PICK w \in Walks : w = own[p]
          BY <3>2 DEF Laid, Space
      <3>4. IsChain(t, w)
          BY <3>2, <3>3 DEF Laid, Space
      <3>5. PICK f \in Inputs \ Unreadable : f = T[p]
          BY <2>5 DEF Laid, Shape
      <3>6. PICK b : b = Contents(f)
          OBVIOUS
      <3>7. b \in Seq(Slots) /\ Len(b) = FileSize[f]
          BY <3>6, ContentsAre
      <3>8. body[p] = b
          BY <3>2, <3>5, <3>6 DEF Laid, Texts
      <3>9. Stored(data, w, b, Len(b))
          BY <3>2, <3>3, <3>8 DEF Laid
      <3>10. Len(b) <= Room(w) /\ \A i \in 0..(Len(b) - 1) : Place(data, w, i) = b[i + 1]
          BY <3>9 DEF Stored
      <3>11. PICK c \in Clusters : c = w[1]
          BY FirstOf
      <3>12. w = ChainOf(t, c)
          BY <3>4, <3>11, ChainIs
      <3>13. ent.first = c /\ ent.size = Len(b)
          BY <3>1, <3>3, <3>5, <3>7, <3>11
      <3>14. DumpFile(t, ent) = b
          BY <3>7, <3>10, <3>12, <3>13, FileIs
      <3>15. Leads(t, ent, T, p)
          BY <2>5, <3>1, <3>5, <3>6, <3>14 DEF Leads
      <3> QED
          BY <2>1, <2>5, <3>15
    <2> QED
        BY <2>3, <2>4, <2>5
  <1>4. \A p \in Paths : \E d \in Dirs, n \in Names : p = Append(d, n)
      BY DEF Paths
  <1>5. \A p \in Paths : IF p \in DOMAIN T THEN Leads(t, FindFile(t, p), T, p)
                         ELSE FindFile(t, p) = NotFound
      BY <1>3, <1>4
  <1> QED
      BY <1>2, <1>5 DEF Shows

\* The chains are those of the objects.
LEMMA LaidChains ==
    ASSUME data \in Filled(Slots), NEW t, TableOK(t), NEW T, NEW own, NEW body,
           Laid(t, T, own, body)
    PROVE  LET heads == Heads(t, T)
           IN  /\ Cardinality(heads) = Cardinality(DOMAIN T) + 1
               /\ \A c, d \in heads : c # d => ChainSet(t, c) \cap ChainSet(t, d) = {}
               /\ \A c \in heads : t[Last(ChainOf(t, c))] >= EOC
               /\ UNION {ChainSet(t, c) : c \in heads} = {c \in Clusters : t[c] # 0}
  <1>1. PICK f : f = [p \in Objects(T) |-> own[p][1]]
      OBVIOUS
  <1>2. PICK H : H = {f[p] : p \in Objects(T)}
      OBVIOUS
  <1>3. ASSUME NEW p \in Objects(T)
        PROVE  /\ own[p] \in Walks /\ IsChain(t, own[p]) /\ f[p] \in Clusters
               /\ ChainOf(t, f[p]) = own[p] /\ f[p] = own[p][1]
    <2>1. PICK w \in Walks : w = own[p] /\ IsChain(t, w)
        BY DEF Laid, Space
    <2>2. ChainOf(t, w[1]) = w /\ w[1] \in Clusters
        BY <2>1, ChainIs, FirstOf
    <2> QED
        BY <1>1, <2>1, <2>2
  <1>4. ASSUME NEW p \in Objects(T) PROVE ChainSet(t, f[p]) = {own[p][k] : k \in 1..Len(own[p])}
    <2>1. PICK w \in Walks : w = own[p] /\ ChainOf(t, f[p]) = w
        BY <1>3
    <2>2. DOMAIN w = 1..Len(w)
        BY LenProperties DEF Walks
    <2> QED
        BY <2>1, <2>2 DEF ChainSet, ToSet
  <1>5. \A p, q \in Objects(T) : p # q => Apart(own[p], own[q])
      BY DEF Laid, Space
  <1>6. Heads(t, T) = H
    <2>1. ASSUME NEW p \in DOMAIN T PROVE FindFile(t, p).first = f[p] /\ p \in Objects(T)
      <3>1. PICK d \in Dirs, n \in Names : p = Append(d, n)
          BY <2>1 DEF Laid, Shape, Paths
      <3>2. PICK e : e = EntryOf(T, own, p, n)
          OBVIOUS
      <3>3. FindFile(t, p) = e
        <4>1. Finds(t, T, own, Append(d, n), n)
            BY FindIs
        <4> QED
            BY <2>1, <3>1, <3>2, <4>1 DEF Finds
      <3>4. e.first = own[p][1] /\ p \in Objects(T)
          BY <3>2, EntryFacts DEF Objects
      <3> QED
          BY <1>3, <3>3, <3>4
    <2>2. <<>> \in Objects(T) /\ f[<<>>] = Root
        BY <1>1 DEF Objects, Laid, Space
    <2>3. Objects(T) = {<<>>} \cup DOMAIN T
        BY DEF Objects
    <2>4. Heads(t, T) \subseteq H
        BY <1>2, <2>1, <2>2 DEF Heads
    <2>5. H \subseteq Heads(t, T)
        BY <1>2, <2>1, <2>2, <2>3 DEF Heads
    <2> QED
        BY <2>4, <2>5
  <1>7. \A p, q \in Objects(T) : f[p] = f[q] => p = q
    <2> TAKE p, q \in Objects(T)
    <2>1. 1 \in 1..Len(own[p]) /\ 1 \in 1..Len(own[q])
        BY <1>3, FirstOf
    <2> QED
        BY <1>3, <1>5, <2>1 DEF Apart
  <1>8. Cardinality(H) = Cardinality(DOMAIN T) + 1
    <2>1. IsFiniteSet(Clusters)
      <3>1. PICK m \in Int : m = NumClusters + 1
          BY Sizes
      <3>2. IsFiniteSet(2..m)
          BY FS_Interval
      <3> QED
          BY <3>1, <3>2 DEF Clusters
    <2>2. f \in [Objects(T) -> Clusters] /\ f \in [Objects(T) -> H]
        BY <1>1, <1>2, <1>3
    <2>3. f \in Injection(Objects(T), Clusters)
        BY <1>7, <2>2 DEF Injection, IsInjective
    <2>4. IsFiniteSet(Objects(T))
        BY <2>1, <2>3, FS_Injection
    <2>5. f \in Bijection(Objects(T), H)
        BY <1>2, <1>7, <2>2 DEF Bijection, Injection, Surjection, IsInjective
    <2>6. Cardinality(H) = Cardinality(Objects(T))
        BY <2>4, <2>5, FS_Bijection DEF ExistsBijection
    <2>7. IsFiniteSet(DOMAIN T)
      <3>1. DOMAIN T \in SUBSET Objects(T)
          BY DEF Objects
      <3> QED
          BY <2>4, <3>1, FS_Subset
    <2>8. <<>> \notin DOMAIN T
      <3>1. ASSUME NEW p \in DOMAIN T PROVE p # <<>>
        <4>1. PICK d \in Dirs, n \in Names : p = Append(d, n)
            BY <3>1 DEF Laid, Shape, Paths
        <4>2. d \in Seq(Names)
            BY DirIsPath
        <4> QED
            BY <4>1, <4>2, NotRoot
      <3> QED
          BY <3>1
    <2>9. Objects(T) = DOMAIN T \cup {<<>>}
        BY DEF Objects
    <2>10. Cardinality(DOMAIN T \cup {<<>>}) = Cardinality(DOMAIN T) + 1
        BY <2>7, <2>8, FS_AddElement
    <2> QED
        BY <2>6, <2>9, <2>10
  <1>9. ASSUME NEW c \in H, NEW d \in H, c # d PROVE ChainSet(t, c) \cap ChainSet(t, d) = {}
    <2>1. PICK p \in Objects(T) : c = f[p]
        BY <1>2
    <2>2. PICK q \in Objects(T) : d = f[q]
        BY <1>2
    <2>3. Apart(own[p], own[q])
        BY <1>5, <1>9, <2>1, <2>2
    <2> QED
        BY <1>4, <2>1, <2>2, <2>3 DEF Apart
  <1>10. ASSUME NEW c \in H PROVE t[Last(ChainOf(t, c))] >= EOC
    <2>1. PICK p \in Objects(T) : c = f[p]
        BY <1>2
    <2>2. PICK w \in Walks : w = own[p] /\ ChainOf(t, c) = w /\ IsChain(t, w)
        BY <1>3, <2>1
    <2>3. t[Last(w)] = EOC
        BY <2>2, LastOf DEF IsChain
    <2> QED
        BY <2>2, <2>3, Sizes
  <1>11. UNION {ChainSet(t, c) : c \in H} = Used(t)
    <2>1. ASSUME NEW x \in Used(t) PROVE x \in UNION {ChainSet(t, c) : c \in H}
      <3>1. PICK p \in Objects(T) : \E k \in 1..Len(own[p]) : own[p][k] = x
          BY DEF Laid, Space
      <3>2. x \in ChainSet(t, f[p]) /\ f[p] \in H
          BY <1>2, <1>4, <3>1
      <3> QED
          BY <3>2
    <2>2. ASSUME NEW p \in Objects(T), NEW k \in 1..Len(own[p]) PROVE own[p][k] \in Used(t)
      <3>1. PICK w \in Walks : w = own[p] /\ IsChain(t, w)
          BY <1>3
      <3>2. PICK n \in Nat : n = Len(w)
          BY FirstOf
      <3>3. w[k] \in Clusters
          BY <3>1, FirstOf
      <3>4. CASE k = n
          BY <3>1, <3>2, <3>3, <3>4, Sizes DEF IsChain, Used, EOC
      <3>5. CASE k # n
        <4>1. k \in 1..(n - 1) /\ k + 1 \in 1..Len(w)
            BY <3>1, <3>2, <3>5
        <4>2. w[k + 1] \in Clusters /\ t[w[k]] = w[k + 1]
            BY <3>1, <3>2, <4>1, FirstOf DEF IsChain
        <4> QED
            BY <3>1, <3>3, <4>2, Sizes, SMTT(30) DEF Used
      <3> QED
          BY <3>4, <3>5
    <2>3. ASSUME NEW x \in UNION {ChainSet(t, c) : c \in H} PROVE x \in Used(t)
      <3>1. PICK p \in Objects(T) : x \in ChainSet(t, f[p])
          BY <1>2, <2>3
      <3>2. PICK k \in 1..Len(own[p]) : x = own[p][k]
          BY <1>4, <3>1
      <3> QED
          BY <2>2, <3>2
    <2> QED
        BY <2>1, <2>3
  <1> QED
      BY <1>6, <1>8, <1>9, <1>10, <1>11 DEF Used

-----------------------------------------------------------------------------
(***************************************************************************)
(* The second inductive invariant.  cur is the object the FileWriter       *)
(* writes: a new one as long as its entry waits to be appended, and then   *)
(* the directory it is in.                                                 *)
(***************************************************************************)

\* An object whose entry is not written yet is not listed.
Unlisted(cur) == IF entry = {} THEN {} ELSE {cur}

\* How many slots of an object are on the image.
Mark(body, cur, p) == IF Busy /\ p = cur THEN wr.total ELSE Len(body[p])
AllStored(own, body, cur) ==
    \A p \in Objects(tree) : Stored(data, own[p], body[p], Mark(body, cur, p))

\* The FileWriter is at the end of the chain of its object, and what it has not
\* written yet is the rest of it.
Position(own, body, cur) ==
    Busy =>
        /\ cur \in Objects(tree)
        /\ wr.cluster = Last(own[cur])
        /\ wr.total = (Len(own[cur]) - 1) * SlotsPerCluster + wr.off
        /\ Len(body[cur]) = wr.total + Len(todo)
        /\ \A i \in 1..Len(todo) : todo[i] = body[cur][wr.total + i]
        /\ entry = {} => IsDir(tree, cur)

\* The entry that waits is that of the new object, and will replace the zero at
\* the end of its directory.
PendingIn(own, body, cur, d, e) ==
    /\ cur = Append(d, e.name) /\ d \in Objects(tree) /\ IsDir(tree, d)
    /\ e.cluster = own[d][1] /\ e.size = Len(body[d]) - 1
Pending(own, body, cur) ==
    \A e \in entry :
        /\ cur \in DOMAIN tree /\ cur \notin DOMAIN saved
        /\ wr.first = own[cur][1] /\ e.isDir = (tree[cur] = "dir")
        /\ \E d \in Dirs : PendingIn(own, body, cur, d, e)

\* What an earlier session saved is still there, in the clusters that the table
\* on the image leads to.
EntryKept(own, d, n) ==
    \E i \in 0..(Room(ChainOf(imgFat[1], own[d][1])) - 1) :
        Place(data, own[d], i) = EntryOf(tree, own, Append(d, n), n)
SavedKept(own) ==
    /\ DOMAIN saved \subseteq DOMAIN tree
    /\ \A p \in DOMAIN saved : tree[p] = saved[p]
    /\ \A d \in Dirs, n \in Names :
        Append(d, n) \in DOMAIN saved => d \in Objects(saved) /\ EntryKept(own, d, n)
    /\ \A p \in DOMAIN saved :
        saved[p] # "dir" => FileSize[saved[p]] <= Room(ChainOf(imgFat[1], own[p][1]))

Explained(t, own, body, cur) ==
    /\ Shape(tree) /\ Space(t, tree, own)
    /\ Texts(tree, own, body, Unlisted(cur))
    /\ AllStored(own, body, cur)
    /\ Position(own, body, cur)
    /\ Pending(own, body, cur)
    /\ SavedKept(own)

\* WriteToImage() makes the copies of the table the same, one by one.
CopiesSame ==
    /\ pc = "flush" => \A k \in 1..flushed : imgFat[k] = fat
    /\ pc = "closed" => saved = tree /\ \A k \in 1..NumFats : imgFat[k] = imgFat[1]

\* What SavedSurvives promises.
SavedShown ==
    \A p \in DOMAIN saved :
        LET ent == FindFile(imgFat[1], p)
        IN  IF saved[p] = "dir" THEN ent.t = "dir"
            ELSE ent.t = "file" /\ DumpFile(imgFat[1], ent) = Contents(saved[p])

TreeInv ==
    /\ lost = 0 => /\ \E own, body, cur : Explained(Current, own, body, cur)
                   /\ Extends(imgFat[1], Current)
                   /\ CopiesSame
    /\ lost <= sessions /\ (lost # 0 /\ pc # "dead" => lost < sessions)
    /\ pc = "dead" => lost # 0
    /\ pc = "dead" /\ lost = sessions /\ NoOldData => SavedShown

-----------------------------------------------------------------------------
(* What follows from it *)

\* Between commands everything is written and listed.
LEMMA NothingUnderWay ==
    ASSUME NEW t, NEW own, NEW body, NEW cur, Explained(t, own, body, cur), ~Busy
    PROVE  Laid(t, tree, own, body)
  <1>1. Unlisted(cur) = {}
      BY DEF Busy, Unlisted
  <1>2. \A p \in Objects(tree) : Mark(body, cur, p) = Len(body[p])
      BY DEF Mark
  <1>3. Texts(tree, own, body, {})
      BY <1>1 DEF Explained
  <1>4. \A p \in Objects(tree) : Stored(data, own[p], body[p], Len(body[p]))
      BY <1>2 DEF Explained, AllStored
  <1> QED
      BY <1>3, <1>4 DEF Explained, Laid

LEMMA InvTypes ==
    ASSUME Inv
    PROVE  /\ data \in Filled(Slots) /\ data \in Filled(Leading(Clusters))
           /\ \A k \in 1..NumFats : TableOK(imgFat[k])
           /\ TableOK(imgFat[1]) /\ 1 \in 1..NumFats /\ NumFats \in Nat
           /\ pc \in {"prompt", "flush"} => TableOK(fat) /\ sessions > 0
           /\ pc # "prompt" => ~Busy /\ todo = <<>> /\ entry = {}
           /\ lost = 0 /\ pc # "dead" => TableOK(Current)
           /\ sessions \in Nat /\ lost \in Nat
           /\ pc \in {"prompt", "flush", "closed", "dead"}
  <1>1. TypeInv /\ TypeOK
      BY DEF Inv, TypeInv
  <1>2. 1 \in 1..NumFats /\ NumFats \in Nat /\ MaxSessions \in Nat
      BY FatEditAssumption
  <1>3. data \in Filled(Slots)
      BY <1>1 DEF TypeOK, Filled
  <1>4. pc # "prompt" => ~Busy /\ todo = <<>> /\ entry = {}
      BY <1>1 DEF TypeInv, Busy
  <1>5. pc \in {"prompt", "flush", "closed", "dead"} /\ sessions \in Nat /\ lost \in Nat
      BY <1>1, <1>2 DEF TypeOK
  <1>6. TableOK(imgFat[1])
      BY <1>1, <1>2 DEF TypeInv
  <1>7. lost = 0 /\ pc # "dead" => TableOK(Current)
      BY <1>1, <1>5, <1>6 DEF TypeInv, Current
  <1> QED
      BY <1>1, <1>2, <1>3, <1>4, <1>5, <1>6, <1>7 DEF TypeInv

LEMMA InvView == ASSUME Inv, TreeInv PROVE ViewIsTree /\ ChainsPartition
  <1>1. SUFFICES ASSUME Idle, lost = 0
                 PROVE  /\ Shows(fat, tree)
                        /\ LET heads == Heads(fat, tree)
                           IN  /\ Cardinality(heads) = Cardinality(DOMAIN tree) + 1
                               /\ \A c, d \in heads : c # d => ChainSet(fat, c) \cap ChainSet(fat, d) = {}
                               /\ \A c \in heads : fat[Last(ChainOf(fat, c))] >= EOC
                               /\ UNION {ChainSet(fat, c) : c \in heads} = {c \in Clusters : fat[c] # 0}
      BY DEF ViewIsTree, ChainsPartition
  <1>2. PICK own, body, cur : Explained(Current, own, body, cur)
      BY <1>1 DEF TreeInv
  <1>3. ~Busy /\ Current = fat /\ TableOK(fat) /\ data \in Filled(Slots)
      BY <1>1, InvTypes DEF Idle, Busy, Current
  <1>4. Laid(fat, tree, own, body)
      BY <1>2, <1>3, NothingUnderWay
  <1>5. Shows(fat, tree)
      BY <1>3, <1>4, LaidShows
  <1> QED
      BY <1>3, <1>4, <1>5, LaidChains, Zenon

LEMMA InvCommitted == ASSUME Inv, TreeInv PROVE Committed
  <1>1. SUFFICES ASSUME pc = "closed", lost = 0, NEW k \in 1..NumFats
                 PROVE  Shows(imgFat[k], saved)
      BY DEF Committed
  <1>2. PICK own, body, cur : Explained(Current, own, body, cur)
      BY <1>1 DEF TreeInv
  <1>3. ~Busy /\ Current = imgFat[1] /\ TableOK(imgFat[1]) /\ data \in Filled(Slots)
      BY <1>1, InvTypes DEF Current
  <1>4. Laid(imgFat[1], tree, own, body)
      BY <1>2, <1>3, NothingUnderWay
  <1>5. Shows(imgFat[1], tree)
      BY <1>3, <1>4, LaidShows
  <1>6. saved = tree /\ imgFat[k] = imgFat[1]
      BY <1>1 DEF TreeInv, CopiesSame
  <1> QED
      BY <1>5, <1>6

-----------------------------------------------------------------------------
(* What a session that dies leaves *)

\* The places of the beginning of a chain.
LEMMA BeginPlaces ==
    ASSUME NEW v \in Walks, NEW w \in Walks, Begins(v, w)
    PROVE  /\ Room(v) <= Room(w) /\ Room(v) \in Nat /\ Room(w) \in Nat
           /\ \A D, i : i \in 0..(Room(v) - 1) => Place(D, v, i) = Place(D, w, i)
  <1>1. PICK b \in Nat \ {0} : b = SlotsPerCluster
      BY Sizes
  <1>2. PICK k \in Nat \ {0} : k = Len(v)
      BY LastOf
  <1>3. PICK l \in Nat \ {0} : l = Len(w)
      BY LastOf
  <1>4. k <= l /\ \A j \in 1..k : w[j] = v[j]
      BY <1>2, <1>3 DEF Begins
  <1>5. k * b <= l * b /\ k * b \in Nat /\ l * b \in Nat
    <2>1. PICK d \in Nat : l = k + d
        BY <1>4
    <2>2. l * b = k * b + d * b /\ d * b \in Nat /\ k * b \in Nat
        BY <2>1
    <2> QED
        BY <2>2
  <1>6. Room(v) = k * b /\ Room(w) = l * b
      BY <1>1, <1>2, <1>3 DEF Room
  <1>7. ASSUME NEW i \in 0..(k * b - 1), NEW D PROVE Place(D, v, i) = Place(D, w, i)
    <2>1. i \in Nat /\ i < k * b
        BY <1>5
    <2>2. PICK q \in Nat : q = i \div b
        BY <2>1, DivMod
    <2>3. q < k
        BY <2>1, <2>2, DivBelow
    <2>4. q + 1 \in 1..k
        BY <2>3
    <2>5. v[q + 1] = w[q + 1]
        BY <1>4, <2>4
    <2> QED
        BY <1>1, <2>2, <2>5 DEF Place
  <1> QED
      BY <1>5, <1>6, <1>7

\* The entries and the files saved earlier are found with the table that is on
\* the image, although the lists of the directories may have grown.
LEMMA OldChain ==
    ASSUME Inv, lost = 0, pc # "dead", NEW own, NEW body, NEW cur,
           Explained(Current, own, body, cur), Extends(imgFat[1], Current),
           NEW p \in Objects(saved), NEW v, v = ChainOf(imgFat[1], own[p][1])
    PROVE  /\ p \in Objects(tree) /\ own[p] \in Walks /\ own[p][1] \in Clusters
           /\ v \in Walks /\ Begins(v, own[p])
           /\ IsDir(saved, p) <=> IsDir(tree, p)
  <1>1. TableOK(imgFat[1]) /\ TableOK(Current)
      BY InvTypes
  <1>2. p \in Objects(tree) /\ (p # <<>> => p \in DOMAIN saved /\ tree[p] = saved[p])
      BY DEF Objects, Explained, SavedKept
  <1>3. PICK w \in Walks : w = own[p] /\ IsChain(Current, w)
      BY <1>2 DEF Explained, Space
  <1>4. PICK c \in Clusters : c = w[1]
      BY FirstOf
  <1>5. ChainOf(Current, c) = w
      BY <1>1, <1>3, <1>4, ChainIs
  <1>6. v \in Walks
      BY <1>1, <1>3, <1>4, ChainTyped
  <1>7. Begins(ChainOf(imgFat[1], c), ChainOf(Current, c))
      BY <1>1, ChainGrows
  <1> QED
      BY <1>2, <1>3, <1>4, <1>5, <1>6, <1>7 DEF IsDir

LEMMA OldDirectory ==
    ASSUME Inv, lost = 0, pc # "dead", NoOldData, NEW own, NEW body, NEW cur,
           Explained(Current, own, body, cur), Extends(imgFat[1], Current),
           NEW d \in Objects(saved), IsDir(saved, d), d \in Dirs, NEW n \in Names,
           Append(d, n) \in DOMAIN saved, NEW scan, scan = ScanDirectory(imgFat[1], own[d][1])
    PROVE  Pick(scan, n) = EntryOf(tree, own, Append(d, n), n)
  <1>1. PICK v : v = ChainOf(imgFat[1], own[d][1])
      OBVIOUS
  <1>2. /\ d \in Objects(tree) /\ own[d] \in Walks /\ own[d][1] \in Clusters
        /\ v \in Walks /\ Begins(v, own[d]) /\ IsDir(tree, d)
      BY <1>1, OldChain
  <1>3. PICK w \in Walks : w = own[d]
      BY <1>2
  <1>4. PICK b \in Seq(Slots) : b = body[d]
      BY <1>2 DEF Explained, Texts
  <1>5. PICK m : m = Mark(body, cur, d)
      OBVIOUS
  <1>6. Stored(data, w, b, m)
      BY <1>2, <1>3, <1>4, <1>5 DEF Explained, AllStored
  <1>7. PICK P : P = Unlisted(cur)
      OBVIOUS
  <1>8. Catalog(tree, own, b, d, P)
      BY <1>2, <1>4, <1>7 DEF Explained, Texts
  <1>9. /\ Room(v) <= Room(w) /\ Room(v) \in Nat /\ Room(w) \in Nat
        /\ \A D, i : i \in 0..(Room(v) - 1) => Place(D, v, i) = Place(D, w, i)
      BY <1>2, <1>3, BeginPlaces
  <1>10. PICK r \in Nat : r = Room(v)
      BY <1>9
  <1>11. data \in Filled(Slots) /\ TableOK(imgFat[1])
      BY InvTypes
  <1>12. PICK c \in Clusters : c = own[d][1]
      BY <1>2
  <1>13. /\ scan.list \in Seq(Slots) /\ scan.total = Len(scan.list)
         /\ scan.total \in Nat /\ scan.total <= r
         /\ \A i \in 1..scan.total :
                scan.list[i] = Place(data, v, i - 1) /\ ~IsZero(scan.list[i])
         /\ scan.total < r => IsZero(Place(data, v, scan.total))
         /\ scan.ok <=> \A i \in 1..scan.total : IsEntry(scan.list[i])
      BY <1>1, <1>2, <1>10, <1>11, <1>12, ScanReads, SMTT(20)
  <1>14. PICK k \in Nat : k = scan.total /\ k <= r
      BY <1>13
  <1>15. \A i \in 0..(r - 1) : Place(data, v, i) = Place(data, w, i)
      BY <1>9, <1>10
  <1>16. /\ m \in Nat /\ m <= Len(b) /\ Len(b) \in Nat
         /\ \A i \in 0..(m - 1) : Place(data, w, i) = b[i + 1]
         /\ \A i \in 0..(r - 1) : i >= m => ~Written(Place(data, w, i))
      BY <1>6, <1>9, <1>10 DEF Stored
  <1>17. ASSUME NEW i \in 0..(r - 1)
         PROVE  Written(Place(data, w, i)) \/ IsZero(Place(data, w, i))
    <2>1. i \in 0..(Room(v) - 1)
        BY <1>10
    <2>2. PICK q \in 1..Len(v), j \in SlotIdx : v[q] \in Clusters /\ Place(data, v, i) = data[v[q]][j]
        BY <1>2, <2>1, PlaceAt
    <2>3. data[v[q]][j] \in Slots
        BY <1>11, <2>2 DEF Filled, SlotIdx
    <2>4. data[v[q]][j].t # "junk"
        BY <2>2 DEF NoOldData, SlotIdx
    <2>5. Place(data, w, i) = data[v[q]][j]
        BY <1>15, <2>2
    <2> QED
        BY <2>3, <2>4, <2>5 DEF Slots, Written, IsZero
  <1>18. Len(b) >= 1 /\ IsZero(b[Len(b)])
      BY <1>8 DEF Catalog
  <1>19. ASSUME NEW i \in 1..k
         PROVE  scan.list[i] = b[i] /\ i \in 1..(Len(b) - 1)
    <2>1. PICK j \in 0..(r - 1) : i = j + 1 /\ i - 1 = j
        BY <1>14
    <2>2. scan.list[i] = Place(data, w, j) /\ ~IsZero(scan.list[i])
        BY <1>13, <1>14, <1>15, <2>1
    <2>3. Written(Place(data, w, j))
        BY <1>17, <2>2
    <2>4. j < m /\ j \in 0..(m - 1)
        BY <1>16, <2>3
    <2>5. scan.list[i] = b[i]
        BY <1>16, <2>1, <2>2, <2>4
    <2>6. i # Len(b)
        BY <1>18, <2>2, <2>5
    <2> QED
        BY <1>16, <2>1, <2>4, <2>5, <2>6
  <1>20. ASSUME NEW i \in 1..k
         PROVE  /\ IsEntry(scan.list[i])
                /\ scan.list[i].name \in Names =>
                        scan.list[i] = EntryOf(tree, own, Append(d, scan.list[i].name), scan.list[i].name)
    <2>1. i \in 1..(Len(b) - 1) /\ scan.list[i] = b[i]
        BY <1>19
    <2>2. /\ IsEntry(b[i])
          /\ b[i].name \in Names => b[i] = EntryOf(tree, own, Append(d, b[i].name), b[i].name)
        BY <1>8, <2>1, Cataloged
    <2> QED
        BY <2>1, <2>2
  <1>21. scan.ok
      BY <1>13, <1>14, <1>20
  <1>22. PICK e : e = EntryOf(tree, own, Append(d, n), n)
      OBVIOUS
  <1>23. e.name = n /\ Written(e) /\ ~IsZero(e)
      BY <1>22, EntryFacts
  <1>24. PICK i \in 0..(r - 1) : Place(data, w, i) = e
      BY <1>1, <1>3, <1>10, <1>22 DEF Explained, SavedKept, EntryKept
  <1>25. i < k
    <2>1. SUFFICES ASSUME i >= k PROVE FALSE
        BY <1>14
    <2>2. k < r /\ k \in 0..(r - 1)
        BY <1>14, <2>1
    <2>3. IsZero(Place(data, w, k))
        BY <1>13, <1>14, <1>15, <2>2
    <2>4. i # k /\ i > k
        BY <1>23, <1>24, <2>1, <2>3
    <2>5. i < m
        BY <1>16, <1>23, <1>24
    <2>6. k \in 0..(m - 1) /\ k + 1 \in 1..(Len(b) - 1)
        BY <1>14, <1>16, <2>4, <2>5
    <2>7. IsZero(b[k + 1])
        BY <1>16, <2>3, <2>6
    <2> QED
        BY <1>8, <2>6, <2>7, Cataloged
  <1>26. i + 1 \in 1..k /\ scan.list[i + 1] = e
    <2>1. i + 1 \in 1..k /\ (i + 1) - 1 = i
        BY <1>25
    <2> QED
        BY <1>13, <1>14, <1>15, <1>24, <2>1
  <1>27. scan.list \in Seq(Slots) /\ scan.total = Len(scan.list)
      BY <1>13
  <1>28. \/ \E x \in 1..scan.total : scan.list[x].name = n /\ Pick(scan, n) = scan.list[x]
         \/ \A x \in 1..scan.total : scan.list[x].name # n
      BY <1>21, <1>27, PickIs, SMTT(30)
  <1>29. PICK x \in 1..k : scan.list[x].name = n /\ Pick(scan, n) = scan.list[x]
      BY <1>14, <1>23, <1>26, <1>28
  <1> QED
      BY <1>20, <1>29

\* FindFile finds the entries of the saved objects.
LEMMA OldEntry ==
    ASSUME Inv, lost = 0, pc # "dead", NoOldData, NEW own, NEW body, NEW cur,
           Explained(Current, own, body, cur), Extends(imgFat[1], Current),
           NEW d \in Dirs, NEW n \in Names, Append(d, n) \in DOMAIN saved
    PROVE  FindFile(imgFat[1], Append(d, n)) = EntryOf(tree, own, Append(d, n), n)
  <1>1. RootEntry.t = "dir" /\ RootEntry.first = Root
      BY DEF RootEntry, DirEnt, Slot
  <1>2. own[<<>>][1] = Root
      BY DEF Explained, Space
  <1>3. ASSUME NEW e \in Dirs, NEW m \in Names, Append(e, m) \in DOMAIN saved
        PROVE  e \in Objects(saved) /\ IsDir(saved, e)
    <2>1. e \in Objects(saved)
        BY <1>3 DEF Explained, SavedKept
    <2>2. Append(e, m) \in DOMAIN tree
        BY <1>3 DEF Explained, SavedKept
    <2>3. IsDir(tree, e)
        BY <2>2 DEF Explained, Shape
    <2> QED
        BY <2>1, <2>3, OldChain
  <1>4. ASSUME NEW m \in Names, <<m>> \in DOMAIN saved
        PROVE  FindFile(imgFat[1], <<m>>) = EntryOf(tree, own, <<m>>, m)
    <2>1. PICK r \in Dirs : r = <<>>
        BY DEF Dirs
    <2>2. Append(r, m) = <<m>>
        BY <2>1
    <2>3. r \in Objects(saved) /\ IsDir(saved, r) /\ own[r][1] = Root
        BY <1>2, <2>1 DEF Objects, IsDir
    <2>4. PICK scan : scan = ScanDirectory(imgFat[1], own[r][1])
        OBVIOUS
    <2>5. Append(r, m) \in DOMAIN saved
        BY <1>4, <2>2
    <2>6. Pick(scan, m) = EntryOf(tree, own, Append(r, m), m)
        BY <2>3, <2>4, <2>5, OldDirectory
    <2>7. FindFile(imgFat[1], <<m>>) = Pick(scan, m)
        BY <1>1, <2>3, <2>4, FindOne DEF Lookup
    <2> QED
        BY <2>2, <2>6, <2>7
  <1>5. PICK p : p = Append(d, n)
      OBVIOUS
  <1>6. CASE d = <<>>
    <2>1. p = <<n>>
        BY <1>5, <1>6
    <2> QED
        BY <1>4, <1>5, <2>1
  <1>7. CASE d # <<>>
    <2>1. PICK a \in Names : d = <<a>>
        BY <1>7 DEF Dirs
    <2>2. p = <<a, n>>
        BY <1>5, <2>1, PathOfTwo
    <2>3. d \in Objects(saved) /\ IsDir(saved, d)
        BY <1>3
    <2>4. d \in DOMAIN saved /\ saved[d] = "dir"
        BY <1>7, <2>3 DEF Objects, IsDir
    <2>5. tree[d] = "dir"
        BY <2>4 DEF Explained, SavedKept
    <2>6. PICK e : e = EntryOf(tree, own, d, a)
        OBVIOUS
    <2>7. FindFile(imgFat[1], d) = e
        BY <1>4, <2>1, <2>4, <2>6
    <2>8. e.t = "dir" /\ e.first = own[d][1]
        BY <2>5, <2>6, EntryFacts
    <2>9. PICK scan : scan = ScanDirectory(imgFat[1], own[d][1])
        OBVIOUS
    <2>10. Pick(scan, n) = EntryOf(tree, own, Append(d, n), n)
        BY <2>3, <2>9, OldDirectory
    <2>11. FindFile(imgFat[1], p) = Lookup(imgFat[1], FindFile(imgFat[1], d), n)
        BY <2>1, <2>2, FindTwo
    <2>12. FindFile(imgFat[1], p) = Pick(scan, n)
        BY <2>7, <2>8, <2>9, <2>11 DEF Lookup
    <2> QED
        BY <1>5, <2>10, <2>12
  <1> QED
      BY <1>6, <1>7

LEMMA OldShown ==
    ASSUME Inv, lost = 0, pc # "dead", NoOldData, NEW own, NEW body, NEW cur,
           Explained(Current, own, body, cur), Extends(imgFat[1], Current)
    PROVE  SavedShown
  <1>1. SUFFICES ASSUME NEW p \in DOMAIN saved, NEW ent, ent = FindFile(imgFat[1], p)
                 PROVE  IF saved[p] = "dir" THEN ent.t = "dir"
                        ELSE ent.t = "file" /\ DumpFile(imgFat[1], ent) = Contents(saved[p])
      BY DEF SavedShown
  <1>2. p \in DOMAIN tree /\ tree[p] = saved[p]
      BY DEF Explained, SavedKept
  <1>3. PICK d \in Dirs, n \in Names : p = Append(d, n)
      BY <1>2 DEF Explained, Shape, Paths
  <1>4. PICK e : e = EntryOf(tree, own, p, n)
      OBVIOUS
  <1>5. ent = e
    <2>1. FindFile(imgFat[1], Append(d, n)) = EntryOf(tree, own, Append(d, n), n)
        BY <1>3, OldEntry
    <2> QED
        BY <1>1, <1>3, <1>4, <2>1
  <1>6. CASE saved[p] = "dir"
      BY <1>2, <1>4, <1>5, <1>6, EntryFacts
  <1>7. CASE saved[p] # "dir"
    <2>1. ent.t = "file" /\ ent.first = own[p][1] /\ ent.size = FileSize[tree[p]]
        BY <1>2, <1>4, <1>5, <1>7, EntryFacts
    <2>2. p \in Objects(saved) /\ p \in Objects(tree) /\ ~IsDir(tree, p)
      <3>1. p # <<>>
          BY <1>3, DirIsPath, NotRoot
      <3> QED
          BY <1>2, <1>7, <3>1 DEF Objects, IsDir
    <2>3. PICK v : v = ChainOf(imgFat[1], own[p][1])
        OBVIOUS
    <2>4. own[p] \in Walks /\ own[p][1] \in Clusters /\ v \in Walks /\ Begins(v, own[p])
        BY <2>2, <2>3, OldChain
    <2>5. PICK w \in Walks : w = own[p]
        BY <2>4
    <2>6. PICK f \in Inputs \ Unreadable : f = tree[p]
        BY <1>2, <1>7 DEF Explained, Shape
    <2>7. PICK b : b = Contents(f)
        OBVIOUS
    <2>8. b \in Seq(Slots) /\ Len(b) = FileSize[f] /\ Len(b) \in Nat
        BY <2>7, ContentsAre
    <2>9. body[p] = b
        BY <2>2, <2>6, <2>7 DEF Explained, Texts
    <2>10. Mark(body, cur, p) = Len(b)
      <3>1. SUFFICES ASSUME Busy, p = cur PROVE FALSE
          BY <2>9 DEF Mark
      <3>2. CASE entry = {}
          BY <2>2, <3>1, <3>2 DEF Explained, Position
      <3>3. CASE entry # {}
          BY <1>1, <3>1, <3>3 DEF Explained, Pending
      <3> QED
          BY <3>2, <3>3
    <2>11. Stored(data, w, b, Len(b))
        BY <2>2, <2>5, <2>9, <2>10 DEF Explained, AllStored
    <2>12. Len(b) <= Room(v)
        BY <1>2, <1>7, <2>3, <2>6, <2>8 DEF Explained, SavedKept
    <2>13. ASSUME NEW i \in 0..(Len(b) - 1) PROVE Place(data, v, i) = b[i + 1]
      <3>1. Place(data, w, i) = b[i + 1]
          BY <2>11, <2>13 DEF Stored
      <3>2. Room(v) \in Nat /\ \A D, x : x \in 0..(Room(v) - 1) => Place(D, v, x) = Place(D, w, x)
          BY <2>4, <2>5, BeginPlaces
      <3>3. i \in 0..(Room(v) - 1)
          BY <2>8, <2>12, <3>2
      <3> QED
          BY <3>1, <3>2, <3>3
    <2>14. PICK c \in Clusters : c = own[p][1]
        BY <2>4
    <2>15. data \in Filled(Slots) /\ TableOK(imgFat[1])
        BY InvTypes
    <2>16. PICK t : t = imgFat[1]
        OBVIOUS
    <2>17. TableOK(t) /\ v = ChainOf(t, c) /\ ent.first = c /\ ent.size = Len(b)
        BY <2>1, <2>3, <2>6, <2>8, <2>14, <2>15, <2>16
    <2>18. DumpFile(t, ent) = b
      <3>1. data \in Filled(Slots) /\ v \in Walks
          BY <2>4, <2>15
      <3>2. \A i \in 0..(Len(b) - 1) : Place(data, v, i) = b[i + 1]
          BY <2>13
      <3> QED
          BY <2>8, <2>12, <2>17, <3>1, <3>2, FileIs, SMTT(30)
    <2> QED
        BY <1>2, <1>7, <2>1, <2>6, <2>7, <2>16, <2>18
  <1> QED
      BY <1>6, <1>7

-----------------------------------------------------------------------------
(* Steps that change neither the tree nor a file *)

LEMMA SameExplained ==
    ASSUME NEW t, NEW own, NEW body, NEW cur, Explained(t, own, body, cur),
           UNCHANGED <<imgFat, data, wr, todo, entry, tree, saved>>
    PROVE  Explained(t, own, body, cur)'
  BY DEF Explained, Unlisted, AllStored, Mark, Busy, Position, Pending, PendingIn, SavedKept, EntryKept

LEMMA SameShown ==
    ASSUME SavedShown, UNCHANGED <<imgFat, data, saved>>
    PROVE  SavedShown'
  <1>1. ASSUME NEW t, NEW c PROVE SlotsOf(t, c)' = SlotsOf(t, c)
      BY DEF SlotsOf, SlotsAlong
  <1>2. ASSUME NEW t, NEW e PROVE DumpFile(t, e)' = DumpFile(t, e)
      BY <1>1, Zenon DEF DumpFile
  <1>3. ASSUME NEW t, NEW c PROVE ScanDirectory(t, c)' = ScanDirectory(t, c)
      BY <1>1, Zenon DEF ScanDirectory
  <1>4. ASSUME NEW t, NEW d, NEW n PROVE Lookup(t, d, n)' = Lookup(t, d, n)
      BY <1>3, Zenon DEF Lookup
  <1>5. ASSUME NEW t, NEW p PROVE FindFile(t, p)' = FindFile(t, p)
      BY <1>4, Zenon DEF FindFile
  <1> QED
      BY <1>2, <1>5 DEF SavedShown

LEMMA SameNoOldData ==
    ASSUME data' = data PROVE NoOldData' = NoOldData
  BY DEF NoOldData

LEMMA TreeDie ==
    ASSUME Inv, TreeInv, NEW why, Die(why), pc \in {"prompt", "flush"}, UNCHANGED <<tree, saved>>
    PROVE  TreeInv'
  <1>1. /\ pc' = "dead" /\ imgFat' = imgFat /\ data' = data /\ saved' = saved
        /\ sessions' = sessions /\ lost' = IF lost = 0 THEN sessions ELSE lost
      BY DEF Die, image
  <1>2. sessions \in Nat /\ sessions > 0 /\ lost \in Nat /\ pc # "dead"
      BY InvTypes
  <1>3. lost' # 0 /\ lost' <= sessions'
      BY <1>1, <1>2 DEF TreeInv
  <1>4. ASSUME lost' = sessions', NoOldData' PROVE SavedShown'
    <2>1. lost = 0
        BY <1>1, <1>2, <1>4 DEF TreeInv
    <2>2. NoOldData
        BY <1>1, <1>4, SameNoOldData
    <2>3. PICK own, body, cur : Explained(Current, own, body, cur)
        BY <2>1 DEF TreeInv
    <2>4. SavedShown
        BY <1>2, <2>1, <2>2, <2>3, OldShown DEF TreeInv
    <2> QED
        BY <1>1, <2>4, SameShown
  <1> QED
      BY <1>1, <1>3, <1>4 DEF TreeInv

\* A session that goes on, or ends properly.
LEMMA TreeLives ==
    ASSUME Inv, TreeInv, lost' = lost, pc' # "dead", sessions' = sessions, pc # "dead",
           lost = 0 => /\ \E own, body, cur : Explained(Current, own, body, cur)'
                       /\ Extends(imgFat[1], Current)' /\ CopiesSame'
    PROVE  TreeInv'
  <1>1. sessions \in Nat /\ lost \in Nat
      BY InvTypes
  <1> QED
      BY <1>1 DEF TreeInv

LEMMA TreeOpen == ASSUME Inv, TreeInv, Open PROVE TreeInv'
  <1>1. /\ pc' = "prompt" /\ sessions' = sessions + 1 /\ fat' = imgFat[1]
        /\ imgFat' = imgFat /\ data' = data /\ wr' = wr /\ todo' = todo
        /\ entry' = entry /\ lost' = lost /\ tree' = tree /\ saved' = saved
      BY DEF Open, image
  <1>2. sessions \in Nat /\ lost \in Nat
      BY InvTypes
  <1>3. ASSUME lost = 0
        PROVE  /\ \E own, body, cur : Explained(Current, own, body, cur)'
               /\ Extends(imgFat[1], Current)' /\ CopiesSame'
    <2>1. pc = "closed"
        BY <1>3 DEF TreeInv, Open
    <2>2. Current = imgFat[1] /\ Current' = imgFat[1]
        BY <1>1, <2>1 DEF Current
    <2>3. PICK own, body, cur : Explained(imgFat[1], own, body, cur)
        BY <1>3, <2>2 DEF TreeInv
    <2>4. PICK t : t = imgFat[1]
        OBVIOUS
    <2>5. Explained(t, own, body, cur)'
        BY <1>1, <2>3, <2>4, SameExplained
    <2>6. Explained(Current, own, body, cur)'
        BY <2>2, <2>4, <2>5 DEF Explained
    <2>7. Extends(imgFat[1], Current)'
        BY <1>1, <2>2 DEF Extends
    <2>8. CopiesSame'
        BY <1>1 DEF CopiesSame
    <2> QED
        BY <2>6, <2>7, <2>8
  <1> QED
      BY <1>1, <1>2, <1>3 DEF TreeInv

LEMMA TreeEnd == ASSUME Inv, TreeInv, EndOfInput PROVE TreeInv'
  <1>1. /\ pc = "prompt" /\ pc' = "flush" /\ sessions' = sessions /\ fat' = fat
        /\ imgFat' = imgFat /\ data' = data /\ wr' = wr /\ todo' = todo /\ flushed' = flushed
        /\ entry' = entry /\ lost' = lost /\ tree' = tree /\ saved' = saved
      BY DEF EndOfInput, Idle, image
  <1>2. ASSUME lost = 0
        PROVE  /\ \E own, body, cur : Explained(Current, own, body, cur)'
               /\ Extends(imgFat[1], Current)' /\ CopiesSame'
    <2>1. Current = fat /\ Current' = fat
        BY <1>1 DEF Current
    <2>2. PICK own, body, cur : Explained(fat, own, body, cur)
        BY <1>2, <2>1 DEF TreeInv
    <2>3. PICK t : t = fat
        OBVIOUS
    <2>4. Explained(t, own, body, cur)'
        BY <1>1, <2>2, <2>3, SameExplained
    <2>5. Explained(Current, own, body, cur)'
        BY <2>1, <2>3, <2>4 DEF Explained
    <2>6. Extends(imgFat[1], Current)'
        BY <1>1, <1>2, <2>1 DEF TreeInv, Extends
    <2>7. CopiesSame'
      <3>1. flushed = 0
          BY <1>1 DEF Inv, TypeInv
      <3> QED
          BY <1>1, <3>1 DEF CopiesSame
    <2> QED
        BY <2>5, <2>6, <2>7
  <1> QED
      BY <1>1, <1>2, TreeLives

\* What has just been written is kept as long as the table is.
LEMMA JustSaved ==
    ASSUME data \in Filled(Slots), NEW t, TableOK(t), NEW own, NEW body, Laid(t, tree, own, body),
           NEW d \in Dirs, NEW n \in Names, Append(d, n) \in DOMAIN tree
    PROVE  \E i \in 0..(Room(ChainOf(t, own[d][1])) - 1) :
                Place(data, own[d], i) = EntryOf(tree, own, Append(d, n), n)
  <1>1. d \in Objects(tree) /\ IsDir(tree, d)
      BY DEF Laid, Shape
  <1>2. PICK w \in Walks : w = own[d] /\ IsChain(t, w)
      BY <1>1 DEF Laid, Space
  <1>3. ChainOf(t, w[1]) = w
      BY <1>2, ChainIs
  <1>4. PICK b \in Seq(Slots) : b = body[d]
      BY <1>1 DEF Laid, Texts
  <1>5. Catalog(tree, own, b, d, {})
      BY <1>1, <1>4 DEF Laid, Texts
  <1>6. Stored(data, w, b, Len(b))
      BY <1>1, <1>2, <1>4 DEF Laid
  <1>7. PICK j \in 1..(Len(b) - 1) : b[j] = EntryOf(tree, own, Append(d, n), n)
      BY <1>5 DEF Catalog
  <1>8. PICK i \in Nat : j = i + 1 /\ i \in 0..(Len(b) - 1)
      BY <1>7
  <1>9. Place(data, w, i) = b[j] /\ Len(b) <= Room(w)
      BY <1>6, <1>8 DEF Stored
  <1>10. i \in 0..(Room(w) - 1)
      BY <1>8, <1>9, RoomIs
  <1> QED
      BY <1>2, <1>3, <1>7, <1>9, <1>10

LEMMA FileFits ==
    ASSUME NEW t, TableOK(t), NEW own, NEW body, Laid(t, tree, own, body),
           NEW p \in DOMAIN tree, tree[p] # "dir"
    PROVE  FileSize[tree[p]] <= Room(ChainOf(t, own[p][1]))
  <1>1. p \in Objects(tree) /\ ~IsDir(tree, p)
    <2>1. PICK d \in Dirs, n \in Names : p = Append(d, n)
        BY DEF Laid, Shape, Paths
    <2>2. p # <<>>
        BY <2>1, DirIsPath, NotRoot
    <2> QED
        BY <2>2 DEF Objects, IsDir
  <1>2. PICK w \in Walks : w = own[p] /\ IsChain(t, w)
      BY <1>1 DEF Laid, Space
  <1>3. ChainOf(t, w[1]) = w
      BY <1>2, ChainIs
  <1>4. PICK f \in Inputs \ Unreadable : f = tree[p]
      BY DEF Laid, Shape
  <1>5. body[p] = Contents(f)
      BY <1>1, <1>4 DEF Laid, Texts
  <1>6. Len(body[p]) = FileSize[f]
      BY <1>5, ContentsAre
  <1>7. Stored(data, w, body[p], Len(body[p]))
      BY <1>1, <1>2 DEF Laid
  <1> QED
      BY <1>2, <1>3, <1>4, <1>6, <1>7 DEF Stored

\* The same files, with another table on the image.
LEMMA SameFiles ==
    ASSUME NEW t, NEW own, NEW body, NEW cur, Explained(t, own, body, cur), SavedKept(own)',
           UNCHANGED <<data, wr, todo, entry, tree, saved>>
    PROVE  Explained(t, own, body, cur)'
  BY DEF Explained, Unlisted, AllStored, Mark, Busy, Position, Pending, PendingIn

\* The table that leads to all files keeps what is saved, or will be.
LEMMA TableKeeps ==
    ASSUME data \in Filled(Slots), NEW t, TableOK(t), NEW own, NEW body, Laid(t, tree, own, body),
           imgFat'[1] = t, UNCHANGED <<data, tree>>,
           DOMAIN saved' \subseteq DOMAIN tree, \A p \in DOMAIN saved' : tree[p] = saved'[p],
           \A d \in Dirs, n \in Names : Append(d, n) \in DOMAIN saved' => d \in Objects(saved')
    PROVE  SavedKept(own)'
  <1>1. ASSUME NEW d \in Dirs, NEW n \in Names, Append(d, n) \in DOMAIN saved'
        PROVE  EntryKept(own, d, n)'
    <2>1. Append(d, n) \in DOMAIN tree
        BY <1>1
    <2>2. \E i \in 0..(Room(ChainOf(t, own[d][1])) - 1) :
                Place(data, own[d], i) = EntryOf(tree, own, Append(d, n), n)
        BY <2>1, JustSaved
    <2> QED
        BY <2>2 DEF EntryKept
  <1>2. ASSUME NEW p \in DOMAIN saved', saved'[p] # "dir"
        PROVE  FileSize[saved'[p]] <= Room(ChainOf(imgFat'[1], own[p][1]))
    <2>1. p \in DOMAIN tree /\ tree[p] = saved'[p]
        OBVIOUS
    <2>2. FileSize[tree[p]] <= Room(ChainOf(t, own[p][1]))
        BY <1>2, <2>1, FileFits
    <2> QED
        BY <2>1, <2>2
  <1> QED
      BY <1>1, <1>2 DEF SavedKept

LEMMA TreeTable == ASSUME Inv, TreeInv, WriteTable PROVE TreeInv'
  <1>1. /\ pc = "flush" /\ flushed < NumFats
        /\ pc' = pc /\ flushed' = flushed + 1 /\ sessions' = sessions /\ fat' = fat
        /\ imgFat' = [imgFat EXCEPT ![flushed + 1] = fat]
        /\ data' = data /\ wr' = wr /\ todo' = todo
        /\ entry' = entry /\ lost' = lost /\ tree' = tree /\ saved' = saved
      BY DEF WriteTable
  <1>2. ~Busy /\ TableOK(fat) /\ data \in Filled(Slots) /\ flushed \in Nat
        /\ DOMAIN imgFat = 1..NumFats /\ 1 \in 1..NumFats
      BY <1>1, InvTypes DEF Inv, TypeInv, TypeOK
  <1>3. ASSUME lost = 0
        PROVE  /\ \E own, body, cur : Explained(Current, own, body, cur)'
               /\ Extends(imgFat[1], Current)' /\ CopiesSame'
    <2>1. Current = fat /\ Current' = fat
        BY <1>1 DEF Current
    <2>2. PICK own, body, cur : Explained(fat, own, body, cur)
        BY <1>3, <2>1 DEF TreeInv
    <2>3. PICK t : t = fat
        OBVIOUS
    <2>4. Laid(t, tree, own, body) /\ TableOK(t)
        BY <1>2, <2>2, <2>3, NothingUnderWay
    <2>5. imgFat'[1] = t
      <3>1. CASE flushed = 0
          BY <1>1, <1>2, <2>3, <3>1
      <3>2. CASE flushed # 0
        <4>1. imgFat[1] = fat
            BY <1>1, <1>2, <1>3, <3>2 DEF Inv, SafeInv
        <4> QED
            BY <1>1, <1>2, <2>3, <3>2, <4>1
      <3> QED
          BY <3>1, <3>2
    <2>6. SavedKept(own)'
      <3>1. /\ DOMAIN saved \subseteq DOMAIN tree /\ \A p \in DOMAIN saved : tree[p] = saved[p]
            /\ \A d \in Dirs, n \in Names : Append(d, n) \in DOMAIN saved => d \in Objects(saved)
          BY <2>2 DEF Explained, SavedKept
      <3> QED
          BY <1>1, <1>2, <2>4, <2>5, <3>1, TableKeeps
    <2>7. Explained(t, own, body, cur)'
        BY <1>1, <2>2, <2>3, <2>6, SameFiles
    <2>8. Explained(Current, own, body, cur)'
        BY <2>1, <2>3, <2>7 DEF Explained
    <2>9. Extends(imgFat[1], Current)'
        BY <2>1, <2>3, <2>5 DEF Extends
    <2>10. CopiesSame'
      <3>1. \A k \in 1..flushed : imgFat[k] = fat
          BY <1>1, <1>3 DEF TreeInv, CopiesSame
      <3>2. ASSUME NEW k \in 1..(flushed + 1) PROVE imgFat'[k] = fat
        <4>1. k \in 1..NumFats /\ (k \in 1..flushed \/ k = flushed + 1)
            BY <1>1, <1>2, InvTypes
        <4> QED
            BY <1>1, <1>2, <3>1, <4>1
      <3> QED
          BY <1>1, <3>2 DEF CopiesSame
    <2> QED
        BY <2>8, <2>9, <2>10
  <1> QED
      BY <1>1, <1>3, TreeLives

LEMMA TreeInfo == ASSUME Inv, TreeInv, WriteFsInfo PROVE TreeInv'
  <1>1. /\ pc = "flush" /\ flushed = NumFats
        /\ pc' = "closed" /\ wr' = NoWriter /\ saved' = tree
        /\ sessions' = sessions /\ fat' = fat /\ imgFat' = imgFat
        /\ data' = data /\ todo' = todo
        /\ entry' = entry /\ lost' = lost /\ tree' = tree
      BY DEF WriteFsInfo
  <1>2. ~Busy /\ TableOK(fat) /\ data \in Filled(Slots) /\ flushed \in Nat
        /\ todo = <<>> /\ entry = {} /\ 1 \in 1..NumFats /\ flushed > 0
      BY <1>1, InvTypes
  <1>3. ASSUME lost = 0
        PROVE  /\ \E own, body, cur : Explained(Current, own, body, cur)'
               /\ Extends(imgFat[1], Current)' /\ CopiesSame'
    <2>1. Current = fat /\ Current' = imgFat[1] /\ imgFat[1] = fat
        BY <1>1, <1>2, <1>3 DEF Current, Inv, SafeInv
    <2>2. PICK own, body, cur : Explained(fat, own, body, cur)
        BY <1>3, <2>1 DEF TreeInv
    <2>3. PICK t : t = fat
        OBVIOUS
    <2>4. Laid(t, tree, own, body) /\ TableOK(t)
        BY <1>2, <2>2, <2>3, NothingUnderWay
    <2>5. SavedKept(own)'
      <3>1. \A d \in Dirs, n \in Names : Append(d, n) \in DOMAIN tree => d \in Objects(tree)
          BY <2>4 DEF Laid, Shape
      <3>2. imgFat'[1] = t
          BY <1>1, <2>1, <2>3
      <3> QED
          BY <1>1, <1>2, <2>4, <3>1, <3>2, TableKeeps
    <2>6. Busy' <=> FALSE
        BY <1>1, <1>2 DEF Busy
    <2>7. Texts(tree, own, body, Unlisted(cur))'
        BY <1>1, <2>2 DEF Explained, Unlisted
    <2>8. AllStored(own, body, cur)'
      <3>1. \A p \in Objects(tree) : Stored(data, own[p], body[p], Len(body[p]))
          BY <2>4 DEF Laid
      <3> QED
          BY <1>1, <2>6, <3>1 DEF AllStored, Mark
    <2>9. Position(own, body, cur)' /\ Pending(own, body, cur)'
        BY <1>1, <1>2, <2>6 DEF Position, Pending
    <2>10. Explained(Current, own, body, cur)'
        BY <1>1, <2>1, <2>2, <2>5, <2>7, <2>8, <2>9 DEF Explained
    <2>11. Extends(imgFat[1], Current)'
        BY <1>1, <2>1 DEF Extends
    <2>12. CopiesSame'
        BY <1>1, <1>3, <2>1 DEF TreeInv, CopiesSame
    <2> QED
        BY <2>10, <2>11, <2>12
  <1> QED
      BY <1>1, <1>2, <1>3, TreeLives

LEMMA TreeStutter == ASSUME Inv, TreeInv, UNCHANGED vars PROVE TreeInv'
  <1>1. /\ pc' = pc /\ flushed' = flushed /\ sessions' = sessions /\ fat' = fat
        /\ imgFat' = imgFat /\ data' = data /\ wr' = wr /\ todo' = todo
        /\ entry' = entry /\ lost' = lost /\ tree' = tree /\ saved' = saved
      BY DEF vars
  <1>2. ASSUME lost = 0
        PROVE  /\ \E own, body, cur : Explained(Current, own, body, cur)'
               /\ Extends(imgFat[1], Current)' /\ CopiesSame'
    <2>1. PICK own, body, cur : Explained(Current, own, body, cur)
        BY <1>2 DEF TreeInv
    <2>2. PICK t : t = Current /\ t = Current'
        BY <1>1 DEF Current
    <2>3. Explained(t, own, body, cur)'
        BY <1>1, <2>1, <2>2, SameExplained
    <2>4. Explained(Current, own, body, cur)'
        BY <2>2, <2>3 DEF Explained
    <2>5. Extends(imgFat[1], Current)' /\ CopiesSame'
        BY <1>1, <1>2, <2>2 DEF TreeInv, Extends, CopiesSame
    <2> QED
        BY <2>4, <2>5
  <1>3. ASSUME pc' = "dead", lost' = sessions', NoOldData' PROVE SavedShown'
      BY <1>1, <1>3, SameShown, SameNoOldData DEF TreeInv
  <1> QED
      BY <1>1, <1>2, <1>3 DEF TreeInv

\* An image fresh from mkfs.fat: an empty root directory.
LEMMA InitTree == ASSUME Init PROVE TreeInv
  <1>1. Inv
      BY InitInv
  <1>2. /\ pc = "closed" /\ todo = <<>> /\ entry = {} /\ lost = 0 /\ sessions = 0
        /\ tree = [p \in {} |-> ""] /\ saved = [p \in {} |-> ""]
        /\ imgFat = [k \in 1..NumFats |->
                        [i \in 0..(FatEntries - 1) |-> IF i <= Root THEN EOC ELSE 0]]
      BY DEF Init
  <1>3. DOMAIN tree = {} /\ DOMAIN saved = {} /\ Objects(tree) = {<<>>}
      BY <1>2 DEF Objects
  <1>4. PICK r : r = <<>>
      OBVIOUS
  <1>5. PICK t : t = imgFat[1]
      OBVIOUS
  <1>6. 1 \in 1..NumFats /\ data \in Filled(Slots)
      BY <1>1, InvTypes
  <1>7. \A x \in Clusters : t[x] = IF x = Root THEN EOC ELSE 0
    <2>1. t = [i \in 0..(FatEntries - 1) |-> IF i <= Root THEN EOC ELSE 0]
        BY <1>2, <1>5, <1>6
    <2>2. \A x \in Clusters : x \in 0..(FatEntries - 1) /\ (x <= Root <=> x = Root)
        BY Sizes DEF Root
    <2> QED
        BY <2>1, <2>2
  <1>8. PICK w : w = <<Root>>
      OBVIOUS
  <1>9. w \in Walks /\ Len(w) = 1 /\ w[1] = Root
    <2>1. PICK x \in Clusters : x = Root
        BY Sizes
    <2>2. <<x>> \in Seq(Clusters) /\ <<x>> # <<>> /\ Len(<<x>>) = 1 /\ <<x>>[1] = x
        OBVIOUS
    <2> QED
        BY <1>8, <2>1, <2>2 DEF Walks
  <1>10. IsChain(t, w)
    <2>1. Root \in Clusters
        BY Sizes
    <2>2. t[w[1]] = EOC
        BY <1>7, <1>9, <2>1
    <2> QED
        BY <1>9, <2>2 DEF IsChain
  <1>11. PICK own : own = [p \in {r} |-> w]
      OBVIOUS
  <1>12. PICK b : b = <<Zero>>
      OBVIOUS
  <1>13. b \in Seq(Slots) /\ Len(b) = 1 /\ IsZero(b[1]) /\ ~Written(b[1])
    <2>1. PICK z \in Slots : z = Zero /\ IsZero(z) /\ ~Written(z)
      <3>1. "" \in Labels
          BY DEF Labels
      <3>2. Zero \in Leading({}) /\ IsZero(Zero) /\ ~Written(Zero)
          BY <3>1, DataSlot DEF Zero
      <3> QED
          BY <3>2, LeadingSlots
    <2>2. <<z>> \in Seq(Slots) /\ Len(<<z>>) = 1 /\ <<z>>[1] = z
        OBVIOUS
    <2> QED
        BY <1>12, <2>1, <2>2
  <1>14. PICK body : body = [p \in {r} |-> b]
      OBVIOUS
  <1>15. own[r] = w /\ body[r] = b /\ own \in [{r} -> Walks] /\ body \in [{r} -> Seq(Slots)]
      BY <1>9, <1>11, <1>13, <1>14
  <1>16. Shape(tree)
      BY <1>3 DEF Shape
  <1>17. Space(t, tree, own)
    <2>1. ASSUME NEW c \in Used(t) PROVE c = Root
        BY <1>7 DEF Used
    <2>2. 1 \in 1..Len(w)
        BY <1>9
    <2> QED
        BY <1>3, <1>4, <1>9, <1>10, <1>15, <2>1, <2>2 DEF Space
  <1>18. Texts(tree, own, body, {})
    <2>1. Catalog(tree, own, b, r, {})
        BY <1>3, <1>13 DEF Catalog
    <2>2. IsDir(tree, r)
        BY <1>4 DEF IsDir
    <2> QED
        BY <1>3, <1>4, <1>15, <2>1, <2>2 DEF Texts
  <1>19. Stored(data, w, b, Len(b))
    <2>1. PICK n \in Nat : n = Room(w) /\ n = SlotsPerCluster /\ n >= 3
        BY <1>9, Sizes DEF Room
    <2>2. ASSUME NEW i \in 0..(n - 1) PROVE Place(data, w, i) = Zero
      <3>1. PICK q \in 1..Len(w), j \in SlotIdx : w[q] \in Clusters /\ Place(data, w, i) = data[w[q]][j]
        <4>1. i \in 0..(Room(w) - 1)
            BY <2>1
        <4> QED
            BY <1>9, <4>1, PlaceAt
      <3>2. w[q] = Root /\ Root \in Clusters
          BY <1>9, Sizes
      <3>3. data[Root][j] = Zero
        <4>1. PICK old \in OldData :
                data = [c \in Clusters |-> [x \in 0..(SlotsPerCluster - 1) |->
                            IF c = Root THEN Zero ELSE Slot(old, "", 0, 0)]]
            BY DEF Init
        <4>2. data[Root] = [x \in 0..(SlotsPerCluster - 1) |-> Zero]
            BY <3>2, <4>1
        <4> QED
            BY <4>2 DEF SlotIdx
      <3> QED
          BY <3>1, <3>2, <3>3
    <2>3. b[1] = Zero
        BY <1>12
    <2>4. \A i \in 0..(1 - 1) : Place(data, w, i) = b[i + 1]
      <3>1. \A i \in 0..(1 - 1) : i = 0 /\ i + 1 = 1 /\ i \in 0..(n - 1)
          BY <2>1
      <3> QED
          BY <2>2, <2>3, <3>1
    <2>5. \A i \in 1..(n - 1) : i \in 0..(n - 1) /\ ~Written(Place(data, w, i))
      <3>1. ~Written(Zero)
          BY <1>13, <2>3
      <3> QED
          BY <2>2, <3>1
    <2> QED
        BY <1>13, <2>1, <2>4, <2>5 DEF Stored
  <1>20. ~Busy
      BY <1>2 DEF Busy
  <1>21. SavedKept(own)
      BY <1>3 DEF SavedKept
  <1>22. Explained(t, own, body, r)
    <2>1. Unlisted(r) = {}
        BY <1>2 DEF Unlisted
    <2>2. AllStored(own, body, r)
        BY <1>3, <1>4, <1>15, <1>19, <1>20 DEF AllStored, Mark
    <2>3. Position(own, body, r) /\ Pending(own, body, r)
        BY <1>2, <1>20 DEF Position, Pending
    <2> QED
        BY <1>16, <1>17, <1>18, <1>21, <2>1, <2>2, <2>3 DEF Explained
  <1>23. Current = t
      BY <1>2, <1>5 DEF Current
  <1>24. Extends(imgFat[1], Current)
      BY <1>5, <1>23 DEF Extends
  <1>25. CopiesSame
    <2>1. \A k \in 1..NumFats : imgFat[k] = imgFat[1]
        BY <1>2, <1>6
    <2> QED
        BY <1>2, <2>1 DEF CopiesSame
  <1>26. \E own0, body0, cur : Explained(Current, own0, body0, cur)
      BY <1>22, <1>23
  <1> QED
      BY <1>2, <1>24, <1>25, <1>26 DEF TreeInv

-----------------------------------------------------------------------------
(* What the steps of the FileWriter keep *)

\* The first cluster stays the first.
LEMMA BeginFirst ==
    ASSUME NEW v \in Walks, NEW w \in Walks, Begins(v, w)
    PROVE  w[1] = v[1]
  BY FirstOf DEF Begins

LEMMA BeginsItself == ASSUME NEW w \in Walks PROVE Begins(w, w)
  BY LastOf DEF Begins

\* The entry of an object that is still there, with a chain that begins the same.
LEMMA EntrySame ==
    ASSUME NEW T, NEW U, NEW own, NEW own2, NEW p, NEW n,
           T[p] = U[p], own[p][1] = own2[p][1]
    PROVE  EntryOf(T, own, p, n) = EntryOf(U, own2, p, n)
  BY DEF EntryOf

\* What was saved is kept when chains grow, and objects are added.
LEMMA KeptOn ==
    ASSUME Inv, [Next \/ Crash]_vars, lost = 0, pc # "dead", NEW own, NEW body, NEW cur,
           Explained(Current, own, body, cur), Extends(imgFat[1], Current),
           imgFat' = imgFat, saved' = saved, DOMAIN tree \subseteq DOMAIN tree',
           \A p \in DOMAIN tree : tree'[p] = tree[p],
           NEW own2, \A p \in Objects(tree) : own2[p] \in Walks /\ Begins(own[p], own2[p])
    PROVE  SavedKept(own2)'
  <1>1. SavedKept(own)
      BY DEF Explained
  <1>2. ASSUME NEW p \in Objects(saved)
        PROVE  /\ p \in Objects(tree) /\ own[p] \in Walks /\ own2[p] \in Walks
               /\ Begins(own[p], own2[p]) /\ own2[p][1] = own[p][1]
    <2>1. p \in Objects(tree) /\ own[p] \in Walks
        BY OldChain
    <2> QED
        BY <2>1, BeginFirst
  <1>3. ASSUME NEW d \in Dirs, NEW n \in Names, Append(d, n) \in DOMAIN saved
        PROVE  EntryKept(own2, d, n)'
    <2>1. d \in Objects(saved) /\ EntryKept(own, d, n)
        BY <1>1, <1>3 DEF SavedKept
    <2>2. PICK p \in DOMAIN saved : p = Append(d, n)
        BY <1>3
    <2>3. PICK v : v = ChainOf(imgFat[1], own[d][1])
        OBVIOUS
    <2>4. v \in Walks /\ Begins(v, own[d])
        BY <2>1, <2>3, OldChain
    <2>5. PICK w \in Walks : w = own[d]
        BY <1>2, <2>1
    <2>6. PICK w2 \in Walks : w2 = own2[d] /\ Begins(w, w2) /\ w2[1] = w[1]
        BY <1>2, <2>1, <2>5
    <2>7. PICK e : e = EntryOf(tree, own, p, n)
        OBVIOUS
    <2>8. Written(e)
        BY <2>7, EntryFacts
    <2>9. PICK i \in 0..(Room(v) - 1) : Place(data, w, i) = e
        BY <2>1, <2>2, <2>3, <2>5, <2>7 DEF EntryKept
    <2>10. /\ Room(v) <= Room(w) /\ Room(v) \in Nat /\ Room(w) \in Nat
           /\ \A D, x : x \in 0..(Room(w) - 1) => Place(D, w, x) = Place(D, w2, x)
      <3>1. Room(v) <= Room(w) /\ Room(v) \in Nat /\ Room(w) \in Nat
          BY <2>4, <2>5, BeginPlaces
      <3>2. \A D, x : x \in 0..(Room(w) - 1) => Place(D, w, x) = Place(D, w2, x)
          BY <2>6, BeginPlaces
      <3> QED
          BY <3>1, <3>2
    <2>11. i \in 0..(Room(w) - 1)
        BY <2>10
    <2>12. PICK q \in 1..Len(w), r \in SlotIdx :
                w[q] \in Clusters /\ \A D : Place(D, w, i) = D[w[q]][r]
        BY <2>11, PlaceAt
    <2>13. data'[w[q]][r] = data[w[q]][r]
      <3>1. data[w[q]][r].t \in {"dir", "file", "piece"}
          BY <2>8, <2>9, <2>12 DEF Written
      <3> QED
          BY <2>12, <3>1, KeepsWritten DEF SlotIdx
    <2>14. Place(data', w2, i) = e
        BY <2>9, <2>10, <2>11, <2>12, <2>13
    <2>15. e = EntryOf(tree', own2, p, n)
      <3>1. p \in DOMAIN tree /\ tree'[p] = tree[p]
          BY <1>1 DEF SavedKept
      <3>2. own2[p][1] = own[p][1]
          BY <1>2 DEF Objects
      <3> QED
          BY <2>7, <3>1, <3>2, EntrySame
    <2>16. v = ChainOf(imgFat'[1], own2[d][1])
        BY <2>3, <2>5, <2>6
    <2> QED
        BY <2>2, <2>6, <2>9, <2>14, <2>15, <2>16 DEF EntryKept
  <1>4. \A p \in DOMAIN saved : own2[p][1] = own[p][1]
      BY <1>2 DEF Objects
  <1>5. \A p \in DOMAIN saved : saved[p] # "dir" =>
            FileSize[saved[p]] <= Room(ChainOf(imgFat[1], own2[p][1]))
      BY <1>1, <1>4 DEF SavedKept
  <1>6. /\ DOMAIN saved \subseteq DOMAIN tree' /\ \A p \in DOMAIN saved : tree'[p] = saved[p]
        /\ \A d \in Dirs, n \in Names : Append(d, n) \in DOMAIN saved => d \in Objects(saved)
      BY <1>1 DEF SavedKept
  <1> QED
      BY <1>3, <1>5, <1>6 DEF SavedKept

LEMMA NextMultiple ==
    ASSUME NEW q \in Nat, NEW b \in Nat PROVE (q + 1) * b = q * b + b /\ q * b \in Nat
  OBVIOUS

\* Where the next slot of a chain is.
LEMMA NextPlace ==
    ASSUME NEW w \in Walks, NEW off \in SlotIdx, NEW n, n = (Len(w) - 1) * SlotsPerCluster + off
    PROVE  n \in 0..(Room(w) - 1) /\ n \in Nat /\ \A D : Place(D, w, n) = D[Last(w)][off]
  <1>1. PICK b \in Nat \ {0} : b = SlotsPerCluster
      BY Sizes
  <1>2. PICK l \in Nat \ {0} : l = Len(w) /\ Last(w) = w[l]
      BY LastOf
  <1>3. PICK q \in Nat : q = l - 1 /\ l = q + 1
      BY <1>2
  <1>4. off \in Nat /\ off < b
      BY <1>1 DEF SlotIdx
  <1>5. PICK z \in Nat : z = q * b
      OBVIOUS
  <1>6. n = z + off /\ n \in Nat
      BY <1>1, <1>2, <1>3, <1>4, <1>5
  <1>7. l * b = z + b
    <2>1. (q + 1) * b = z + b
        BY <1>5, NextMultiple
    <2> QED
        BY <1>3, <2>1
  <1>8. Room(w) = z + b
      BY <1>1, <1>2, <1>7 DEF Room
  <1>9. n \div b = q /\ n % b = off
    <2>1. n = q * b + off
        BY <1>5, <1>6, Zenon
    <2> QED
        BY <1>4, <1>6, <2>1, DivUnique
  <1>10. \A D : Place(D, w, n) = D[w[l]][off]
      BY <1>1, <1>3, <1>9 DEF Place
  <1> QED
      BY <1>2, <1>4, <1>6, <1>8, <1>10

\* The next slot of a file is written.
LEMMA WriteStored ==
    ASSUME NEW w \in Walks, \A j, k \in 1..Len(w) : w[j] = w[k] => j = k,
           NEW D, NEW E, NEW b \in Seq(Slots), NEW off \in SlotIdx,
           NEW n, n = (Len(w) - 1) * SlotsPerCluster + off, Stored(D, w, b, n), n < Len(b),
           E[Last(w)][off] = b[n + 1],
           \A x \in Clusters, j \in SlotIdx : (x # Last(w) \/ j # off) => E[x][j] = D[x][j]
    PROVE  Stored(E, w, b, n + 1)
  <1>1. n \in 0..(Room(w) - 1) /\ n \in Nat /\ \A F : Place(F, w, n) = F[Last(w)][off]
      BY NextPlace
  <1>2. PICK r \in Nat : r = Room(w)
      BY RoomIs
  <1>3. PICK m \in Nat : m = Len(b)
      BY LenProperties
  <1>4. PICK l \in Nat \ {0} : l = Len(w) /\ Last(w) = w[l]
      BY LastOf
  <1>5. ASSUME NEW i \in 0..(r - 1), i # n PROVE Place(E, w, i) = Place(D, w, i)
    <2>1. PICK q \in 1..l, j \in SlotIdx :
                /\ i = (q - 1) * SlotsPerCluster + j
                /\ w[q] \in Clusters
                /\ \A F : Place(F, w, i) = F[w[q]][j]
        BY <1>2, <1>4, PlaceAt
    <2>2. w[q] # Last(w) \/ j # off
      <3>1. SUFFICES ASSUME w[q] = Last(w), j = off PROVE FALSE
          OBVIOUS
      <3>2. q = l
          BY <1>4, <3>1
      <3>3. i = (l - 1) * SlotsPerCluster + off
          BY <2>1, <3>1, <3>2
      <3> QED
          BY <1>4, <1>5, <3>3
    <2> QED
        BY <2>1, <2>2
  <1>6. ASSUME NEW i \in 0..n PROVE Place(E, w, i) = b[i + 1]
    <2>1. CASE i = n
        BY <1>1, <2>1
    <2>2. CASE i # n
      <3>1. i \in 0..(n - 1) /\ i \in 0..(r - 1)
          BY <1>1, <1>2, <2>2
      <3> QED
          BY <1>5, <2>2, <3>1 DEF Stored
    <2> QED
        BY <2>1, <2>2
  <1>7. ASSUME NEW i \in (n + 1)..(r - 1) PROVE ~Written(Place(E, w, i))
    <2>1. i \in n..(Room(w) - 1) /\ i \in 0..(r - 1) /\ i # n
        BY <1>1, <1>2
    <2> QED
        BY <1>5, <2>1 DEF Stored
  <1>8. n + 1 \in Nat /\ n + 1 <= Len(b) /\ n + 1 <= Room(w)
      BY <1>1, <1>2, <1>3
  <1>9. (n + 1) - 1 = n
      BY <1>1
  <1> QED
      BY <1>2, <1>6, <1>7, <1>8, <1>9 DEF Stored

\* Data is written elsewhere.
LEMMA StoredSame ==
    ASSUME NEW w \in Walks, NEW D, NEW E, NEW b, NEW n, Stored(D, w, b, n),
           \A k \in 1..Len(w) : \A j \in SlotIdx : E[w[k]][j] = D[w[k]][j]
    PROVE  Stored(E, w, b, n)
  <1>1. ASSUME NEW i \in 0..(Room(w) - 1) PROVE Place(E, w, i) = Place(D, w, i)
    <2>1. PICK q \in 1..Len(w), r \in SlotIdx : \A F : Place(F, w, i) = F[w[q]][r]
        BY PlaceAt
    <2> QED
        BY <2>1
  <1>2. n \in Nat /\ n <= Room(w) /\ Room(w) \in Nat
      BY RoomIs DEF Stored
  <1>3. \A i \in 0..(n - 1) : i \in 0..(Room(w) - 1)
      BY <1>2
  <1>4. \A i \in n..(Room(w) - 1) : i \in 0..(Room(w) - 1)
      BY <1>2
  <1> QED
      BY <1>1, <1>3, <1>4 DEF Stored

-----------------------------------------------------------------------------
(* Steps of the FileWriter *)

LEMMA TreeWrite == ASSUME Inv, TreeInv, Write PROVE TreeInv'
  <1>1. /\ pc = "prompt" /\ todo # <<>> /\ wr.off < SlotsPerCluster
        /\ pc' = pc /\ flushed' = flushed /\ sessions' = sessions /\ fat' = fat
        /\ imgFat' = imgFat /\ entry' = entry /\ lost' = lost
        /\ data' = [data EXCEPT ![wr.cluster][wr.off] = Head(todo)]
        /\ wr' = Writer(wr.cluster, wr.off + 1, wr.first, wr.total + 1)
        /\ todo' = Tail(todo) /\ tree' = tree /\ saved' = saved
      BY DEF Write
  <1>2. Busy /\ data \in Filled(Slots) /\ [Next \/ Crash]_vars
      BY <1>1, InvTypes DEF Busy, Next, Proceed
  <1>3. TypeOK
      BY DEF Inv, TypeInv
  <1>4. PICK o \in SlotIdx : o = wr.off
      BY <1>1, <1>3, Sizes DEF TypeOK, SlotIdx
  <1>5. PICK n \in Nat : n = wr.total
      BY <1>3 DEF TypeOK
  <1>6. PICK m \in Nat : m + 1 = Len(todo)
    <2>1. Len(todo) \in Nat \ {0}
        BY <1>1, <1>3, RestOf DEF TypeOK
    <2> QED
        BY <2>1
  <1>7. /\ Head(todo) = todo[1] /\ Head(todo) \in Slots /\ todo' \in Seq(Slots) /\ Len(todo') = m
        /\ \A i \in 1..m : todo'[i] = todo[i + 1]
      BY <1>1, <1>3, <1>6, RestOf DEF TypeOK
  <1>8. wr'.cluster = wr.cluster /\ wr'.off = o + 1 /\ wr'.first = wr.first /\ wr'.total = n + 1
      BY <1>1, <1>4, <1>5 DEF Writer
  <1>9. ASSUME lost = 0
        PROVE  /\ \E own, body, cur : Explained(Current, own, body, cur)'
               /\ Extends(imgFat[1], Current)' /\ CopiesSame'
    <2>1. Current = fat /\ Current' = fat
        BY <1>1 DEF Current
    <2>2. PICK own, body, cur : Explained(Current, own, body, cur)
        BY <1>9 DEF TreeInv
    <2>3. Extends(imgFat[1], Current)
        BY <1>9 DEF TreeInv
    <2>4. cur \in Objects(tree) /\ own \in [Objects(tree) -> Walks]
          /\ body \in [Objects(tree) -> Seq(Slots)]
        BY <1>2, <2>2 DEF Explained, Position, Space, Texts
    <2>5. PICK w \in Walks : w = own[cur]
        BY <2>4
    <2>6. PICK b \in Seq(Slots) : b = body[cur]
        BY <2>4
    <2>22. /\ Len(b) = n + Len(todo)
           /\ \A i \in 1..Len(todo) : todo[i] = b[n + i]
        BY <1>2, <1>4, <1>5, <2>2, <2>5, <2>6 DEF Explained, Position
    <2>7. /\ wr.cluster = Last(w) /\ n = (Len(w) - 1) * SlotsPerCluster + o
          /\ entry = {} => IsDir(tree, cur)
        BY <1>2, <1>4, <1>5, <2>2, <2>5, <2>6 DEF Explained, Position
    <2>8. \A j, k \in 1..Len(w) : w[j] = w[k] => j = k
        BY <2>2, <2>4, <2>5 DEF Explained, Space, IsChain
    <2>21. Len(b) = n + 1 + m /\ \A i \in 1..(m + 1) : todo[i] = b[n + i]
        BY <1>6, <2>22
    <2>9. /\ Last(w) \in Clusters
          /\ data' = [data EXCEPT ![Last(w)][o] = todo[1]] /\ todo[1] \in Slots
        BY <1>1, <1>4, <1>7, <2>7, LastOf
    <2>10. /\ data'[Last(w)][o] = todo[1]
           /\ \A x \in Clusters, j \in SlotIdx : (x # Last(w) \/ j # o) => data'[x][j] = data[x][j]
      <3>1. PICK c \in Clusters : c = Last(w)
          BY <2>9
      <3>2. PICK h \in Slots : h = todo[1]
          BY <2>9
      <3>3. data' = [data EXCEPT ![c][o] = h]
          BY <2>9, <3>1, <3>2
      <3>4. /\ data'[c][o] = h
            /\ \A x \in Clusters, j \in SlotIdx : (x # c \/ j # o) => data'[x][j] = data[x][j]
        <4>1. data \in Filled(Slots)
            BY <1>2
        <4>2. data'[c][o] = h
            BY <3>3, <4>1 DEF Filled, SlotIdx
        <4>3. \A x \in Clusters, j \in SlotIdx : (x # c \/ j # o) => data'[x][j] = data[x][j]
            BY <3>3, <4>1, OneSlot
        <4> QED
            BY <4>2, <4>3
      <3> QED
          BY <3>1, <3>2, <3>4
    <2>11. Stored(data, w, b, n)
        BY <1>2, <1>5, <2>2, <2>4, <2>5, <2>6 DEF Explained, AllStored, Mark
    <2>12. Stored(data', w, b, n + 1)
      <3>1. n < Len(b) /\ todo[1] = b[n + 1]
          BY <2>21
      <3>2. n = (Len(w) - 1) * SlotsPerCluster + o
          BY <2>7
      <3>3. data'[Last(w)][o] = b[n + 1]
          BY <2>10, <3>1
      <3>4. \A x \in Clusters, j \in SlotIdx : (x # Last(w) \/ j # o) => data'[x][j] = data[x][j]
          BY <2>10
      <3> QED
          BY <2>8, <2>11, <3>1, <3>2, <3>3, <3>4, WriteStored, SMTT(30)
    <2>13. AllStored(own, body, cur)'
      <3> SUFFICES ASSUME NEW p \in Objects(tree)
                   PROVE  Stored(data', own[p], body[p], Mark(body, cur, p)')
          BY <1>1 DEF AllStored
      <3>1. CASE p = cur
        <4>1. CASE Busy'
            BY <1>8, <2>5, <2>6, <2>12, <3>1, <4>1 DEF Mark
        <4>2. CASE ~Busy'
          <5>1. Len(todo') = 0
              BY <4>2 DEF Busy
          <5>2. Len(b) = n + 1
              BY <1>7, <2>21, <5>1
          <5> QED
              BY <2>5, <2>6, <2>12, <3>1, <4>2, <5>2 DEF Mark
        <4> QED
            BY <4>1, <4>2
      <3>2. CASE p # cur
        <4>1. Mark(body, cur, p)' = Len(body[p]) /\ Mark(body, cur, p) = Len(body[p])
            BY <3>2 DEF Mark
        <4>2. PICK v \in Walks : v = own[p]
            BY <2>4
        <4>3. Stored(data, v, body[p], Len(body[p]))
            BY <2>2, <4>1, <4>2 DEF Explained, AllStored
        <4>4. Apart(v, w)
            BY <2>2, <2>4, <2>5, <3>2, <4>2 DEF Explained, Space
        <4>5. \A k \in 1..Len(v) : v[k] \in Clusters /\ v[k] # Last(w)
            BY <4>4, LastOf, FirstOf DEF Apart
        <4>6. \A k \in 1..Len(v) : \A j \in SlotIdx : data'[v[k]][j] = data[v[k]][j]
            BY <2>10, <4>5
        <4>7. Stored(data', v, body[p], Len(body[p]))
            BY <4>3, <4>6, StoredSame
        <4> QED
            BY <4>1, <4>2, <4>7
      <3> QED
          BY <3>1, <3>2
    <2>14. Position(own, body, cur)'
      <3>1. n + 1 = (Len(w) - 1) * SlotsPerCluster + (o + 1)
        <4>1. PICK z \in Int : z = (Len(w) - 1) * SlotsPerCluster
          <5>1. PICK a \in Int : a = Len(w) - 1
              BY LastOf
          <5>2. PICK s \in Int : s = SlotsPerCluster
              BY Sizes
          <5>3. a * s \in Int
              OBVIOUS
          <5> QED
              BY <5>1, <5>2, <5>3
        <4> QED
            BY <2>7, <4>1 DEF SlotIdx
      <3>2. Len(b) = (n + 1) + Len(todo')
          BY <1>7, <2>21
      <3>3. \A i \in 1..m : todo'[i] = b[(n + 1) + i]
        <4> TAKE i \in 1..m
        <4>1. i + 1 \in 1..Len(todo) /\ n + (i + 1) = (n + 1) + i
            BY <1>6
        <4>2. todo[i + 1] = b[n + (i + 1)]
            BY <1>6, <2>21, <4>1
        <4> QED
            BY <1>7, <4>1, <4>2
      <3> QED
          BY <1>1, <1>7, <1>8, <2>4, <2>5, <2>6, <2>7, <3>1, <3>2, <3>3 DEF Position
    <2>15. Pending(own, body, cur)'
        BY <1>1, <1>8, <2>2 DEF Explained, Pending, PendingIn
    <2>16. SavedKept(own)'
      <3>1. \A p \in Objects(tree) : own[p] \in Walks /\ Begins(own[p], own[p])
          BY <2>4, BeginsItself
      <3> QED
          BY <1>1, <1>2, <1>9, <2>2, <2>3, <3>1, KeptOn
    <2>17. Texts(tree, own, body, Unlisted(cur))'
        BY <1>1, <2>2 DEF Explained, Unlisted
    <2>18. Explained(Current, own, body, cur)'
        BY <1>1, <2>1, <2>2, <2>13, <2>14, <2>15, <2>16, <2>17 DEF Explained
    <2>19. Extends(imgFat[1], Current)'
        BY <1>1, <2>1, <2>3 DEF Extends
    <2>20. CopiesSame'
        BY <1>1 DEF CopiesSame
    <2> QED
        BY <2>18, <2>19, <2>20
  <1> QED
      BY <1>1, <1>9, TreeLives

\* The clusters of a chain are in use.
LEMMA ChainInUse ==
    ASSUME NEW t, TableOK(t), NEW w \in Walks, IsChain(t, w), NEW k \in 1..Len(w)
    PROVE  w[k] \in Used(t)
  <1>1. PICK n \in Nat : n = Len(w)
      BY FirstOf
  <1>2. w[k] \in Clusters
      BY FirstOf
  <1>3. CASE k = n
      BY <1>1, <1>2, <1>3, Sizes DEF IsChain, Used, EOC
  <1>4. CASE k # n
    <2>1. k \in 1..(n - 1) /\ k + 1 \in 1..Len(w)
        BY <1>1, <1>4
    <2>2. w[k + 1] \in Clusters /\ t[w[k]] = w[k + 1]
        BY <1>1, <2>1, FirstOf DEF IsChain
    <2> QED
        BY <1>2, <2>2, Sizes DEF Used
  <1> QED
      BY <1>3, <1>4

\* A chain whose links are not changed is still one.
LEMMA SameChain ==
    ASSUME NEW t, NEW v, NEW w \in Walks, IsChain(t, w), \A k \in 1..Len(w) : v[w[k]] = t[w[k]]
    PROVE  IsChain(v, w)
  <1>1. PICK n \in Nat \ {0} : n = Len(w)
      BY LastOf
  <1>2. \A k \in 1..(n - 1) : k \in 1..n
      BY <1>1
  <1>3. n \in 1..n
      BY <1>1
  <1> QED
      BY <1>1, <1>2, <1>3 DEF IsChain

\* A chain with one more cluster.
LEMMA Longer ==
    ASSUME NEW w \in Walks, NEW c \in Clusters
    PROVE  \E x \in Walks :
                /\ x = Append(w, c) /\ Begins(w, x) /\ Len(x) = Len(w) + 1 /\ Last(x) = c
                /\ Len(w) \in Nat \ {0} /\ x[Len(w) + 1] = c
                /\ \A k \in 1..Len(w) : x[k] = w[k]
  <1>1. w \in Seq(Clusters)
      BY DEF Walks
  <1>7. PICK x : x = Append(w, c)
      OBVIOUS
  <1>2. /\ x \in Seq(Clusters) /\ x # <<>> /\ Len(x) = Len(w) + 1 /\ x[Len(w) + 1] = c
        /\ \A k \in 1..Len(w) : x[k] = w[k]
      BY <1>1, <1>7, AppendProperties
  <1>3. PICK n \in Nat \ {0} : n = Len(w)
      BY LastOf
  <1>4. x \in Walks
      BY <1>2 DEF Walks
  <1>5. Last(x) = c
      BY <1>2, <1>4, LastOf
  <1>6. Begins(w, x)
      BY <1>2, <1>3 DEF Begins
  <1> QED
      BY <1>2, <1>3, <1>4, <1>5, <1>6, <1>7

LEMMA GrowChain ==
    ASSUME NEW t, TableOK(t), NEW w \in Walks, IsChain(t, w), NEW c \in Clusters, t[c] = 0,
           NEW v, v = AllocateAfter(t, Last(w), c), NEW x, x = Append(w, c)
    PROVE  IsChain(v, x) /\ \A y \in Clusters : y # c /\ y # Last(w) => v[y] = t[y]
  <1>1. PICK l \in Clusters : l = Last(w)
      BY LastOf
  <1>2. PICK n \in Nat \ {0} : n = Len(w) /\ w[n] = l
      BY <1>1, LastOf
  <1>3. c \notin Used(t)
      BY DEF Used
  <1>4. \A k \in 1..n : w[k] \in Clusters /\ w[k] # c
      BY <1>2, <1>3, ChainInUse, FirstOf
  <1>5. l # c
      BY <1>2, <1>4
  <1>6. v[l] = c /\ v[c] = EOC /\ \A y \in Clusters : y # c /\ y # l => v[y] = t[y]
    <2>1. /\ t \in [0..(FatEntries - 1) -> Links] /\ l \in 0..(FatEntries - 1)
          /\ c \in 0..(FatEntries - 1) /\ Clusters \subseteq 0..(FatEntries - 1)
        BY Sizes DEF TableOK
    <2>2. v = [t EXCEPT ![c] = EOC, ![l] = c]
        BY <1>1 DEF AllocateAfter
    <2> QED
        BY <1>5, <2>1, <2>2
  <1>7. Len(x) = n + 1 /\ x[n + 1] = c /\ \A k \in 1..n : x[k] = w[k]
      BY <1>2, Longer
  <1>8. \A k \in 1..(n - 1) : t[w[k]] = w[k + 1] /\ w[k] # l
    <2> TAKE k \in 1..(n - 1)
    <2>1. k \in 1..n /\ n \in 1..n /\ k # n
        BY <1>2
    <2> QED
        BY <1>2, <2>1 DEF IsChain
  <1>9. ASSUME NEW k \in 1..n PROVE v[x[k]] = x[k + 1]
    <2>1. CASE k = n
        BY <1>2, <1>6, <1>7, <2>1
    <2>2. CASE k # n
      <3>1. k \in 1..(n - 1) /\ k + 1 \in 1..n
          BY <2>2
      <3> QED
          BY <1>4, <1>6, <1>7, <1>8, <3>1
    <2> QED
        BY <2>1, <2>2
  <1>10. ASSUME NEW j \in 1..(n + 1), NEW k \in 1..(n + 1), x[j] = x[k] PROVE j = k
    <2>1. \A i \in 1..(n + 1) : i = n + 1 \/ i \in 1..n
        OBVIOUS
    <2>2. \A i \in 1..n : x[i] # c
        BY <1>4, <1>7
    <2>3. CASE j \in 1..n /\ k \in 1..n
        BY <1>2, <1>7, <1>10, <2>3 DEF IsChain
    <2> QED
        BY <1>7, <1>10, <2>1, <2>2, <2>3
  <1>11. (n + 1) - 1 = n
      OBVIOUS
  <1> QED
      BY <1>1, <1>6, <1>7, <1>9, <1>10, <1>11 DEF IsChain

\* The new cluster is empty.
LEMMA StoredMore ==
    ASSUME NEW w \in Walks, NEW c \in Clusters, NEW x, x = Append(w, c), NEW b, NEW n,
           Stored(data, w, b, n), \A j \in SlotIdx : ~Written(data[c][j])
    PROVE  Stored(data, x, b, n)
  <1>1. /\ x \in Walks /\ Begins(w, x) /\ Len(x) = Len(w) + 1
        /\ Len(w) \in Nat \ {0} /\ x[Len(w) + 1] = c
      BY Longer, ZenonT(40)
  <1>2. /\ Room(w) <= Room(x) /\ Room(w) \in Nat /\ Room(x) \in Nat
        /\ \A D, i : i \in 0..(Room(w) - 1) => Place(D, w, i) = Place(D, x, i)
      BY <1>1, BeginPlaces
  <1>3. PICK r \in Nat : r = Room(w)
      BY <1>2
  <1>4. PICK l \in Nat \ {0} : l = Len(w)
      BY <1>1
  <1>5. ASSUME NEW i \in r..(Room(x) - 1) PROVE ~Written(Place(data, x, i))
    <2>1. i \in 0..(Room(x) - 1)
        BY <1>2
    <2>2. PICK q \in 1..Len(x), j \in SlotIdx :
                i = (q - 1) * SlotsPerCluster + j /\ \A D : Place(D, x, i) = D[x[q]][j]
      <3>1. x \in Walks
          BY <1>1
      <3> QED
          BY <2>1, <3>1, PlaceAt, ZenonT(40)
    <2>3. q = l + 1
      <3>1. SUFFICES ASSUME q \in 1..l PROVE FALSE
          BY <1>1, <1>4
      <3>2. PICK a \in Nat : a = q - 1 /\ q = a + 1
          OBVIOUS
      <3>3. PICK s \in Nat : s = SlotsPerCluster
          BY Sizes
      <3>4. PICK d \in Nat : l = (a + 1) + d
          BY <3>1, <3>2
      <3>5. i = a * s + j /\ j < s
          BY <2>2, <3>2, <3>3 DEF SlotIdx
      <3>6. r = l * s
          BY <1>3, <1>4, <3>3 DEF Room
      <3>7. l * s = a * s + s + d * s /\ d * s \in Nat /\ a * s \in Nat
          BY <3>4
      <3>8. i >= r
          BY <1>3
      <3> QED
          BY <3>5, <3>6, <3>7, <3>8 DEF SlotIdx
    <2>4. Place(data, x, i) = data[c][j]
        BY <1>1, <1>4, <2>2, <2>3
    <2> QED
        BY <2>4
  <1>6. n \in Nat /\ n <= r /\ n <= Len(b)
      BY <1>3 DEF Stored
  <1>7. n <= Room(x)
      BY <1>2, <1>3, <1>6
  <1>8. ASSUME NEW i \in 0..(n - 1) PROVE Place(data, x, i) = b[i + 1]
    <2>1. i \in 0..(Room(w) - 1)
        BY <1>3, <1>6
    <2> QED
        BY <1>2, <2>1 DEF Stored
  <1>9. ASSUME NEW i \in n..(Room(x) - 1) PROVE ~Written(Place(data, x, i))
    <2>1. CASE i < r
      <3>1. i \in 0..(Room(w) - 1) /\ i \in n..(Room(w) - 1)
          BY <1>3, <1>6, <2>1
      <3> QED
          BY <1>2, <3>1 DEF Stored
    <2>2. CASE ~(i < r)
      <3>1. i \in r..(Room(x) - 1)
          BY <1>2, <1>6, <2>2
      <3> QED
          BY <1>5, <3>1
    <2> QED
        BY <2>1, <2>2
  <1> QED
      BY <1>6, <1>7, <1>8, <1>9 DEF Stored

\* A directory whose children are the same.
LEMMA CatalogSame ==
    ASSUME NEW T, NEW own, NEW b, NEW p, NEW P, Catalog(T, own, b, p, P), NEW U, NEW own2, NEW Q,
           \A n \in Names : Append(p, n) \in DOMAIN T \ P <=> Append(p, n) \in DOMAIN U \ Q,
           \A n \in Names : Append(p, n) \in DOMAIN T \ P =>
                /\ T[Append(p, n)] = U[Append(p, n)]
                /\ own[Append(p, n)][1] = own2[Append(p, n)][1]
    PROVE  Catalog(U, own2, b, p, Q)
  <1>1. ASSUME NEW n \in Names, Append(p, n) \in DOMAIN T \ P
        PROVE  EntryOf(T, own, Append(p, n), n) = EntryOf(U, own2, Append(p, n), n)
      BY <1>1, EntrySame
  <1>2. Len(b) >= 1 /\ IsZero(b[Len(b)])
      BY DEF Catalog
  <1>3. ASSUME NEW i \in 1..(Len(b) - 1), ~Dot(b[i])
        PROVE  \E n \in Names : /\ Append(p, n) \in DOMAIN U \ Q
                                /\ b[i] = EntryOf(U, own2, Append(p, n), n)
    <2>1. PICK n \in Names : Append(p, n) \in DOMAIN T \ P /\ b[i] = EntryOf(T, own, Append(p, n), n)
        BY <1>3 DEF Catalog
    <2> QED
        BY <1>1, <2>1
  <1>4. ASSUME NEW n \in Names, Append(p, n) \in DOMAIN U \ Q
        PROVE  \E i \in 1..(Len(b) - 1) : b[i] = EntryOf(U, own2, Append(p, n), n)
    <2>1. Append(p, n) \in DOMAIN T \ P
        BY <1>4
    <2>2. PICK i \in 1..(Len(b) - 1) : b[i] = EntryOf(T, own, Append(p, n), n)
        BY <2>1 DEF Catalog
    <2> QED
        BY <1>1, <2>1, <2>2
  <1> QED
      BY <1>2, <1>3, <1>4 DEF Catalog

\* One of the objects gets the cluster that was free.
LEMMA SpaceExtend ==
    ASSUME NEW t, TableOK(t), NEW T, NEW own, Space(t, T, own), NEW cur \in Objects(T),
           NEW c \in Clusters, t[c] = 0, NEW v, TableOK(v), Used(v) = Used(t) \cup {c},
           v = AllocateAfter(t, Last(own[cur]), c)
    PROVE  \E own2 :
              /\ Space(v, T, own2)
              /\ \A p \in Objects(T) : own2[p] \in Walks /\ Begins(own[p], own2[p])
              /\ own2[cur] = Append(own[cur], c)
              /\ \A p \in Objects(T) : p # cur => own2[p] = own[p]
  <1>1. own \in [Objects(T) -> Walks]
      BY DEF Space
  <1>2. PICK w \in Walks : w = own[cur] /\ IsChain(t, w)
      BY <1>1 DEF Space
  <1>4. PICK x \in Walks :
            /\ x = Append(w, c) /\ Begins(w, x) /\ Len(x) = Len(w) + 1
            /\ Len(w) \in Nat \ {0} /\ x[Len(w) + 1] = c
            /\ \A k \in 1..Len(w) : x[k] = w[k]
      BY Longer
  <1>3. x = Append(w, c)
      BY <1>4
  <1>17. PICK own2 : own2 = [own EXCEPT ![cur] = x]
      OBVIOUS
  <1>5. v = AllocateAfter(t, Last(w), c)
      BY <1>2
  <1>6. IsChain(v, x) /\ \A y \in Clusters : y # c /\ y # Last(w) => v[y] = t[y]
    <2>1. IsChain(v, x)
        BY <1>2, <1>3, <1>5, GrowChain
    <2>2. \A y \in Clusters : y # c /\ y # Last(w) => v[y] = t[y]
        BY <1>2, <1>3, <1>5, GrowChain
    <2> QED
        BY <2>1, <2>2
  <1>7. own2[cur] = x /\ \A p \in Objects(T) : p # cur => own2[p] = own[p]
      BY <1>1, <1>17
  <1>8. own2 \in [Objects(T) -> Walks]
      BY <1>1, <1>4, <1>17
  <1>9. \A p \in Objects(T) : own2[p] \in Walks /\ Begins(own[p], own2[p])
    <2> TAKE p \in Objects(T)
    <2>1. own[p] \in Walks
        BY <1>1
    <2>2. CASE p = cur
        BY <1>2, <1>4, <1>7, <2>2
    <2>3. CASE p # cur
        BY <1>7, <2>1, <2>3, BeginsItself
    <2> QED
        BY <2>2, <2>3
  <1>10. own2[<<>>][1] = Root
    <2>1. <<>> \in Objects(T)
        BY DEF Objects
    <2>2. own2[<<>>][1] = own[<<>>][1]
        BY <1>1, <1>9, <2>1, BeginFirst
    <2> QED
        BY <2>2 DEF Space
  <1>11. \A p \in Objects(T) : \A k \in 1..Len(own[p]) : own[p][k] # c /\ own[p][k] \in Clusters
    <2> TAKE p \in Objects(T)
    <2>1. PICK y \in Walks : y = own[p] /\ IsChain(t, y)
        BY <1>1 DEF Space
    <2>2. \A k \in 1..Len(y) : y[k] \in Used(t)
        BY <2>1, ChainInUse
    <2> QED
        BY <2>1, <2>2 DEF Used
  <1>12. ASSUME NEW p \in Objects(T), p # cur
         PROVE  Apart(own[p], x) /\ Apart(x, own[p]) /\ IsChain(v, own[p])
    <2>1. PICK y \in Walks : y = own[p] /\ IsChain(t, y)
        BY <1>1 DEF Space
    <2>2. Apart(y, w)
        BY <1>2, <1>12, <2>1 DEF Space
    <2>3. \A j \in 1..Len(y) : y[j] # c /\ y[j] \in Clusters
        BY <1>11, <2>1
    <2>4. \A k \in 1..Len(x) : k \in 1..Len(w) \/ x[k] = c
        BY <1>4
    <2>5. Apart(y, x) /\ Apart(x, y)
        BY <1>4, <2>2, <2>3, <2>4 DEF Apart
    <2>6. \A j \in 1..Len(y) : y[j] # Last(w)
        BY <2>2, LastOf, FirstOf DEF Apart
    <2>7. IsChain(v, y)
        BY <1>6, <2>1, <2>3, <2>6, SameChain
    <2> QED
        BY <2>1, <2>5, <2>7
  <1>13. \A p \in Objects(T) : IsChain(v, own2[p])
      BY <1>6, <1>7, <1>12
  <1>14. ASSUME NEW p \in Objects(T), NEW q \in Objects(T), p # q PROVE Apart(own2[p], own2[q])
    <2>1. CASE p = cur
        BY <1>7, <1>12, <1>14, <2>1
    <2>2. CASE q = cur
        BY <1>7, <1>12, <1>14, <2>2
    <2>3. CASE p # cur /\ q # cur
      <3>1. Apart(own[p], own[q])
          BY <1>14 DEF Space
      <3> QED
          BY <1>7, <2>3, <3>1
    <2> QED
        BY <2>1, <2>2, <2>3
  <1>15. ASSUME NEW y \in Used(v)
         PROVE  \E p \in Objects(T) : \E k \in 1..Len(own2[p]) : own2[p][k] = y
    <2>1. CASE y = c
      <3>1. Len(w) + 1 \in 1..Len(x)
          BY <1>4
      <3> QED
          BY <1>4, <1>7, <2>1, <3>1
    <2>2. CASE y # c
      <3>1. y \in Used(t)
          BY <2>2
      <3>5. PICK p \in Objects(T) : \E k \in 1..Len(own[p]) : own[p][k] = y
          BY <3>1 DEF Space
      <3>2. PICK k \in 1..Len(own[p]) : own[p][k] = y
          BY <3>5
      <3>3. Begins(own[p], own2[p]) /\ Len(own[p]) \in Nat /\ Len(own2[p]) \in Nat
          BY <1>1, <1>9, LastOf
      <3>4. k \in 1..Len(own2[p]) /\ own2[p][k] = y
          BY <3>2, <3>3 DEF Begins
      <3> QED
          BY <3>4
    <2> QED
        BY <2>1, <2>2
  <1>16. Space(v, T, own2)
      BY <1>8, <1>10, <1>13, <1>14, <1>15 DEF Space
  <1> QED
      BY <1>2, <1>3, <1>7, <1>9, <1>16

LEMMA ExtendsMore ==
    ASSUME NEW t, TableOK(t), NEW u, Extends(t, u), NEW v, Extends(u, v)
    PROVE  Extends(t, v)
  BY DEF Extends

LEMMA TreeExtend == ASSUME Inv, TreeInv, Extend PROVE TreeInv'
  <1>1. PICK c : c = FindFreeCluster(fat)
      OBVIOUS
  <1>2. /\ pc = "prompt" /\ todo # <<>> /\ wr.off = SlotsPerCluster /\ c # NoCluster
        /\ pc' = pc /\ flushed' = flushed /\ sessions' = sessions
        /\ imgFat' = imgFat /\ data' = data /\ entry' = entry /\ lost' = lost
        /\ fat' = AllocateAfter(fat, wr.cluster, c)
        /\ wr' = Writer(c, 0, wr.first, wr.total)
        /\ todo' = todo /\ tree' = tree /\ saved' = saved
      BY <1>1 DEF Extend, image
  <1>3. Busy /\ TableOK(fat) /\ TableOK(imgFat[1]) /\ data \in Filled(Slots)
      BY <1>2, InvTypes DEF Busy
  <1>4. c \in Clusters /\ fat[c] = 0
      BY <1>1, <1>2, <1>3, FreeCluster
  <1>5. wr'.cluster = c /\ wr'.off = 0 /\ wr'.first = wr.first /\ wr'.total = wr.total
      BY <1>2 DEF Writer
  <1>6. [Next \/ Crash]_vars
      BY DEF Next, Proceed
  <1>7. Busy'
      BY <1>2, <1>3 DEF Busy
  <1>8. ASSUME lost = 0
        PROVE  /\ \E own, body, cur : Explained(Current, own, body, cur)'
               /\ Extends(imgFat[1], Current)' /\ CopiesSame'
    <2>1. Current = fat /\ Current' = fat'
        BY <1>2 DEF Current
    <2>2. PICK own, body, cur : Explained(Current, own, body, cur)
        BY <1>8 DEF TreeInv
    <2>3. Extends(imgFat[1], Current)
        BY <1>8 DEF TreeInv
    <2>4. Space(fat, tree, own)
        BY <2>1, <2>2 DEF Explained
    <2>5. cur \in Objects(tree) /\ wr.cluster = Last(own[cur])
        BY <1>3, <2>2 DEF Explained, Position
    <2>6. own \in [Objects(tree) -> Walks]
        BY <2>4 DEF Space
    <2>7. PICK w \in Walks : w = own[cur]
        BY <2>5, <2>6
    <2>8. PICK v : v = fat'
        OBVIOUS
    <2>9. v = AllocateAfter(fat, Last(w), c)
        BY <1>2, <2>5, <2>7, <2>8
    <2>10. fat[Last(w)] = EOC /\ Last(w) \in Clusters
        BY <2>4, <2>5, <2>7, LastOf DEF Space, IsChain
    <2>11. TableOK(v) /\ Extends(fat, v) /\ Used(v) = Used(fat) \cup {c}
        BY <1>3, <1>4, <2>9, <2>10, GrowTable
    <2>13. PICK own2 :
           /\ Space(v, tree, own2)
           /\ \A p \in Objects(tree) : own2[p] \in Walks /\ Begins(own[p], own2[p])
           /\ own2[cur] = Append(own[cur], c) /\ \A p \in Objects(tree) : p # cur => own2[p] = own[p]
      <3>1. v = AllocateAfter(fat, Last(own[cur]), c)
          BY <2>7, <2>9
      <3> QED
          BY <1>3, <1>4, <2>4, <2>5, <2>11, <3>1, SpaceExtend
    <2>14. PICK x \in Walks :
                /\ x = Append(w, c) /\ Len(x) = Len(w) + 1 /\ Last(x) = c
                /\ Len(w) \in Nat \ {0}
        BY <1>4, Longer
    <2>15. x = own2[cur] /\ Len(x) = Len(w) + 1 /\ Last(x) = c /\ Len(w) \in Nat \ {0}
        BY <2>7, <2>13, <2>14
    <2>16. \A p \in Objects(tree) : own2[p][1] = own[p][1]
        BY <2>6, <2>13, BeginFirst
    <2>17. Texts(tree, own2, body, Unlisted(cur))
      <3>1. ASSUME NEW p \in Objects(tree), IsDir(tree, p)
            PROVE  Catalog(tree, own2, body[p], p, Unlisted(cur))
        <4>1. PICK P : P = Unlisted(cur)
            OBVIOUS
        <4>2. Catalog(tree, own, body[p], p, P)
            BY <2>2, <3>1, <4>1 DEF Explained, Texts
        <4>3. \A n \in Names : Append(p, n) \in DOMAIN tree \ P =>
                own[Append(p, n)][1] = own2[Append(p, n)][1]
            BY <2>16 DEF Objects
        <4>4. Catalog(tree, own2, body[p], p, P)
            BY <4>2, <4>3, CatalogSame
        <4> QED
            BY <4>1, <4>4
      <3> QED
          BY <2>2, <3>1 DEF Explained, Texts
    <2>18. Texts(tree, own2, body, Unlisted(cur))'
        BY <1>2, <2>17 DEF Unlisted
    <2>19. AllStored(own2, body, cur)'
      <3> SUFFICES ASSUME NEW p \in Objects(tree)
                   PROVE  Stored(data, own2[p], body[p], Mark(body, cur, p))
          BY <1>2, <1>3, <1>5, <1>7 DEF AllStored, Mark
      <3>1. PICK n : n = Mark(body, cur, p)
          OBVIOUS
      <3>2. Stored(data, own[p], body[p], n)
          BY <2>2, <3>1 DEF Explained, AllStored
      <3>3. CASE p = cur
        <4>1. \A j \in SlotIdx : ~Written(data[c][j])
            BY <1>4, <1>8, <2>1 DEF Inv, SafeInv, TableInv, FreeIsFresh
        <4>2. Stored(data, w, body[p], n)
            BY <2>7, <3>2, <3>3
        <4>3. Stored(data, x, body[p], n)
            BY <1>4, <2>14, <4>1, <4>2, StoredMore
        <4> QED
            BY <2>15, <3>1, <3>3, <4>3
      <3>4. CASE p # cur
          BY <2>13, <3>1, <3>2, <3>4
      <3> QED
          BY <3>3, <3>4
    <2>20. Position(own2, body, cur)'
      <3>1. wr.total = (Len(w) - 1) * SlotsPerCluster + SlotsPerCluster
          BY <1>2, <1>3, <2>2, <2>7 DEF Explained, Position
      <3>2. wr.total = (Len(x) - 1) * SlotsPerCluster + 0
        <4>1. PICK l \in Nat : Len(w) = l + 1
            BY <2>15
        <4>2. PICK s \in Nat : s = SlotsPerCluster
            BY Sizes
        <4>3. (l + 1) * s = l * s + s /\ l * s \in Nat
            BY NextMultiple
        <4>4. Len(w) - 1 = l /\ Len(x) - 1 = l + 1
            BY <2>15, <4>1
        <4>5. wr.total = l * s + s
            BY <3>1, <4>2, <4>4, Zenon
        <4>6. PICK z \in Nat : z = (l + 1) * s
            BY <4>3
        <4>7. wr.total = z /\ z + 0 = z
            BY <4>3, <4>5, <4>6
        <4> QED
            BY <4>2, <4>4, <4>6, <4>7, Zenon
      <3>3. /\ Len(body[cur]) = wr.total + Len(todo)
            /\ \A i \in 1..Len(todo) : todo[i] = body[cur][wr.total + i]
            /\ entry = {} => IsDir(tree, cur)
          BY <1>3, <2>2 DEF Explained, Position
      <3> QED
          BY <1>2, <1>5, <2>5, <2>15, <3>2, <3>3 DEF Position
    <2>21. Pending(own2, body, cur)'
      <3> SUFFICES ASSUME NEW e \in entry
                   PROVE  /\ cur \in DOMAIN tree /\ cur \notin DOMAIN saved
                          /\ wr.first = own2[cur][1] /\ e.isDir = (tree[cur] = "dir")
                          /\ \E d \in Dirs : PendingIn(own2, body, cur, d, e)
          BY <1>2, <1>5 DEF Pending, PendingIn
      <3>1. /\ cur \in DOMAIN tree /\ cur \notin DOMAIN saved
            /\ wr.first = own[cur][1] /\ e.isDir = (tree[cur] = "dir")
          BY <2>2 DEF Explained, Pending
      <3>2. PICK d \in Dirs : PendingIn(own, body, cur, d, e)
          BY <2>2 DEF Explained, Pending
      <3>3. PendingIn(own2, body, cur, d, e)
          BY <2>16, <3>2 DEF PendingIn
      <3> QED
          BY <2>5, <2>16, <3>1, <3>3
    <2>22. SavedKept(own2)'
      <3>1. DOMAIN tree \subseteq DOMAIN tree' /\ \A p \in DOMAIN tree : tree'[p] = tree[p]
          BY <1>2
      <3> QED
          BY <1>2, <1>6, <1>8, <2>2, <2>3, <2>13, <3>1, KeptOn
    <2>23. Shape(tree)' /\ Space(Current, tree, own2)'
        BY <1>2, <2>1, <2>2, <2>8, <2>13 DEF Explained
    <2>24. Explained(Current, own2, body, cur)'
        BY <2>18, <2>19, <2>20, <2>21, <2>22, <2>23 DEF Explained
    <2>25. Extends(imgFat[1], Current)'
      <3>1. PICK t : t = imgFat[1]
          OBVIOUS
      <3>2. Extends(t, v)
          BY <1>3, <2>1, <2>3, <2>11, <3>1, ExtendsMore
      <3> QED
          BY <1>2, <2>1, <2>8, <3>1, <3>2 DEF Extends
    <2>26. CopiesSame'
        BY <1>2 DEF CopiesSame
    <2> QED
        BY <2>24, <2>25, <2>26
  <1> QED
      BY <1>2, <1>8, TreeLives

\* The objects of a tree are named by paths.
LEMMA ObjectIsPath ==
    ASSUME NEW T, Shape(T), NEW p \in Objects(T) PROVE p \in Seq(Names)
  <1>1. CASE p = <<>>
      BY <1>1, EmptySeq
  <1>2. CASE p # <<>>
    <2>1. PICK d \in Dirs, n \in Names : p = Append(d, n)
        BY <1>2 DEF Shape, Objects, Paths
    <2> QED
        BY <2>1, DirIsPath, NotRoot
  <1> QED
      BY <1>1, <1>2

\* An entry takes the place of the zero at the end of a list.
Added(b, m, s, z, x) ==
    /\ Len(x) = m + 1 /\ x[m] = s /\ x[m + 1] = z
    /\ \A i \in 1..(m - 1) : x[i] = b[i]

LEMMA AddEntry ==
    ASSUME NEW b \in Seq(Slots), NEW m \in Nat, m = Len(b), m >= 1, NEW s \in Slots, NEW z \in Slots
    PROVE  \E x \in Seq(Slots) : Added(b, m, s, z, x)
  <1>1. PICK x : x = [i \in 1..(m + 1) |-> IF i = m + 1 THEN z ELSE IF i = m THEN s ELSE b[i]]
      OBVIOUS
  <1>2. \A i \in 1..m : b[i] \in Slots
      BY ElementOfSeq
  <1>3. x \in [1..(m + 1) -> Slots]
      BY <1>1, <1>2
  <1>4. x \in Seq(Slots) /\ Len(x) = m + 1
      BY <1>3, SeqDef
  <1>5. x[m] = s /\ x[m + 1] = z /\ \A i \in 1..(m - 1) : x[i] = b[i]
      BY <1>1
  <1> QED
      BY <1>4, <1>5 DEF Added

LEMMA CatalogAdd ==
    ASSUME NEW T, NEW own, NEW b \in Seq(Slots), NEW d \in Seq(Names), NEW n \in Names, NEW cur,
           cur = Append(d, n), cur \in DOMAIN T, Catalog(T, own, b, d, {cur}),
           NEW x \in Seq(Slots), NEW m \in Nat, m = Len(b), Len(x) = m + 1,
           x[m] = EntryOf(T, own, cur, n), IsZero(x[m + 1]),
           \A i \in 1..(m - 1) : x[i] = b[i]
    PROVE  Catalog(T, own, x, d, {})
  <1>1. m >= 1
      BY DEF Catalog
  <1>2. ASSUME NEW i \in 1..m
        PROVE  \/ Dot(x[i])
               \/ \E k \in Names : /\ Append(d, k) \in DOMAIN T \ {}
                                   /\ x[i] = EntryOf(T, own, Append(d, k), k)
    <2>1. CASE i = m
        BY <2>1
    <2>2. CASE i # m
      <3>1. i \in 1..(m - 1) /\ i \in 1..(Len(b) - 1)
          BY <2>2
      <3>2. \/ Dot(b[i])
            \/ \E k \in Names : /\ Append(d, k) \in DOMAIN T \ {cur}
                                /\ b[i] = EntryOf(T, own, Append(d, k), k)
          BY <3>1 DEF Catalog
      <3> QED
          BY <3>1, <3>2
    <2> QED
        BY <2>1, <2>2
  <1>3. ASSUME NEW k \in Names, Append(d, k) \in DOMAIN T \ {}
        PROVE  \E i \in 1..m : x[i] = EntryOf(T, own, Append(d, k), k)
    <2>1. CASE Append(d, k) = cur
      <3>1. k = n /\ m \in 1..m
          BY <1>1, <2>1, AppendOneToOne
      <3> QED
          BY <2>1, <3>1
    <2>2. CASE Append(d, k) # cur
      <3>1. PICK i \in 1..(Len(b) - 1) : b[i] = EntryOf(T, own, Append(d, k), k)
          BY <1>3, <2>2 DEF Catalog
      <3>2. i \in 1..m /\ x[i] = b[i]
          BY <3>1
      <3> QED
          BY <3>1, <3>2
    <2> QED
        BY <2>1, <2>2
  <1>4. Len(x) - 1 = m /\ Len(x) >= 1
      BY <1>1
  <1> QED
      BY <1>2, <1>3, <1>4 DEF Catalog

\* Up to its zero the list is still on the image.
LEMMA StoredAdd ==
    ASSUME NEW D, NEW w \in Walks, NEW b \in Seq(Slots), NEW m \in Nat, m = Len(b), m >= 1,
           Stored(D, w, b, m), IsZero(b[m]), NEW x \in Seq(Slots), Len(x) = m + 1,
           \A i \in 1..(m - 1) : x[i] = b[i]
    PROVE  Stored(D, w, x, m - 1)
  <1>1. m <= Room(w) /\ Room(w) \in Nat
      BY RoomIs DEF Stored
  <1>2. ASSUME NEW i \in 0..((m - 1) - 1) PROVE Place(D, w, i) = x[i + 1]
    <2>1. i \in 0..(m - 1) /\ i + 1 \in 1..(m - 1)
        OBVIOUS
    <2> QED
        BY <2>1 DEF Stored
  <1>3. ASSUME NEW i \in (m - 1)..(Room(w) - 1) PROVE ~Written(Place(D, w, i))
    <2>1. CASE i = m - 1
      <3>1. i \in 0..(m - 1) /\ i + 1 = m
          BY <2>1
      <3>2. Place(D, w, i) = b[m]
          BY <3>1 DEF Stored
      <3> QED
          BY <3>2 DEF IsZero, Written
    <2>2. CASE i # m - 1
      <3>1. i \in m..(Room(w) - 1)
          BY <1>1, <2>2
      <3> QED
          BY <3>1 DEF Stored
    <2> QED
        BY <2>1, <2>2
  <1>4. m - 1 \in Nat /\ m - 1 <= Len(x) /\ m - 1 <= Room(w)
      BY <1>1
  <1> QED
      BY <1>2, <1>3, <1>4 DEF Stored

\* The cluster AtEnd accepts is the last one.
LEMMA EndIsLast ==
    ASSUME NEW w \in Walks, TableOK(fat), IsChain(fat, w), NEW size \in Nat, AtEnd(w[1], size)
    PROVE  /\ ChainOf(fat, w[1]) = w /\ Skip(size) \in Nat /\ Skip(size) + 1 = Len(w)
           /\ w[Skip(size) + 1] = Last(w)
  <1>1. PICK c \in Clusters : c = w[1]
      BY FirstOf
  <1>2. ChainOf(fat, c) = w
      BY <1>1, ChainIs
  <1>3. PICK l \in Nat \ {0} : l = Len(w) /\ Last(w) = w[l]
      BY LastOf
  <1>4. Skip(size) < Len(ChainOf(fat, c)) /\ fat[w[Skip(size) + 1]] >= EOC
      BY <1>1, <1>2 DEF AtEnd
  <1>5. PICK k \in Nat : k = Skip(size)
      BY <1>1, <1>4, WaitingPlace
  <1>6. k + 1 \in 1..l /\ fat[w[k + 1]] >= EOC
      BY <1>2, <1>3, <1>4, <1>5
  <1>7. k + 1 = l
    <2>1. SUFFICES ASSUME k + 1 # l PROVE FALSE
        OBVIOUS
    <2>2. PICK j \in 1..(l - 1) : j = k + 1 /\ j + 1 \in 1..l
        BY <1>6, <2>1
    <2>3. fat[w[j]] = w[j + 1]
        BY <1>3, <2>2 DEF IsChain
    <2>4. w[j + 1] \in Clusters
        BY <1>3, <2>2, FirstOf
    <2>5. PICK x \in Clusters : x = w[j + 1]
        BY <2>4
    <2>6. x >= EOC
        BY <1>6, <2>2, <2>3, <2>5
    <2>7. x < EOC /\ x \in Nat /\ EOC \in Nat
        BY Sizes
    <2> QED
        BY <2>6, <2>7
  <1> QED
      BY <1>1, <1>2, <1>3, <1>5, <1>7

LEMMA ZeroSlot == Zero \in Slots /\ IsZero(Zero)
  <1>1. "" \in Labels
      BY DEF Labels
  <1>2. Zero \in Leading(Clusters) /\ IsZero(Zero)
      BY <1>1, DataSlot DEF Zero
  <1> QED
      BY <1>2, LeadingSlots

AddedIn(T, body, d, s, body2) ==
    /\ \A p \in Objects(T) : p # d => body2[p] = body[p]
    /\ Added(body[d], Len(body[d]), s, Zero, body2[d])

\* The new object is listed in its directory.
LEMMA TextsAppend ==
    ASSUME NEW T, Shape(T), NEW own, NEW body, NEW cur, Texts(T, own, body, {cur}),
           NEW d \in Dirs, d \in Objects(T), IsDir(T, d), NEW n \in Names, cur = Append(d, n),
           cur \in DOMAIN T, NEW s \in Slots, s = EntryOf(T, own, cur, n)
    PROVE  \E body2 : Texts(T, own, body2, {}) /\ AddedIn(T, body, d, s, body2)
  <1>1. body \in [Objects(T) -> Seq(Slots)]
      BY DEF Texts
  <1>2. PICK b \in Seq(Slots) : b = body[d]
      BY <1>1
  <1>3. Catalog(T, own, b, d, {cur})
      BY <1>2 DEF Texts
  <1>4. PICK m \in Nat : m = Len(b) /\ m >= 1
      BY <1>3, LenProperties DEF Catalog
  <1>5. Zero \in Slots /\ IsZero(Zero)
      BY ZeroSlot
  <1>15. PICK z \in Slots : z = Zero
      BY <1>5
  <1>16. PICK x \in Seq(Slots) : Added(b, m, s, z, x)
      BY <1>4, AddEntry
  <1>6. /\ Len(x) = m + 1 /\ x[m] = s /\ x[m + 1] = Zero
        /\ \A i \in 1..(m - 1) : x[i] = b[i]
      BY <1>15, <1>16 DEF Added
  <1>7. PICK body2 : body2 = [body EXCEPT ![d] = x]
      OBVIOUS
  <1>8. /\ body2 \in [Objects(T) -> Seq(Slots)] /\ body2[d] = x
        /\ \A p \in Objects(T) : p # d => body2[p] = body[p]
      BY <1>1, <1>7
  <1>9. d \in Seq(Names)
      BY DirIsPath
  <1>10. Catalog(T, own, x, d, {})
    <2>1. x[m] = EntryOf(T, own, cur, n) /\ IsZero(x[m + 1])
        BY <1>5, <1>6
    <2> QED
        BY <1>3, <1>4, <1>6, <1>9, <2>1, CatalogAdd
  <1>11. ASSUME NEW p \in Objects(T), IsDir(T, p), p # d PROVE Catalog(T, own, body[p], p, {})
    <2>1. p \in Seq(Names)
        BY ObjectIsPath
    <2>2. \A k \in Names : Append(p, k) # cur
        BY <1>9, <1>11, <2>1, AppendOneToOne
    <2>3. Catalog(T, own, body[p], p, {cur})
        BY <1>11 DEF Texts
    <2>4. PICK P : P = {cur}
        OBVIOUS
    <2>5. PICK Q : Q = {}
        OBVIOUS
    <2>6. \A k \in Names : Append(p, k) \in DOMAIN T \ P <=> Append(p, k) \in DOMAIN T \ Q
        BY <2>2, <2>4, <2>5
    <2>7. Catalog(T, own, body[p], p, P)
        BY <2>3, <2>4
    <2>8. Catalog(T, own, body[p], p, Q)
        BY <2>6, <2>7, CatalogSame
    <2> QED
        BY <2>5, <2>8
  <1>12. \A p \in Objects(T) : IsDir(T, p) => Catalog(T, own, body2[p], p, {})
      BY <1>8, <1>10, <1>11
  <1>13. \A p \in Objects(T) : ~IsDir(T, p) => body2[p] = Contents(T[p])
      BY <1>8 DEF Texts
  <1>14. Texts(T, own, body2, {})
      BY <1>8, <1>12, <1>13 DEF Texts
  <1>17. AddedIn(T, body, d, s, body2)
      BY <1>2, <1>4, <1>8, <1>15, <1>16 DEF AddedIn
  <1> QED
      BY <1>14, <1>17

LEMMA TreeAppend == ASSUME Inv, TreeInv, AppendDirectoryEntry PROVE TreeInv'
  <1>1. PICK e \in entry :
            /\ AtEnd(e.cluster, e.size)
            /\ LET last == ChainOf(fat, e.cluster)[Skip(e.size) + 1]
               IN  wr' = Writer(last, e.size - Skip(e.size) * SlotsPerCluster, e.cluster, e.size)
            /\ todo' = <<DirEnt(e.isDir, e.name, wr.first, IF e.isDir THEN 0 ELSE wr.total), Zero>>
      BY DEF AppendDirectoryEntry
  <1>2. /\ pc = "prompt" /\ todo = <<>> /\ entry' = {}
        /\ pc' = pc /\ flushed' = flushed /\ sessions' = sessions /\ fat' = fat
        /\ imgFat' = imgFat /\ data' = data /\ lost' = lost /\ tree' = tree /\ saved' = saved
      BY DEF AppendDirectoryEntry, image
  <1>3. TypeInv /\ TypeOK /\ Busy /\ TableOK(fat) /\ entry = {e}
      BY <1>1, <1>2 DEF Inv, TypeInv, Busy
  <1>4. /\ e.name \in Names /\ e.isDir \in BOOLEAN /\ e.cluster \in Clusters /\ e.size \in Nat
        /\ wr.first \in Clusters /\ wr.total \in Nat
      BY <1>1, <1>3 DEF TypeInv, TypeOK
  <1>5. [Next \/ Crash]_vars
      BY DEF Next, Proceed
  <1>6. PICK s : s = DirEnt(e.isDir, e.name, wr.first, IF e.isDir THEN 0 ELSE wr.total)
      OBVIOUS
  <1>7. todo' = <<s, Zero>> /\ Len(todo') = 2 /\ todo'[1] = s /\ todo'[2] = Zero /\ todo' # <<>>
      BY <1>1, <1>6
  <1>8. Busy'
      BY <1>7 DEF Busy
  <1>9. PICK n \in Names : n = e.name
      BY <1>4
  <1>10. PICK z \in Nat : z = e.size
      BY <1>4
  <1>11. ASSUME lost = 0
         PROVE  /\ \E own, body, cur : Explained(Current, own, body, cur)'
                /\ Extends(imgFat[1], Current)' /\ CopiesSame'
    <2>1. Current = fat /\ Current' = fat
        BY <1>2 DEF Current
    <2>2. PICK own, body, cur : Explained(Current, own, body, cur)
        BY <1>11 DEF TreeInv
    <2>3. Extends(imgFat[1], Current)
        BY <1>11 DEF TreeInv
    <2>4. /\ cur \in DOMAIN tree /\ wr.first = own[cur][1] /\ e.isDir = (tree[cur] = "dir")
          /\ \E d \in Dirs : PendingIn(own, body, cur, d, e)
        BY <1>1, <2>2 DEF Explained, Pending
    <2>5. PICK d \in Dirs : PendingIn(own, body, cur, d, e)
        BY <2>4
    <2>6. /\ cur = Append(d, n) /\ d \in Objects(tree) /\ IsDir(tree, d)
          /\ e.cluster = own[d][1] /\ z = Len(body[d]) - 1
        BY <1>9, <1>10, <2>5 DEF PendingIn
    <2>7. d \in Seq(Names) /\ cur # d /\ cur # <<>> /\ cur \in Objects(tree)
        BY <2>4, <2>6, DirIsPath, NotRoot DEF Objects
    <2>8. Shape(tree) /\ Space(fat, tree, own) /\ Texts(tree, own, body, {cur})
        BY <1>3, <2>1, <2>2 DEF Explained, Unlisted
    <2>9. own \in [Objects(tree) -> Walks] /\ body \in [Objects(tree) -> Seq(Slots)]
        BY <2>8 DEF Space, Texts
    <2>10. PICK w \in Walks : w = own[d] /\ IsChain(fat, w)
        BY <2>6, <2>8, <2>9 DEF Space
    <2>11. PICK b \in Seq(Slots) : b = body[d]
        BY <2>6, <2>9
    <2>12. PICK m \in Nat : m = Len(b) /\ m >= 1 /\ z = m - 1 /\ IsZero(b[m])
      <3>1. Catalog(tree, own, b, d, {cur})
          BY <2>6, <2>8, <2>11 DEF Texts
      <3> QED
          BY <2>6, <2>11, <3>1, LenProperties DEF Catalog
    <2>13. /\ ChainOf(fat, w[1]) = w /\ Skip(z) \in Nat /\ Skip(z) + 1 = Len(w)
           /\ w[Skip(z) + 1] = Last(w)
      <3>1. AtEnd(w[1], z)
          BY <1>1, <1>10, <2>6, <2>10
      <3> QED
          BY <1>3, <2>10, <3>1, EndIsLast
    <2>14. /\ wr'.cluster = Last(w) /\ wr'.off = z - Skip(z) * SlotsPerCluster
           /\ wr'.first = e.cluster /\ wr'.total = z
        BY <1>1, <1>10, <2>6, <2>10, <2>13 DEF Writer
    <2>15. Len(body[cur]) = wr.total
      <3>1. Len(body[cur]) = wr.total + Len(todo)
          BY <1>3, <2>2 DEF Explained, Position
      <3>2. Len(todo) = 0
          BY <1>2
      <3> QED
          BY <1>4, <3>1, <3>2
    <2>16. s = EntryOf(tree, own, cur, n)
      <3>1. CASE tree[cur] = "dir"
          BY <1>6, <1>9, <2>4, <3>1 DEF EntryOf
      <3>2. CASE tree[cur] # "dir"
        <4>1. PICK f \in Inputs \ Unreadable : f = tree[cur]
            BY <2>4, <2>8, <3>2 DEF Shape
        <4>2. body[cur] = Contents(f)
            BY <2>7, <2>8, <3>2, <4>1 DEF Texts, IsDir
        <4>3. Len(body[cur]) = FileSize[f]
            BY <4>2, ContentsAre
        <4>4. wr.total = FileSize[tree[cur]]
            BY <2>15, <4>1, <4>3
        <4> QED
            BY <1>6, <1>9, <2>4, <3>2, <4>4 DEF EntryOf
      <3> QED
          BY <3>1, <3>2
    <2>17. s \in Slots
      <3>1. PICK h \in Clusters : h = wr.first
          BY <1>4
      <3>2. h \in Clusters \cap Nat /\ n \in Labels
          BY Sizes DEF Labels
      <3>3. PICK g \in BOOLEAN : g = e.isDir
          BY <1>4
      <3>4. PICK size \in Nat : size = IF g THEN 0 ELSE wr.total
          BY <1>4
      <3>5. s = DirEnt(g, n, h, size)
          BY <1>6, <1>9, <3>1, <3>3, <3>4, Zenon
      <3>6. s \in Leading(Clusters)
          BY <3>2, <3>5, EntrySlot
      <3> QED
          BY <3>6, LeadingSlots
    <2>29. PICK body2 : Texts(tree, own, body2, {}) /\ AddedIn(tree, body, d, s, body2)
        BY <2>4, <2>6, <2>8, <2>16, <2>17, TextsAppend
    <2>18. Texts(tree, own, body2, {}) /\ \A p \in Objects(tree) : p # d => body2[p] = body[p]
        BY <2>29 DEF AddedIn
    <2>19. PICK x \in Seq(Slots) : x = body2[d]
        BY <2>6, <2>18 DEF Texts
    <2>20. /\ Len(x) = m + 1 /\ x[m] = s /\ x[m + 1] = Zero
           /\ \A i \in 1..(m - 1) : x[i] = b[i]
        BY <2>11, <2>12, <2>19, <2>29 DEF AddedIn, Added
    <2>21. AllStored(own, body2, d)'
      <3> SUFFICES ASSUME NEW p \in Objects(tree)
                   PROVE  Stored(data, own[p], body2[p], IF p = d THEN z ELSE Len(body2[p]))
          BY <1>2, <1>8, <2>14 DEF AllStored, Mark
      <3>1. Stored(data, own[p], body[p], Len(body[p]))
        <4>1. Mark(body, cur, p) = Len(body[p])
            BY <2>15 DEF Mark
        <4> QED
            BY <2>2, <4>1 DEF Explained, AllStored
      <3>2. CASE p = d
        <4>1. Stored(data, w, b, m)
            BY <2>10, <2>11, <2>12, <3>1, <3>2
        <4>2. Stored(data, w, x, m - 1)
            BY <2>12, <2>20, <4>1, StoredAdd
        <4> QED
            BY <2>10, <2>12, <2>19, <3>2, <4>2
      <3>3. CASE p # d
          BY <2>18, <3>1, <3>3
      <3> QED
          BY <3>2, <3>3
    <2>22. Position(own, body2, d)'
      <3>1. z = (Len(w) - 1) * SlotsPerCluster + wr'.off
        <4>1. PICK k \in Nat : k = Skip(z) /\ Len(w) - 1 = k
            BY <2>13
        <4>2. PICK c \in Nat : c = SlotsPerCluster
            BY Sizes
        <4>3. PICK y \in Nat : y = k * c
            OBVIOUS
        <4>4. wr'.off = z - y
            BY <2>14, <4>1, <4>2, <4>3
        <4>5. z = y + wr'.off
            BY <4>4
        <4> QED
            BY <4>1, <4>2, <4>3, <4>5
      <3>2. Len(x) = z + Len(todo')
          BY <1>7, <2>12, <2>20
      <3>3. \A i \in 1..Len(todo') : todo'[i] = x[z + i]
        <4>1. z + 1 = m /\ z + 2 = m + 1
            BY <2>12
        <4>2. todo'[1] = x[z + 1] /\ todo'[2] = x[z + 2]
            BY <1>7, <2>20, <4>1
        <4>3. \A i \in 1..Len(todo') : i = 1 \/ i = 2
            BY <1>7
        <4> QED
            BY <4>2, <4>3
      <3> QED
          BY <1>2, <2>6, <2>10, <2>14, <2>19, <3>1, <3>2, <3>3 DEF Position
    <2>23. Pending(own, body2, d)'
        BY <1>2 DEF Pending
    <2>24. SavedKept(own)'
      <3>1. \A p \in Objects(tree) : own[p] \in Walks /\ Begins(own[p], own[p])
          BY <2>9, BeginsItself
      <3> QED
          BY <1>2, <1>5, <1>11, <2>2, <2>3, <3>1, KeptOn
    <2>25. Texts(tree, own, body2, Unlisted(d))'
        BY <1>2, <2>18 DEF Unlisted
    <2>26. Explained(Current, own, body2, d)'
        BY <1>2, <2>1, <2>8, <2>21, <2>22, <2>23, <2>24, <2>25 DEF Explained
    <2>27. Extends(imgFat[1], Current)'
        BY <1>2, <2>1, <2>3 DEF Extends
    <2>28. CopiesSame'
        BY <1>2 DEF CopiesSame
    <2> QED
        BY <2>26, <2>27, <2>28
  <1> QED
      BY <1>2, <1>11, TreeLives

-----------------------------------------------------------------------------
(* Commands *)

\* A tree with one more object.
Grown(T, p, what) == [q \in DOMAIN T \cup {p} |-> IF q = p THEN what ELSE T[q]]

OneMore(T, p, what, U) ==
    /\ DOMAIN U = DOMAIN T \cup {p} /\ Objects(U) = Objects(T) \cup {p}
    /\ U[p] = what /\ \A q \in DOMAIN T : U[q] = T[q]
    /\ \A q \in Objects(T) : q # p /\ (IsDir(U, q) <=> IsDir(T, q))
    /\ IsDir(U, p) <=> what = "dir"
    /\ p # <<>> /\ p \notin DOMAIN T

LEMMA GrownIs ==
    ASSUME NEW T, NEW p, p \notin Objects(T), NEW what
    PROVE  OneMore(T, p, what, Grown(T, p, what))
  <1> DEFINE U == Grown(T, p, what)
  <1>1. p # <<>> /\ p \notin DOMAIN T
      BY DEF Objects
  <1>2. DOMAIN U = DOMAIN T \cup {p} /\ U[p] = what /\ \A q \in DOMAIN T : U[q] = T[q]
      BY <1>1 DEF Grown
  <1>3. Objects(U) = Objects(T) \cup {p}
      BY <1>2 DEF Objects
  <1>4. \A q \in Objects(T) : q # p /\ (IsDir(U, q) <=> IsDir(T, q))
      BY <1>2 DEF Objects, IsDir
  <1>5. IsDir(U, p) <=> what = "dir"
      BY <1>1, <1>2 DEF IsDir
  <1> QED
      BY <1>1, <1>2, <1>3, <1>4, <1>5 DEF OneMore

LEMMA ShapeAdd ==
    ASSUME NEW T, Shape(T), NEW dir \in Dirs, dir \in Objects(T), IsDir(T, dir), NEW name \in Names,
           NEW p, p = Append(dir, name), p \notin Objects(T),
           NEW what \in {"dir"} \cup (Inputs \ Unreadable), NEW U, OneMore(T, p, what, U)
    PROVE  Shape(U)
  <1>1. /\ DOMAIN U = DOMAIN T \cup {p} /\ Objects(U) = Objects(T) \cup {p}
        /\ U[p] = what /\ \A q \in DOMAIN T : U[q] = T[q]
        /\ \A q \in Objects(T) : q # p /\ (IsDir(U, q) <=> IsDir(T, q))
      BY DEF OneMore
  <1>2. p \in Paths
      BY DEF Paths
  <1>3. ASSUME NEW d \in Dirs, NEW n \in Names, Append(d, n) \in DOMAIN U
        PROVE  d \in Objects(U) /\ IsDir(U, d)
    <2>1. CASE Append(d, n) \in DOMAIN T
      <3>1. d \in Objects(T) /\ IsDir(T, d)
          BY <2>1 DEF Shape
      <3> QED
          BY <1>1, <3>1
    <2>2. CASE Append(d, n) = p
      <3>1. d = dir
          BY <2>2, DirIsPath, AppendOneToOne
      <3> QED
          BY <1>1, <3>1
    <2> QED
        BY <1>1, <1>3, <2>1, <2>2
  <1>4. DOMAIN U \subseteq Paths /\ \A q \in DOMAIN U : U[q] \in {"dir"} \cup (Inputs \ Unreadable)
      BY <1>1, <1>2 DEF Shape
  <1> QED
      BY <1>3, <1>4 DEF Shape

\* A chain of one cluster.
LEMMA OneCluster ==
    ASSUME NEW c \in Clusters
    PROVE  \E w \in Walks : w = <<c>> /\ Len(w) = 1 /\ w[1] = c /\ Last(w) = c
  <1>1. PICK w : w = <<c>>
      OBVIOUS
  <1>2. w \in Seq(Clusters) /\ Len(w) = 1 /\ w[1] = c /\ w # <<>>
      BY <1>1
  <1>3. w \in Walks
      BY <1>2 DEF Walks
  <1>4. Last(w) = c
      BY <1>2, <1>3, LastOf
  <1> QED
      BY <1>1, <1>2, <1>3, <1>4

\* A new object begins in the cluster that was free.
SpaceMore(v, T, own, U, p, c, own2) ==
    Space(v, U, own2) /\ own2[p] = <<c>> /\ \A q \in Objects(T) : own2[q] = own[q]

LEMMA SpaceAdd ==
    ASSUME NEW t, TableOK(t), NEW T, NEW own, Space(t, T, own), NEW c \in Clusters, t[c] = 0,
           NEW v, TableOK(v), Used(v) = Used(t) \cup {c}, v = Allocate(t, c),
           NEW U, NEW p, p \notin Objects(T), Objects(U) = Objects(T) \cup {p}
    PROVE  \E own2 : SpaceMore(v, T, own, U, p, c, own2)
  <1>1. own \in [Objects(T) -> Walks]
      BY DEF Space
  <1>2. PICK w \in Walks : w = <<c>> /\ Len(w) = 1 /\ w[1] = c /\ Last(w) = c
      BY OneCluster
  <1>3. PICK own2 : own2 = [q \in Objects(U) |-> IF q = p THEN w ELSE own[q]]
      OBVIOUS
  <1>4. /\ own2 \in [Objects(U) -> Walks] /\ own2[p] = w
        /\ \A q \in Objects(T) : own2[q] = own[q] /\ q # p
      BY <1>1, <1>3
  <1>5. v[c] = EOC /\ \A y \in Clusters : y # c => v[y] = t[y]
    <2>1. /\ t \in [0..(FatEntries - 1) -> Links] /\ c \in 0..(FatEntries - 1)
          /\ Clusters \subseteq 0..(FatEntries - 1)
        BY Sizes DEF TableOK
    <2>2. v = [t EXCEPT ![c] = EOC]
        BY DEF Allocate
    <2> QED
        BY <2>1, <2>2
  <1>6. ASSUME NEW q \in Objects(T)
        PROVE  /\ IsChain(v, own[q]) /\ \A k \in 1..Len(own[q]) : own[q][k] # c
               /\ Apart(own[q], w) /\ Apart(w, own[q])
    <2>1. PICK y \in Walks : y = own[q] /\ IsChain(t, y)
        BY <1>1 DEF Space
    <2>2. \A k \in 1..Len(y) : y[k] \in Used(t)
        BY <2>1, ChainInUse
    <2>3. \A k \in 1..Len(y) : y[k] # c /\ y[k] \in Clusters
        BY <2>2 DEF Used
    <2>4. IsChain(v, y)
        BY <1>5, <2>1, <2>3, SameChain
    <2>5. Apart(y, w) /\ Apart(w, y)
      <3>1. \A k \in 1..Len(w) : w[k] = c
          BY <1>2
      <3> QED
          BY <2>3, <3>1 DEF Apart
    <2> QED
        BY <2>1, <2>3, <2>4, <2>5
  <1>7. IsChain(v, w)
      BY <1>2, <1>5 DEF IsChain
  <1>8. \A q \in Objects(U) : IsChain(v, own2[q])
      BY <1>4, <1>6, <1>7
  <1>9. \A q, r \in Objects(U) : q # r => Apart(own2[q], own2[r])
    <2>1. \A q, r \in Objects(T) : q # r => Apart(own[q], own[r])
        BY DEF Space
    <2> QED
        BY <1>4, <1>6, <2>1
  <1>10. own2[<<>>][1] = Root
    <2>1. <<>> \in Objects(T)
        BY DEF Objects
    <2> QED
        BY <1>4, <2>1 DEF Space
  <1>11. ASSUME NEW y \in Used(v)
         PROVE  \E q \in Objects(U) : \E k \in 1..Len(own2[q]) : own2[q][k] = y
    <2>1. CASE y = c
      <3>1. 1 \in 1..Len(w) /\ w[1] = c
          BY <1>2
      <3> QED
          BY <1>4, <2>1, <3>1
    <2>2. CASE y # c
      <3>1. y \in Used(t)
          BY <2>2
      <3>2. PICK q \in Objects(T) : \E k \in 1..Len(own[q]) : own[q][k] = y
          BY <3>1 DEF Space
      <3> QED
          BY <1>4, <3>2
    <2> QED
        BY <2>1, <2>2
  <1>12. Space(v, U, own2)
      BY <1>4, <1>8, <1>9, <1>10, <1>11 DEF Space
  <1>13. SpaceMore(v, T, own, U, p, c, own2)
      BY <1>2, <1>4, <1>12 DEF SpaceMore
  <1> QED
      BY <1>13

\* An empty directory lists nothing.
LEMMA EmptyCatalog ==
    ASSUME NEW T, NEW own, NEW p, NEW P, NEW parent, NEW c,
           \A n \in Names : Append(p, n) \notin DOMAIN T \ P,
           NEW b, b = EmptyDirectory(parent, c)
    PROVE  Catalog(T, own, b, p, P)
  <1>1. PICK s1 : s1 = DirEnt(TRUE, ".", c, 0)
      OBVIOUS
  <1>2. PICK s2 : s2 = DirEnt(TRUE, "..", parent, 0)
      OBVIOUS
  <1>3. b = <<s1, s2, Zero>>
      BY <1>1, <1>2 DEF EmptyDirectory
  <1>4. Len(b) = 3 /\ b[1] = s1 /\ b[2] = s2 /\ b[3] = Zero
      BY <1>3
  <1>5. Dot(s1) /\ Dot(s2)
      BY <1>1, <1>2 DEF Dot, DirEnt, Slot
  <1>6. IsZero(b[3])
      BY <1>4, ZeroSlot
  <1>7. \A i \in 1..(Len(b) - 1) : i = 1 \/ i = 2
      BY <1>4
  <1>8. \A i \in 1..(Len(b) - 1) : Dot(b[i])
      BY <1>4, <1>5, <1>7
  <1> QED
      BY <1>4, <1>6, <1>8 DEF Catalog

\* Nothing is below an object that is not there.
LEMMA NothingBelow ==
    ASSUME NEW T, Shape(T), NEW p \in Seq(Names), p \notin Objects(T), NEW n \in Names
    PROVE  Append(p, n) \notin DOMAIN T
  <1>1. SUFFICES ASSUME Append(p, n) \in DOMAIN T PROVE FALSE
      OBVIOUS
  <1>5. PICK x \in DOMAIN T : x = Append(p, n)
      BY <1>1
  <1>2. PICK d \in Dirs, k \in Names : x = Append(d, k)
      BY DEF Shape, Paths
  <1>3. d \in Seq(Names)
      BY DirIsPath
  <1>7. Append(p, n) = Append(d, k)
      BY <1>2, <1>5
  <1>4. p = d
      BY <1>3, <1>7, AppendOneToOne
  <1>6. d \in Objects(T)
      BY <1>2 DEF Shape
  <1> QED
      BY <1>4, <1>6

\* What a new object consists of, while no directory lists it.
TextsMore(T, body, U, own2, p, b, body2) ==
    Texts(U, own2, body2, {p}) /\ body2[p] = b /\ \A q \in Objects(T) : body2[q] = body[q]

LEMMA TextsAdd ==
    ASSUME NEW T, Shape(T), NEW own, NEW body, Texts(T, own, body, {}),
           NEW p \in Seq(Names), p \notin Objects(T), NEW what, NEW U, OneMore(T, p, what, U),
           NEW own2, \A q \in Objects(T) : own2[q] = own[q],
           NEW parent, NEW c, NEW b \in Seq(Slots), b = NewContents(parent, c, what)
    PROVE  \E body2 : TextsMore(T, body, U, own2, p, b, body2)
  <1>1. body \in [Objects(T) -> Seq(Slots)]
      BY DEF Texts
  <1>2. /\ DOMAIN U = DOMAIN T \cup {p} /\ Objects(U) = Objects(T) \cup {p}
        /\ U[p] = what /\ \A q \in DOMAIN T : U[q] = T[q]
        /\ \A q \in Objects(T) : q # p /\ (IsDir(U, q) <=> IsDir(T, q))
        /\ IsDir(U, p) <=> what = "dir"
        /\ p # <<>> /\ p \notin DOMAIN T
      BY DEF OneMore
  <1>3. PICK body2 : body2 = [q \in Objects(U) |-> IF q = p THEN b ELSE body[q]]
      OBVIOUS
  <1>4. /\ body2 \in [Objects(U) -> Seq(Slots)] /\ body2[p] = b
        /\ \A q \in Objects(T) : body2[q] = body[q]
      BY <1>1, <1>2, <1>3
  <1>5. DOMAIN U \ {p} = DOMAIN T
      BY <1>2
  <1>6. ASSUME NEW q \in Objects(T), IsDir(T, q) PROVE Catalog(U, own2, body[q], q, {p})
    <2>1. PICK P : P = {}
        OBVIOUS
    <2>2. PICK Q : Q = {p}
        OBVIOUS
    <2>3. Catalog(T, own, body[q], q, P)
        BY <1>6, <2>1 DEF Texts
    <2>4. \A n \in Names : Append(q, n) \in DOMAIN T \ P <=> Append(q, n) \in DOMAIN U \ Q
        BY <1>5, <2>1, <2>2
    <2>5. \A n \in Names : Append(q, n) \in DOMAIN T \ P =>
                /\ T[Append(q, n)] = U[Append(q, n)]
                /\ own[Append(q, n)][1] = own2[Append(q, n)][1]
        BY <1>2 DEF Objects
    <2>6. Catalog(U, own2, body[q], q, Q)
        BY <2>3, <2>4, <2>5, CatalogSame
    <2> QED
        BY <2>2, <2>6
  <1>7. ASSUME what = "dir" PROVE Catalog(U, own2, b, p, {p})
    <2>1. b = EmptyDirectory(parent, c)
        BY <1>7 DEF NewContents
    <2>2. \A n \in Names : Append(p, n) \notin DOMAIN U \ {p}
        BY <1>5, NothingBelow
    <2>3. PICK P : P = {p}
        OBVIOUS
    <2>4. \A n \in Names : Append(p, n) \notin DOMAIN U \ P
        BY <2>2, <2>3
    <2>5. Catalog(U, own2, b, p, P)
        BY <2>1, <2>4, EmptyCatalog
    <2> QED
        BY <2>3, <2>5
  <1>8. \A q \in Objects(U) : IsDir(U, q) => Catalog(U, own2, body2[q], q, {p})
      BY <1>2, <1>4, <1>6, <1>7
  <1>9. \A q \in Objects(U) : ~IsDir(U, q) => body2[q] = Contents(U[q])
    <2>1. ASSUME NEW q \in Objects(T), ~IsDir(T, q) PROVE body2[q] = Contents(U[q])
      <3>1. body[q] = Contents(T[q])
          BY <2>1 DEF Texts
      <3>2. q \in DOMAIN T
          BY <2>1 DEF Objects, IsDir
      <3> QED
          BY <1>2, <1>4, <3>1, <3>2
    <2>2. what # "dir" => b = Contents(what)
        BY DEF NewContents
    <2> QED
        BY <1>2, <1>4, <2>1, <2>2
  <1>10. Texts(U, own2, body2, {p})
      BY <1>4, <1>8, <1>9 DEF Texts
  <1>11. TextsMore(T, body, U, own2, p, b, body2)
      BY <1>4, <1>10 DEF TextsMore
  <1> QED
      BY <1>11

\* The new cluster holds nothing yet.
LEMMA StoredNew ==
    ASSUME NEW c \in Clusters, NEW w \in Walks, Len(w) = 1, w[1] = c, NEW D, NEW b \in Seq(Slots),
           \A j \in SlotIdx : ~Written(D[c][j])
    PROVE  Stored(D, w, b, 0)
  <1>1. ASSUME NEW i \in 0..(Room(w) - 1) PROVE ~Written(Place(D, w, i))
    <2>1. PICK q \in 1..Len(w), r \in SlotIdx : \A F : Place(F, w, i) = F[w[q]][r]
        BY PlaceAt
    <2>2. w[q] = c
      <3>1. q = 1
          BY <2>1
      <3> QED
          BY <3>1
    <2> QED
        BY <2>1, <2>2
  <1>2. Room(w) \in Nat /\ Len(b) \in Nat
      BY RoomIs, LenProperties
  <1>3. \A i \in 0..(0 - 1) : FALSE
      OBVIOUS
  <1> QED
      BY <1>1, <1>2, <1>3 DEF Stored

\* A command is accepted for a new name in a directory of the tree.
Accepts(own, body, dir, p, parent) ==
    /\ dir \in Objects(tree) /\ IsDir(tree, dir) /\ p \notin Objects(tree)
    /\ parent = own[dir][1] /\ parent \in Clusters
    /\ ScanDirectory(fat, parent).total = Len(body[dir]) - 1

LEMMA AcceptedPlace ==
    ASSUME data \in Filled(Slots), TableOK(fat), NEW own, NEW body, Laid(fat, tree, own, body),
           NEW dir \in Dirs, NEW name \in Names, MayCreate(dir, name)
    PROVE  Accepts(own, body, dir, Append(dir, name), FindFile(fat, dir).first)
  <1> DEFINE p == Append(dir, name)
             parent == FindFile(fat, dir).first
  <1>1. PICK e : e = FindFile(fat, dir)
      OBVIOUS
  <1>2. e.t = "dir" /\ parent = e.first /\ EntryNotInDir(ScanDirectory(fat, parent), name)
      BY <1>1 DEF MayCreate, ParentAccepts
  <1>3. dir \in Objects(tree) /\ IsDir(tree, dir) /\ parent = own[dir][1]
    <2>1. CASE dir = <<>>
      <3>1. e = RootEntry
          BY <1>1, <2>1, FindRoot
      <3>2. e.first = Root
          BY <3>1 DEF RootEntry, DirEnt, Slot
      <3>3. own[dir][1] = Root
          BY <2>1 DEF Laid, Space
      <3> QED
          BY <1>2, <2>1, <3>2, <3>3 DEF Objects, IsDir
    <2>2. CASE dir # <<>>
      <3>1. PICK a \in Names : dir = <<a>>
          BY <2>2 DEF Dirs
      <3>2. PICK r \in Dirs : r = <<>>
          BY DEF Dirs
      <3>3. dir = Append(r, a)
          BY <3>1, <3>2
      <3>4. Finds(fat, tree, own, Append(r, a), a)
          BY FindIs
      <3>5. /\ dir \in DOMAIN tree => e = EntryOf(tree, own, dir, a)
            /\ dir \notin DOMAIN tree => e = NotFound
          BY <1>1, <3>3, <3>4 DEF Finds
      <3>6. NotFound.t # "dir"
          BY DEF NotFound, Slot
      <3>7. dir \in DOMAIN tree /\ e = EntryOf(tree, own, dir, a)
          BY <1>2, <3>5, <3>6
      <3>8. e.first = own[dir][1] /\ (tree[dir] # "dir" => e.t = "file")
          BY <3>7, EntryFacts
      <3>9. tree[dir] = "dir"
          BY <1>2, <3>8
      <3> QED
          BY <1>2, <3>7, <3>8, <3>9 DEF Objects, IsDir
    <2> QED
        BY <2>1, <2>2
  <1>4. PICK scan : scan = ScanDirectory(fat, own[dir][1])
      OBVIOUS
  <1>5. own[dir][1] \in Clusters /\ ScanShows(scan, tree, own, body[dir], dir, {})
      BY <1>3, <1>4, LaidDirectory
  <1>6. /\ scan.total = Len(body[dir]) - 1
        /\ NamesIn(scan) \ {".", ".."} = {n \in Names : Append(dir, n) \in DOMAIN tree \ {}}
      BY <1>5 DEF ScanShows
  <1>7. name \notin NamesIn(scan)
      BY <1>2, <1>3, <1>4 DEF EntryNotInDir
  <1>8. p \notin DOMAIN tree
    <2>1. name \notin {n \in Names : Append(dir, n) \in DOMAIN tree \ {}}
        BY <1>6, <1>7
    <2> QED
        BY <2>1
  <1>9. p # <<>>
      BY DirIsPath, NotRoot
  <1> QED
      BY <1>3, <1>4, <1>5, <1>6, <1>8, <1>9 DEF Accepts, Objects

LEMMA TreeBegin ==
    ASSUME Inv, TreeInv, Idle, NEW dir \in Dirs, NEW name \in Names, MayCreate(dir, name),
           NEW what \in {"dir"} \cup (Inputs \ Unreadable),
           BeginFile(FindFile(fat, dir).first, FindFreeCluster(fat), name, what),
           Remember(dir, name, what), [Next \/ Crash]_vars
    PROVE  TreeInv'
  <1>1. PICK parent : parent = FindFile(fat, dir).first
      OBVIOUS
  <1>2. PICK c : c = FindFreeCluster(fat)
      OBVIOUS
  <1>3. PICK total : total = ScanDirectory(fat, parent).total
      OBVIOUS
  <1>4. PICK isDir \in BOOLEAN : isDir = (what = "dir")
      BY Zenon
  <1>5. /\ pc = "prompt" /\ c # NoCluster /\ todo = <<>> /\ entry = {}
        /\ pc' = pc /\ flushed' = flushed /\ sessions' = sessions
        /\ imgFat' = imgFat /\ data' = data /\ lost' = lost /\ saved' = saved
        /\ fat' = Allocate(fat, c)
        /\ wr' = Writer(c, 0, c, 0)
        /\ todo' = NewContents(parent, c, what)
      BY <1>1, <1>2 DEF BeginFile, Idle, image, NewContents
  <1>6. PICK e : e = Entry(name, isDir, parent, total)
      OBVIOUS
  <1>7. entry' = {e}
      BY <1>1, <1>3, <1>4, <1>6, Zenon DEF BeginFile
  <1>8. e.name = name /\ e.isDir = isDir /\ e.cluster = parent /\ e.size = total
      BY <1>6 DEF Entry
  <1>9. ~Busy /\ data \in Filled(Slots) /\ TableOK(fat)
      BY <1>5, InvTypes DEF Busy
  <1>10. c \in Clusters /\ fat[c] = 0
      BY <1>2, <1>5, <1>9, FreeCluster
  <1>11. wr'.cluster = c /\ wr'.off = 0 /\ wr'.first = c /\ wr'.total = 0
      BY <1>5 DEF Writer
  <1>12. Busy' /\ entry' # {}
      BY <1>7 DEF Busy
  <1>13. PICK p : p = Append(dir, name)
      OBVIOUS
  <1>14. tree' = Grown(tree, p, what)
      BY <1>13 DEF Remember, Grown
  <1>15. PICK v : v = fat'
      OBVIOUS
  <1>16. v = Allocate(fat, c)
      BY <1>5, <1>15
  <1>17. TableOK(v) /\ Extends(fat, v) /\ Used(v) = Used(fat) \cup {c}
      BY <1>9, <1>10, <1>16, GrowTable
  <1>18. ASSUME lost = 0
         PROVE  /\ \E own, body, cur : Explained(Current, own, body, cur)'
                /\ Extends(imgFat[1], Current)' /\ CopiesSame'
    <2>1. Current = fat /\ Current' = v
        BY <1>5, <1>15 DEF Current
    <2>2. PICK own, body, cur : Explained(Current, own, body, cur)
        BY <1>18 DEF TreeInv
    <2>3. Extends(imgFat[1], Current)
        BY <1>18 DEF TreeInv
    <2>4. Laid(fat, tree, own, body)
        BY <1>9, <2>1, <2>2, NothingUnderWay
    <2>5. /\ dir \in Objects(tree) /\ IsDir(tree, dir) /\ p \notin Objects(tree)
          /\ parent = own[dir][1] /\ parent \in Clusters
          /\ total = Len(body[dir]) - 1
      <3>1. Accepts(own, body, dir, p, parent)
          BY <1>1, <1>9, <1>13, <2>4, AcceptedPlace
      <3> QED
          BY <1>3, <3>1 DEF Accepts
    <2>6. Shape(tree) /\ Space(fat, tree, own) /\ Texts(tree, own, body, {})
        BY <2>4 DEF Laid
    <2>7. PICK U : U = tree'
        OBVIOUS
    <2>8. OneMore(tree, p, what, U)
        BY <1>14, <2>5, <2>7, GrownIs
    <2>9. /\ DOMAIN U = DOMAIN tree \cup {p} /\ Objects(U) = Objects(tree) \cup {p}
          /\ U[p] = what /\ \A q \in DOMAIN tree : U[q] = tree[q]
          /\ \A q \in Objects(tree) : q # p /\ (IsDir(U, q) <=> IsDir(tree, q))
          /\ p \notin DOMAIN tree
        BY <2>8 DEF OneMore
    <2>10. Shape(U)
        BY <1>13, <2>5, <2>6, <2>8, ShapeAdd
    <2>11. PICK own2 : /\ Space(v, U, own2) /\ own2[p] = <<c>>
                       /\ \A q \in Objects(tree) : own2[q] = own[q]
      <3>1. PICK own2 : SpaceMore(v, tree, own, U, p, c, own2)
          BY <1>9, <1>10, <1>16, <1>17, <2>5, <2>6, <2>9, SpaceAdd
      <3> QED
          BY <3>1 DEF SpaceMore
    <2>12. PICK b : b = NewContents(parent, c, what)
        OBVIOUS
    <2>13. b \in Seq(Slots)
      <3>1. b \in Seq(Leading(Clusters))
          BY <1>10, <2>5, <2>12, NewFile
      <3>2. Len(b) \in Nat /\ b \in [1..Len(b) -> Leading(Clusters)]
          BY <3>1, LenProperties
      <3>3. b \in [1..Len(b) -> Slots]
          BY <3>2, LeadingSlots
      <3> QED
          BY <3>2, <3>3, SeqDef
    <2>14. p \in Seq(Names)
        BY <1>13, DirIsPath, NotRoot
    <2>15. PICK body2 : /\ Texts(U, own2, body2, {p}) /\ body2[p] = b
                        /\ \A q \in Objects(tree) : body2[q] = body[q]
      <3>1. PICK body2 : TextsMore(tree, body, U, own2, p, b, body2)
          BY <2>5, <2>6, <2>8, <2>11, <2>12, <2>13, <2>14, TextsAdd
      <3> QED
          BY <3>1 DEF TextsMore
    <2>16. PICK w \in Walks : w = own2[p] /\ Len(w) = 1 /\ w[1] = c /\ Last(w) = c
        BY <1>10, <2>11, OneCluster
    <2>17. AllStored(own2, body2, p)'
      <3> SUFFICES ASSUME NEW q \in Objects(U)
                   PROVE  Stored(data, own2[q], body2[q], IF q = p THEN 0 ELSE Len(body2[q]))
          BY <1>5, <1>11, <1>12, <2>7 DEF AllStored, Mark
      <3>1. CASE q = p
        <4>1. \A j \in SlotIdx : ~Written(data[c][j])
            BY <1>10, <1>18, <2>1 DEF Inv, SafeInv, TableInv, FreeIsFresh
        <4>2. Stored(data, w, b, 0)
            BY <1>10, <2>13, <2>16, <4>1, StoredNew
        <4> QED
            BY <2>15, <2>16, <3>1, <4>2
      <3>2. CASE q # p
        <4>1. q \in Objects(tree)
            BY <2>9, <3>2
        <4>2. Stored(data, own[q], body[q], Len(body[q]))
            BY <2>4, <4>1 DEF Laid
        <4> QED
            BY <2>11, <2>15, <3>2, <4>1, <4>2
      <3> QED
          BY <3>1, <3>2
    <2>18. Position(own2, body2, p)'
      <3>1. 0 = (Len(w) - 1) * SlotsPerCluster + 0
        <4>1. PICK y \in Nat : y = SlotsPerCluster
            BY Sizes
        <4>2. Len(w) - 1 = 0
            BY <2>16
        <4>3. 0 * y + 0 = 0
            OBVIOUS
        <4> QED
            BY <4>1, <4>2, <4>3, Zenon
      <3>2. todo' = b /\ Len(b) \in Nat
          BY <1>5, <2>12, <2>13, LenProperties
      <3>3. Len(b) = 0 + Len(todo') /\ \A i \in 1..Len(todo') : todo'[i] = b[0 + i]
          BY <3>2
      <3>4. p \in Objects(U)
          BY <2>9
      <3> QED
          BY <1>11, <1>12, <2>7, <2>15, <2>16, <3>1, <3>3, <3>4 DEF Position
    <2>19. Pending(own2, body2, p)'
      <3>1. p \in DOMAIN U /\ p \notin DOMAIN saved
          BY <2>2, <2>9 DEF Explained, SavedKept
      <3>2. e.isDir = (U[p] = "dir")
          BY <1>4, <1>8, <2>9
      <3>3. wr'.first = own2[p][1]
          BY <1>11, <2>16
      <3>4. PendingIn(own2, body2, p, dir, e)'
        <4>1. dir \in Objects(U) /\ IsDir(U, dir)
            BY <2>5, <2>9
        <4>2. e.cluster = own2[dir][1] /\ e.size = Len(body2[dir]) - 1
            BY <1>8, <2>5, <2>11, <2>15
        <4> QED
            BY <1>8, <1>13, <2>7, <4>1, <4>2 DEF PendingIn
      <3> QED
          BY <1>5, <1>7, <2>7, <3>1, <3>2, <3>3, <3>4 DEF Pending
    <2>20. SavedKept(own2)'
      <3>1. own \in [Objects(tree) -> Walks]
          BY <2>6 DEF Space
      <3>2. \A q \in Objects(tree) : own2[q] \in Walks /\ Begins(own[q], own2[q])
          BY <2>11, <3>1, BeginsItself
      <3>3. DOMAIN tree \subseteq DOMAIN tree' /\ \A q \in DOMAIN tree : tree'[q] = tree[q]
          BY <2>7, <2>9
      <3> QED
          BY <1>5, <1>18, <2>2, <2>3, <3>2, <3>3, KeptOn
    <2>21. Texts(tree, own2, body2, Unlisted(p))'
        BY <1>12, <2>7, <2>15 DEF Unlisted
    <2>22. Shape(tree)' /\ Space(Current, tree, own2)'
        BY <2>1, <2>7, <2>10, <2>11
    <2>23. Explained(Current, own2, body2, p)'
        BY <2>17, <2>18, <2>19, <2>20, <2>21, <2>22 DEF Explained
    <2>24. Extends(imgFat[1], Current)'
      <3>1. PICK t : t = imgFat[1]
          OBVIOUS
      <3>2. TableOK(t)
          BY <3>1, InvTypes
      <3>3. Extends(t, v)
          BY <1>9, <1>17, <2>1, <2>3, <3>1, <3>2, ExtendsMore
      <3> QED
          BY <1>5, <2>1, <3>1, <3>3 DEF Extends
    <2>25. CopiesSame'
        BY <1>5 DEF CopiesSame
    <2> QED
        BY <2>23, <2>24, <2>25
  <1> QED
      BY <1>5, <1>18, TreeLives

LEMMA TreeCommand ==
    ASSUME Inv, TreeInv, NEW dir \in Dirs, NEW name \in Names, Command(dir, name),
           [Next \/ Crash]_vars
    PROVE  TreeInv'
  <1>1. ASSUME CreateDirectory(dir, name) PROVE TreeInv'
    <2>1. PICK what \in {"dir"} \cup (Inputs \ Unreadable) : what = "dir"
        OBVIOUS
    <2> QED
        BY <1>1, <2>1, TreeBegin DEF CreateDirectory
  <1>2. ASSUME CreateFails(dir, name) PROVE TreeInv'
      BY <1>2, TreeDie DEF CreateFails, Idle
  <1>3. ASSUME NEW f \in Inputs, PackDirectory(dir, name, f) PROVE TreeInv'
    <2>1. f \in {"dir"} \cup (Inputs \ Unreadable)
        BY <1>3 DEF PackDirectory
    <2> QED
        BY <1>3, <2>1, TreeBegin DEF PackDirectory
  <1>4. ASSUME NEW f \in Inputs, PackFails(dir, name, f) PROVE TreeInv'
      BY <1>4, TreeDie DEF PackFails, Idle
  <1> QED
      BY <1>1, <1>2, <1>3, <1>4 DEF Command

LEMMA StepTree == ASSUME Inv, TreeInv, [Next \/ Crash]_vars PROVE TreeInv'
  <1>1. ASSUME ExtendFails PROVE TreeInv'
      BY <1>1, TreeDie DEF ExtendFails
  <1>2. ASSUME AppendEntryFails PROVE TreeInv'
      BY <1>2, TreeDie DEF AppendEntryFails
  <1>3. ASSUME Crash PROVE TreeInv'
      BY <1>3, TreeDie DEF Crash
  <1>4. ASSUME Proceed PROVE TreeInv'
      BY <1>1, <1>2, <1>4, TreeWrite, TreeExtend, TreeAppend, TreeTable, TreeInfo DEF Proceed
  <1>5. ASSUME Next PROVE TreeInv'
      BY <1>4, <1>5, TreeOpen, TreeCommand, TreeEnd DEF Next
  <1> QED
      BY <1>3, <1>5, TreeStutter

-----------------------------------------------------------------------------
(* Theorems *)

\* The second inductive invariant holds in every state, with a kill at any step.
THEOREM TreeInvariance == CrashSpec => []TreeInv
  <1>1. Init => TreeInv
      BY InitTree
  <1>2. Inv /\ TreeInv /\ [Next \/ Crash]_vars => TreeInv'
      BY StepTree
  <1> QED
      BY <1>1, <1>2, Invariance, PTL DEF CrashSpec

\* Until the first session is lost, FindFile and DumpFile find after each
\* command every directory with the names that were created in it and every
\* file with the slots of the host file, and nothing at any other path.
THEOREM ViewCorrect == CrashSpec => []ViewIsTree
  <1>1. Inv /\ TreeInv => ViewIsTree
      BY InvView
  <1> QED
      BY <1>1, Invariance, TreeInvariance, PTL

\* After each command the chains of two objects have no cluster in common, each
\* ends in an end marker, and every cluster marked in the table is in one.
THEOREM ChainsCorrect == CrashSpec => []ChainsPartition
  <1>1. Inv /\ TreeInv => ChainsPartition
      BY InvView
  <1> QED
      BY <1>1, Invariance, TreeInvariance, PTL

\* After WriteToImage() every copy of the table leads to all that was created.
THEOREM CommitCorrect == CrashSpec => []Committed
  <1>1. Inv /\ TreeInv => Committed
      BY InvCommitted
  <1> QED
      BY <1>1, Invariance, TreeInvariance, PTL

\* What earlier sessions saved can still be read when a session dies, whatever
\* it was doing, on an image whose unused clusters held zeros.
THEOREM SavedStays == CrashSpec => []SavedSurvives
  <1>1. TreeInv => SavedSurvives
      BY Zenon DEF TreeInv, SavedSurvives, SavedShown
  <1> QED
      BY <1>1, TreeInvariance, PTL
=============================================================================
