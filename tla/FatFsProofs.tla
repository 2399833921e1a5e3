----------------------------- MODULE FatFsProofs -----------------------------
(***************************************************************************)
(* Proofs about FatFs: the reader of the boot loader never trusts a window *)
(* that holds something else, what ReadAt copies is what is on the disk,   *)
(* and the file that FindByPath opens is the one stored under the path and *)
(* the one that fatedit finds there, for all well formed file systems,     *)
(* sizes of sectors and clusters, ranges and paths.                        *)
(***************************************************************************)
EXTENDS FatFs, Induction, SequenceTheorems, FiniteSetTheorems

(***************************************************************************)
(* Pieces of sequences.                                                    *)
(***************************************************************************)

\* What is left of s from offset o, at most n elements.
Cut(s, o, n) == SubSeq(s, o + 1, Min({o + n, Len(s)}))

\* The smaller one of two numbers.
LEMMA MinOfTwo ==
    ASSUME NEW a \in Int, NEW b \in Int
    PROVE  Min({a, b}) = IF a <= b THEN a ELSE b
  <1> DEFINE m == IF a <= b THEN a ELSE b
  <1>1. m \in {a, b} /\ \A y \in {a, b} : m <= y
      OBVIOUS
  <1>2. \A x \in {a, b} : (\A y \in {a, b} : x <= y) => x = m
      OBVIOUS
  <1> HIDE DEF m
  <1>3. Min({a, b}) = m
      BY <1>1, <1>2 DEF Min
  <1> QED
      BY <1>3 DEF m

\* How many elements that are, in a sequence of length l.
IsSize(k, l, o, n) ==
    /\ k \in Nat /\ k <= n
    /\ l <= o => k = 0
    /\ l > o => k <= l - o /\ (k = n \/ k = l - o)

\* x is that.
IsCut(x, s, o, n) ==
    /\ IsSize(Len(x), Len(s), o, n)
    /\ \A i \in 1..Len(x) : o + i \in 1..Len(s) /\ x[i] = s[o + i]

\* That is what SubSeq takes.
LEMMA CutIs ==
    ASSUME NEW S, NEW s \in Seq(S), NEW o \in Nat, NEW n \in Nat
    PROVE  Cut(s, o, n) \in Seq(S) /\ IsCut(Cut(s, o, n), s, o, n)
  <1>1. Min({o + n, Len(s)}) = IF o + n <= Len(s) THEN o + n ELSE Len(s)
      BY MinOfTwo
  <1> DEFINE m == Min({o + n, Len(s)})
  <1>2. m \in Nat /\ m <= Len(s)
      BY <1>1
  <1> HIDE DEF m
  <1>3. SubSeq(s, o + 1, m) \in Seq(S) /\ Len(SubSeq(s, o + 1, m)) = IF o + 1 <= m THEN m - o ELSE 0
      BY <1>2
  <1>4. \A i \in 1..Len(SubSeq(s, o + 1, m)) : SubSeq(s, o + 1, m)[i] = s[o + i]
      BY <1>2, <1>3
  <1>5. Cut(s, o, n) = SubSeq(s, o + 1, m)
      BY DEF Cut, m
  <1>6. m = IF o + n <= Len(s) THEN o + n ELSE Len(s)
      BY <1>1 DEF m
  <1>7. PICK t : t = SubSeq(s, o + 1, m)
      OBVIOUS
  <1>8. IsSize(Len(t), Len(s), o, n)
      BY <1>3, <1>6, <1>7 DEF IsSize
  <1>9. ASSUME NEW i \in 1..Len(t) PROVE o + i \in 1..Len(s) /\ t[i] = s[o + i]
    <2>1. t[i] = s[o + i]
        BY <1>4, <1>7
    <2>2. Len(s) \in Nat
        BY LenProperties
    <2> QED
        BY <1>8, <2>1, <2>2 DEF IsSize
  <1>10. IsCut(t, s, o, n)
      BY <1>8, <1>9 DEF IsCut
  <1> QED
      BY <1>3, <1>5, <1>7, <1>10

\* Two sequences with the same elements.
LEMMA SameSequence ==
    ASSUME NEW S, NEW s \in Seq(S), NEW t \in Seq(S), Len(s) = Len(t),
           \A i \in 1..Len(s) : s[i] = t[i]
    PROVE  s = t
  OBVIOUS

\* What is in a concatenation.
IsConcat(s, a, b) ==
    /\ Len(a) \in Nat /\ Len(b) \in Nat /\ Len(s) = Len(a) + Len(b)
    /\ \A i \in 1..Len(a) : s[i] = a[i]
    /\ \A i \in 1..Len(b) : s[Len(a) + i] = b[i]

\* The concatenation of two sequences is one.
LEMMA ConcatIs ==
    ASSUME NEW S, NEW a \in Seq(S), NEW b \in Seq(S)
    PROVE  a \o b \in Seq(S) /\ IsConcat(a \o b, a, b)
  <1>1. Len(a) \in Nat /\ Len(b) \in Nat
      BY LenProperties
  <1> QED
      BY <1>1, ConcatProperties DEF IsConcat

\* The first part of a concatenation is skipped.
LEMMA CutBehind ==
    ASSUME NEW S, NEW a \in Seq(S), NEW b \in Seq(S), NEW o \in Nat, NEW n \in Nat, o >= Len(a)
    PROVE  Cut(a \o b, o, n) = Cut(b, o - Len(a), n)
  <1>1. PICK s \in Seq(S) : s = a \o b
      BY ConcatIs
  <1>2. /\ Len(a) \in Nat /\ Len(b) \in Nat /\ Len(s) = Len(a) + Len(b)
        /\ \A i \in 1..Len(b) : s[Len(a) + i] = b[i]
      BY <1>1, ConcatIs DEF IsConcat
  <1>3. o - Len(a) \in Nat
      BY <1>2
  <1> DEFINE p == o - Len(a)
  <1>4. PICK x \in Seq(S) : x = Cut(s, o, n)
      BY CutIs
  <1>5. PICK y \in Seq(S) : y = Cut(b, p, n)
      BY <1>3, CutIs
  <1>6. /\ IsSize(Len(x), Len(s), o, n)
        /\ \A i \in 1..Len(x) : o + i \in 1..Len(s) /\ x[i] = s[o + i]
    <2>1. IsCut(x, s, o, n)
        BY <1>4, CutIs
    <2> QED
        BY <2>1 DEF IsCut
  <1>7. /\ IsSize(Len(y), Len(b), p, n)
        /\ \A i \in 1..Len(y) : p + i \in 1..Len(b) /\ y[i] = b[p + i]
    <2>1. IsCut(y, b, p, n)
        BY <1>3, <1>5, CutIs
    <2> QED
        BY <2>1 DEF IsCut
  <1>8. Len(x) = Len(y)
      BY <1>2, <1>3, <1>6, <1>7 DEF IsSize
  <1>9. ASSUME NEW i \in 1..Len(x) PROVE x[i] = y[i]
    <2>1. i \in 1..Len(y)
        BY <1>8
    <2>2. p + i \in 1..Len(b) /\ y[i] = b[p + i] /\ x[i] = s[o + i]
        BY <1>6, <1>7, <2>1
    <2>3. o + i = Len(a) + (p + i)
        BY <1>2, <2>1
    <2> QED
        BY <1>2, <2>2, <2>3
  <1>10. x = y
      BY <1>8, <1>9, SameSequence
  <1> QED
      BY <1>1, <1>4, <1>5, <1>10

\* The cut begins in the first part of a concatenation.
LEMMA CutWithin ==
    ASSUME NEW S, NEW a \in Seq(S), NEW b \in Seq(S), NEW o \in Nat, NEW n \in Nat, o < Len(a),
           NEW d \in Nat, IsSize(d, Len(a), o, n)
    PROVE  Cut(a \o b, o, n) = [i \in 1..d |-> a[o + i]] \o Cut(b, 0, n - d)
  <1>1. PICK s \in Seq(S) : s = a \o b
      BY ConcatIs
  <1>2. /\ Len(a) \in Nat /\ Len(b) \in Nat /\ Len(s) = Len(a) + Len(b)
        /\ \A i \in 1..Len(a) : s[i] = a[i]
        /\ \A i \in 1..Len(b) : s[Len(a) + i] = b[i]
      BY <1>1, ConcatIs DEF IsConcat
  <1>3. n - d \in Nat
      BY <1>2 DEF IsSize
  <1> DEFINE e == n - d
  <1>4. PICK x \in Seq(S) : x = Cut(s, o, n)
      BY CutIs
  <1>5. PICK y \in Seq(S) : y = Cut(b, 0, e)
      BY <1>3, CutIs
  <1>6. /\ IsSize(Len(x), Len(s), o, n)
        /\ \A i \in 1..Len(x) : o + i \in 1..Len(s) /\ x[i] = s[o + i]
    <2>1. IsCut(x, s, o, n)
        BY <1>4, CutIs
    <2> QED
        BY <2>1 DEF IsCut
  <1>7. /\ IsSize(Len(y), Len(b), 0, e)
        /\ \A i \in 1..Len(y) : i \in 1..Len(b) /\ y[i] = b[i]
    <2>1. /\ IsSize(Len(y), Len(b), 0, e)
          /\ \A i \in 1..Len(y) : 0 + i \in 1..Len(b) /\ y[i] = b[0 + i]
      <3>1. IsCut(y, b, 0, e)
          BY <1>3, <1>5, CutIs
      <3> QED
          BY <3>1 DEF IsCut
    <2>2. \A i \in 1..Len(y) : 0 + i = i
        OBVIOUS
    <2> QED
        BY <1>2, <2>1, <2>2
  <1> DEFINE z == [i \in 1..d |-> a[o + i]]
  <1>8. \A i \in 1..d : a[o + i] \in S
    <2> TAKE i \in 1..d
    <2>1. o + i \in 1..Len(a)
        BY <1>2 DEF IsSize
    <2> QED
        BY <2>1, ElementOfSeq
  <1>9. z \in Seq(S) /\ Len(z) = d /\ \A i \in 1..d : z[i] = a[o + i]
      BY <1>8
  <1> HIDE DEF z
  <1>10. PICK w \in Seq(S) : w = z \o y
      BY <1>9, ConcatIs
  <1>11. /\ Len(y) \in Nat /\ Len(w) = d + Len(y)
         /\ \A i \in 1..d : w[i] = z[i]
         /\ \A i \in 1..Len(y) : w[d + i] = y[i]
    <2>1. /\ Len(y) \in Nat /\ Len(w) = Len(z) + Len(y)
          /\ \A i \in 1..Len(z) : w[i] = z[i]
          /\ \A i \in 1..Len(y) : w[Len(z) + i] = y[i]
      <3>1. IsConcat(z \o y, z, y)
        <4>1. z \in Seq(S) /\ y \in Seq(S)
            BY <1>9
        <4> QED
            BY <4>1, ConcatIs
      <3> QED
          BY <1>10, <3>1 DEF IsConcat
    <2> QED
        BY <1>9, <2>1
  <1>12. Len(x) = d + Len(y) /\ (Len(y) > 0 => d = Len(a) - o)
    <2>1. /\ Len(a) \in Nat /\ Len(b) \in Nat /\ Len(s) = Len(a) + Len(b)
          /\ IsSize(Len(x), Len(s), o, n) /\ IsSize(Len(y), Len(b), 0, e)
        BY <1>2, <1>6, <1>7
    <2>2. e = n - d
        OBVIOUS
    <2> HIDE DEF e
    <2> QED
        BY <2>1, <2>2 DEF IsSize
  <1>13. ASSUME NEW i \in 1..Len(x) PROVE x[i] = w[i]
    <2>1. CASE i <= d
      <3>1. i \in 1..d /\ o + i \in 1..Len(a)
          BY <1>2, <2>1 DEF IsSize
      <3> QED
          BY <1>2, <1>6, <1>9, <1>11, <3>1
    <2>2. CASE i > d
      <3> DEFINE k == i - d
      <3>1. k \in 1..Len(y) /\ o + i = Len(a) + k /\ d + k = i
        <4>1. Len(a) \in Nat /\ Len(y) \in Nat /\ Len(x) \in Nat /\ i \in Int /\ 1 <= i /\ i <= Len(x)
            BY <1>2, <1>11, <1>12
        <4>2. k \in 1..Len(y) /\ d = Len(a) - o
            BY <1>12, <2>2, <4>1
        <4> QED
            BY <4>1, <4>2
      <3>2. w[i] = b[k] /\ k \in 1..Len(b)
          BY <1>7, <1>11, <3>1
      <3> HIDE DEF k
      <3> QED
          BY <1>2, <1>6, <3>1, <3>2
    <2> QED
        BY <1>11, <1>12, <2>1, <2>2
  <1>14. x = w
      BY <1>11, <1>12, <1>13, SameSequence
  <1> QED
      BY <1>1, <1>4, <1>5, <1>10, <1>14 DEF z
-----------------------------------------------------------------------------
(***************************************************************************)
(* Chains.                                                                 *)
(***************************************************************************)
Numbers(im) == ClustersOf(im) \cup {0}
Walks(im) == Seq(Numbers(im)) \ {<<>>}
LinkOf(im, c) == im.fat[c].link

\* One more cluster, if there is one.
Grow(im, walk) ==
    IF LinkOf(im, Last(walk)) < EndMark THEN Append(walk, LinkOf(im, Last(walk))) ELSE walk

\* The first n turns of the walk along the chain of c.
IsWalk(u, im, c, n) ==
    u \in [0..n -> Walks(im)] /\ u[0] = <<c>> /\ \A i \in 1..n : u[i] = Grow(im, u[i - 1])

\* How many turns ChainOf makes.
Turns(im) == Cardinality(ClustersOf(im))

\* The marks in the table.
LEMMA Marks ==
    EndMark \in Nat /\ EOC \in Nat /\ EndMark <= EOC /\ EndMark > 2 /\ Root = 2
  BY SMT DEF EndMark, EOC, Root

\* What ImageOK says of a link: it is a cluster, or ends the chain.
LEMMA Links ==
    ASSUME NEW im \in Images, NEW c \in Numbers(im)
    PROVE  /\ LinkOf(im, c) \in ClustersOf(im) \/ LinkOf(im, c) = EOC
           /\ LinkOf(im, c) < EndMark <=> LinkOf(im, c) \in ClustersOf(im)
           /\ c \in Nat /\ c < EndMark /\ c \in DOMAIN im.fat /\ LinkOf(im, c) \in Nat
  <1>1. ImageOK(im)
      BY FatFsAssumption
  <1>2. LinkOf(im, c) \in ClustersOf(im) \/ LinkOf(im, c) = EOC
      BY <1>1 DEF ImageOK, LinkOf, Numbers
  <1>3. \A d \in ClustersOf(im) : d \in Nat /\ d < EndMark
      BY <1>1, Marks DEF ImageOK
  <1>4. c \in Nat /\ c < EndMark /\ c \in DOMAIN im.fat
    <2>1. c \in DOMAIN im.fat
        BY <1>1 DEF ImageOK, Numbers
    <2>2. c = 0 \/ c \in ClustersOf(im)
        BY DEF Numbers
    <2>3. 0 \in Nat /\ 0 < EndMark
        BY Marks
    <2> QED
        BY <1>3, <2>1, <2>2, <2>3
  <1>5. LinkOf(im, c) < EndMark <=> LinkOf(im, c) \in ClustersOf(im)
    <2>1. CASE LinkOf(im, c) = EOC
      <3>1. ~(EOC < EndMark)
          BY Marks
      <3> QED
          BY <1>3, <2>1, <3>1
    <2>2. CASE LinkOf(im, c) \in ClustersOf(im)
        BY <1>3, <2>2
    <2> QED
        BY <1>2, <2>1, <2>2
  <1>6. LinkOf(im, c) \in Nat
      BY <1>2, <1>3, Marks
  <1> QED
      BY <1>2, <1>4, <1>5, <1>6

\* A walk stays a walk.
LEMMA GrowWalk ==
    ASSUME NEW im \in Images, NEW w \in Walks(im)
    PROVE  Grow(im, w) \in Walks(im) /\ Last(w) \in Numbers(im)
  <1>1. w \in Seq(Numbers(im)) /\ w # <<>>
      BY DEF Walks
  <1>2. Len(w) \in Nat /\ Len(w) # 0
      BY <1>1, EmptySeq, LenProperties
  <1>3. Last(w) \in Numbers(im)
    <2>1. Len(w) \in 1..Len(w)
        BY <1>2
    <2> QED
        BY <1>1, <2>1, ElementOfSeq DEF Last
  <1>4. LinkOf(im, Last(w)) < EndMark => LinkOf(im, Last(w)) \in Numbers(im)
      BY <1>3, Links DEF Numbers
  <1> DEFINE l == LinkOf(im, Last(w))
  <1>5. CASE l < EndMark
    <2>1. l \in Numbers(im)
        BY <1>4, <1>5
    <2> HIDE DEF l
    <2>2. Append(w, l) \in Seq(Numbers(im)) /\ Append(w, l) # <<>>
        BY <1>1, <2>1, AppendProperties
    <2>3. Grow(im, w) = Append(w, l)
        BY <1>5 DEF Grow, l
    <2> QED
        BY <1>3, <2>2, <2>3 DEF Walks
  <1>6. CASE ~(l < EndMark)
      BY <1>3, <1>6 DEF Grow
  <1> QED
      BY <1>5, <1>6

\* ImageOK has finitely many clusters, and at least one.
LEMMA TurnsPositive ==
    ASSUME NEW im \in Images PROVE Turns(im) \in Nat \ {0}
  <1>1. IsFiniteSet(ClustersOf(im)) /\ Root \in ClustersOf(im)
      BY FatFsAssumption DEF ImageOK
  <1> QED
      BY <1>1, FS_CardinalityType, FS_EmptySet DEF Turns

\* ChainOf is the last turn of such a walk.
LEMMA ChainWalk ==
    ASSUME NEW im \in Images, NEW c \in Numbers(im)
    PROVE  \E u : IsWalk(u, im, c, Turns(im)) /\ ChainOf(im, c) = u[Turns(im)]
  <1> DEFINE n == Turns(im)
             F == [p \in Walks(im) \X (1..n) |-> Grow(im, p[1])]
             E(g) == [i \in 0..n |-> IF i = 0 THEN <<c>> ELSE Grow(im, g[i - 1])]
             u == CHOOSE g : g = E(g)
  <1>1. n \in Nat
      BY TurnsPositive
  <1>2. Keeps(F, n, Walks(im))
      BY GrowWalk DEF Keeps
  <1>3. <<c>> \in Walks(im)
      BY DEF Walks
  <1>4. PICK f \in [0..n -> Walks(im)] : IsHistory(f, n, <<c>>, F)
    <2> HIDE DEF F, n
    <2> QED
        BY <1>1, <1>2, <1>3, HistoryExists
  <1>5. f[0] = <<c>> /\ \A i \in 1..n : f[i] = Grow(im, f[i - 1])
    <2>1. ASSUME NEW i \in 1..n PROVE F[<<f[i - 1], i>>] = Grow(im, f[i - 1])
      <3>1. f[i - 1] \in Walks(im)
          BY <1>1
      <3> QED
          BY <3>1
    <2> QED
        BY <1>4, <2>1 DEF IsHistory
  <1>6. f = E(f)
    <2>1. ASSUME NEW i \in 0..n PROVE f[i] = E(f)[i]
      <3>1. CASE i = 0
          BY <1>5, <3>1
      <3>2. CASE i # 0
        <4>1. i \in 1..n
            BY <1>1, <3>2
        <4> QED
            BY <1>5, <3>2, <4>1
      <3> QED
          BY <3>1, <3>2
    <2>2. DOMAIN f = 0..n /\ DOMAIN E(f) = 0..n
        OBVIOUS
    <2> QED
        BY <2>1, <2>2
  <1>7. u = E(u)
    <2> HIDE DEF E
    <2> QED
        BY <1>6, Zenon
  <1>8. ChainOf(im, c) = u[n]
      BY DEF ChainOf, Turns, Grow, LinkOf
  <1> HIDE DEF u
  <1>9. u[0] = <<c>> /\ \A i \in 1..n : u[i] = Grow(im, u[i - 1])
      BY <1>1, <1>7
  <1>10. \A i \in 0..n : u[i] \in Walks(im)
    <2>1. ASSUME NEW i \in 1..n, u[i - 1] \in Walks(im) PROVE u[i] \in Walks(im)
        BY <1>9, <2>1, GrowWalk
    <2>2. Stays(u, n, Walks(im))
        BY <1>3, <1>9, <2>1 DEF Stays
    <2> HIDE DEF n
    <2> QED
        BY <1>1, <2>2, HistoryType
  <1>11. u \in [0..n -> Walks(im)]
      BY <1>7, <1>10
  <1>12. IsWalk(u, im, c, n)
      BY <1>9, <1>11 DEF IsWalk
  <1> QED
      BY <1>8, <1>12

\* The walk from c is c followed by the walk from its link.
LEMMA WalkShift ==
    ASSUME NEW im \in Images, NEW c \in Numbers(im), NEW n \in Nat, NEW u, NEW w,
           LinkOf(im, c) < EndMark, IsWalk(u, im, c, n), IsWalk(w, im, LinkOf(im, c), n)
    PROVE  \A i \in 0..(n - 1) : u[i + 1] = <<c>> \o w[i]
  <1> DEFINE l == LinkOf(im, c)
             S == {i \in 0..(n - 1) : u[i + 1] = <<c>> \o w[i]}
  <1>1. SUFFICES ASSUME n > 0 PROVE \A i \in 0..(n - 1) : u[i + 1] = <<c>> \o w[i]
      OBVIOUS
  <1>2. l \in Numbers(im)
      BY Links DEF Numbers
  <1>3. 0 \in S
    <2>0. 1 \in 1..n /\ 1 - 1 = 0 /\ 0 + 1 = 1 /\ 0 \in 0..(n - 1)
        BY <1>1
    <2>1. u[0] = <<c>> /\ u[1] = Grow(im, u[0]) /\ w[0] = <<l>>
        BY <2>0 DEF IsWalk
    <2>2. Last(<<c>>) = c
        BY DEF Last
    <2>3. u[1] = Append(<<c>>, l)
        BY <2>1, <2>2 DEF Grow
    <2>4. Append(<<c>>, l) = <<c>> \o <<l>>
        OBVIOUS
    <2> QED
        BY <2>0, <2>1, <2>3, <2>4
  <1>4. ASSUME NEW i \in 0..(n - 2), i \in S PROVE i + 1 \in S
    <2>1. i + 1 \in 1..n /\ i + 2 \in 1..n /\ i \in 0..n /\ (i + 1) - 1 = i /\ (i + 2) - 1 = i + 1
          /\ i + 1 \in 0..n /\ i + 1 \in 0..(n - 1) /\ (i + 1) + 1 = i + 2
        OBVIOUS
    <2>2. u[i + 2] = Grow(im, u[i + 1]) /\ w[i + 1] = Grow(im, w[i])
        BY <2>1 DEF IsWalk
    <2>3. w[i] \in Walks(im)
        BY <2>1 DEF IsWalk
    <2>4. PICK x \in Walks(im) : x = w[i]
        BY <2>3
    <2>5. x \in Seq(Numbers(im)) /\ x # <<>> /\ Len(x) \in Nat \ {0}
        BY EmptySeq DEF Walks
    <2>6. PICK y \in Seq(Numbers(im)) : y = <<c>> \o x
      <3>1. <<c>> \in Seq(Numbers(im))
          OBVIOUS
      <3> QED
          BY <2>5, <3>1, ConcatIs
    <2>7. Last(y) = Last(x)
        BY <2>5, <2>6 DEF Last
    <2>8. u[i + 1] = y
        BY <1>4, <2>4, <2>6
    <2>9. Grow(im, y) = <<c>> \o Grow(im, x)
      <3>1. CASE LinkOf(im, Last(x)) < EndMark
        <4> DEFINE k == LinkOf(im, Last(x))
        <4>1. k \in Numbers(im)
            BY <3>1, GrowWalk, Links DEF Numbers
        <4>2. Grow(im, y) = Append(y, k) /\ Grow(im, x) = Append(x, k)
            BY <2>7, <3>1 DEF Grow
        <4> HIDE DEF k
        <4>3. Append(y, k) = <<c>> \o Append(x, k)
            BY <2>5, <2>6, <4>1
        <4> QED
            BY <4>2, <4>3
      <3>2. CASE ~(LinkOf(im, Last(x)) < EndMark)
          BY <2>6, <2>7, <3>2 DEF Grow
      <3> QED
          BY <3>1, <3>2
    <2> QED
        BY <2>1, <2>2, <2>4, <2>8, <2>9
  <1> HIDE DEF S
  <1>5. \A i \in 0..(n - 1) : i \in S
    <2>1. n - 1 \in Nat /\ (n - 1) - 1 = n - 2
        BY <1>1
    <2> QED
        BY <1>3, <1>4, <2>1, UpTo
  <1> QED
      BY <1>5 DEF S

\* The chain of c is c alone, or c followed by the chain of its link.
LEMMA ChainStep ==
    ASSUME NEW im \in Images, NEW c \in Numbers(im)
    PROVE  /\ ChainOf(im, c) \in Walks(im)
           /\ LinkOf(im, c) >= EndMark => ChainOf(im, c) = <<c>>
           /\ LinkOf(im, c) < EndMark => ChainOf(im, c) = <<c>> \o ChainOf(im, LinkOf(im, c))
  <1> DEFINE n == Turns(im)
             l == LinkOf(im, c)
  <1>1. n \in Nat \ {0}
      BY TurnsPositive
  <1>2. PICK u : IsWalk(u, im, c, n) /\ ChainOf(im, c) = u[n]
      BY ChainWalk
  <1> HIDE DEF n
  <1>3. ChainOf(im, c) \in Walks(im)
      BY <1>1, <1>2 DEF IsWalk
  <1>4. ASSUME l >= EndMark PROVE ChainOf(im, c) = <<c>>
    <2> DEFINE S == {i \in 0..n : u[i] = <<c>>}
    <2>1. 0 \in S
        BY <1>1, <1>2 DEF IsWalk
    <2>2. Grow(im, <<c>>) = <<c>>
      <3>1. Last(<<c>>) = c
          BY DEF Last
      <3>2. ~(l < EndMark)
          BY <1>4, Links, Marks
      <3> QED
          BY <3>1, <3>2 DEF Grow
    <2>3. ASSUME NEW i \in 0..(n - 1), i \in S PROVE i + 1 \in S
      <3>1. i + 1 \in 1..n /\ (i + 1) - 1 = i
          BY <1>1
      <3>2. u[i + 1] = Grow(im, u[i])
          BY <1>2, <3>1 DEF IsWalk
      <3> QED
          BY <2>2, <2>3, <3>1, <3>2
    <2> HIDE DEF S
    <2>4. \A i \in 0..n : i \in S
        BY <1>1, <2>1, <2>3, UpTo
    <2> QED
        BY <1>1, <1>2, <2>4 DEF S
  <1>5. ASSUME l < EndMark PROVE ChainOf(im, c) = <<c>> \o ChainOf(im, l)
    <2>1. l \in Numbers(im)
        BY <1>5, Links DEF Numbers
    <2>2. PICK w : IsWalk(w, im, l, n) /\ ChainOf(im, l) = w[n]
        BY <2>1, ChainWalk DEF n
    <2>3. \A i \in 0..(n - 1) : u[i + 1] = <<c>> \o w[i]
        BY <1>1, <1>2, <1>5, <2>2, WalkShift
    <2>4. n - 1 \in 0..(n - 1) /\ (n - 1) + 1 = n /\ n \in 1..n /\ n - 1 \in 0..n
        BY <1>1
    <2>5. u[n] = <<c>> \o w[n - 1]
        BY <2>3, <2>4
    <2>6. w[n] = Grow(im, w[n - 1]) /\ w[n - 1] \in Walks(im)
        BY <2>2, <2>4 DEF IsWalk
    <2>7. Last(u[n]) = Last(w[n - 1])
      <3>1. PICK x \in Walks(im) : x = w[n - 1]
          BY <2>6
      <3>2. x \in Seq(Numbers(im)) /\ x # <<>> /\ Len(x) \in Nat \ {0}
          BY EmptySeq DEF Walks
      <3>3. PICK y \in Seq(Numbers(im)) : y = <<c>> \o x
        <4>1. <<c>> \in Seq(Numbers(im))
            OBVIOUS
        <4> QED
            BY <3>2, <4>1, ConcatIs
      <3>4. Last(y) = Last(x)
          BY <3>2, <3>3 DEF Last
      <3> QED
          BY <2>5, <3>1, <3>3, <3>4
    <2>8. LinkOf(im, Last(ChainOf(im, c))) = EOC
      <3>1. c \in ClustersOf(im)
        <4>1. im.fat[0].link = EOC
            BY FatFsAssumption DEF ImageOK
        <4>2. c # 0
            BY <1>5, <4>1, Marks DEF LinkOf
        <4> QED
            BY <4>2 DEF Numbers
      <3> QED
          BY <3>1, FatFsAssumption DEF ImageOK, LinkOf
    <2>9. Grow(im, w[n - 1]) = w[n - 1]
      <3>1. ~(EOC < EndMark)
          BY Marks
      <3> QED
          BY <1>2, <2>7, <2>8, <3>1 DEF Grow
    <2> QED
        BY <1>2, <2>2, <2>5, <2>6, <2>9
  <1> QED
      BY <1>3, <1>4, <1>5

-----------------------------------------------------------------------------
(***************************************************************************)
(* Units of a chain.                                                       *)
(***************************************************************************)
Units == Seq(Nat \X Int)

FirstUnits(c) == [i \in 1..ClusterUnits |-> <<c, i - 1>>]
UnitsFrom(im, c) == IF c >= EndMark THEN <<>> ELSE UnitsOf(im, c)

\* A cluster has at least one unit.
LEMMA ClusterUnitsPositive == ClusterUnits \in Nat \ {0}
  <1>1. SectorsPerCluster \in Nat \ {0} /\ UnitsPerSector \in Nat \ {0}
      BY FatFsAssumption
  <1>2. ASSUME NEW a \in Nat \ {0}, NEW b \in Nat \ {0} PROVE a * b \in Nat \ {0}
      OBVIOUS
  <1> QED
      BY <1>1, <1>2 DEF ClusterUnits

\* Where a unit is: in the first cluster, or one cluster further.
LEMMA Places ==
    ASSUME NEW w \in Nat \ {0}, NEW j \in Nat
    PROVE  /\ j < w => j \div w = 0 /\ j % w = j
           /\ (w + j) \div w = (j \div w) + 1 /\ (w + j) % w = j % w
           /\ j \div w \in Nat /\ j % w \in 0..(w - 1)
  BY SMTT(30)

\* The units of a chain are a sequence, a cluster's worth for each link.
LEMMA UnitsAre ==
    ASSUME NEW im \in Images, NEW c \in Numbers(im)
    PROVE  /\ UnitsOf(im, c) \in Units
           /\ Len(UnitsOf(im, c)) = Len(ChainOf(im, c)) * ClusterUnits
           /\ \A i \in 1..Len(UnitsOf(im, c)) :
                UnitsOf(im, c)[i] = <<ChainOf(im, c)[((i - 1) \div ClusterUnits) + 1],
                                      (i - 1) % ClusterUnits>>
  <1>1. PICK w \in Nat \ {0} : w = ClusterUnits
      BY ClusterUnitsPositive
  <1>2. PICK ch \in Walks(im) : ch = ChainOf(im, c)
      BY ChainStep
  <1>3. ch \in Seq(Numbers(im)) /\ Len(ch) \in Nat
      BY LenProperties DEF Walks
  <1>4. PICK n \in Nat : n = Len(ch) * w
      BY <1>3
  <1> DEFINE e(i) == <<ch[((i - 1) \div w) + 1], (i - 1) % w>>
             t == [i \in 1..n |-> e(i)]
  <1>5. ASSUME NEW i \in 1..n PROVE e(i) \in Nat \X Int
    <2>1. i - 1 \in Nat /\ i - 1 < Len(ch) * w
        BY <1>4
    <2>2. (i - 1) \div w \in Nat /\ (i - 1) % w \in Int
      <3>1. PICK j \in Nat : j = i - 1
          BY <2>1
      <3>2. j \div w \in Nat /\ j % w \in 0..(w - 1)
          BY Places
      <3> QED
          BY <3>1, <3>2
    <2>3. (i - 1) \div w < Len(ch)
        BY <1>3, <2>1, DivBelow
    <2>4. ((i - 1) \div w) + 1 \in 1..Len(ch)
        BY <1>3, <2>2, <2>3
    <2>5. ch[((i - 1) \div w) + 1] \in Numbers(im)
        BY <1>3, <2>4, ElementOfSeq
    <2>6. ch[((i - 1) \div w) + 1] \in Nat
        BY <2>5, Links
    <2> QED
        BY <2>2, <2>6
  <1>6. t \in Units /\ Len(t) = n
    <2> HIDE DEF e
    <2>1. \A i \in 1..n : e(i) \in Nat \X Int
        BY <1>5
    <2>2. PICK V : V = Nat \X Int
        OBVIOUS
    <2>3. t \in Seq(V)
        BY <2>1, <2>2
    <2>4. Len(t) = n
        OBVIOUS
    <2> QED
        BY <2>2, <2>3, <2>4 DEF Units
  <1>7. UnitsOf(im, c) = t
      BY <1>1, <1>2, <1>4 DEF UnitsOf
  <1>8. \A i \in 1..n : t[i] = e(i)
      OBVIOUS
  <1> HIDE DEF t
  <1> QED
      BY <1>1, <1>2, <1>4, <1>6, <1>7, <1>8

\* The units of the first cluster come first.
LEMMA UnitsStep ==
    ASSUME NEW im \in Images, NEW c \in Numbers(im)
    PROVE  /\ FirstUnits(c) \in Units /\ Len(FirstUnits(c)) = ClusterUnits
           /\ UnitsFrom(im, LinkOf(im, c)) \in Units
           /\ UnitsOf(im, c) = FirstUnits(c) \o UnitsFrom(im, LinkOf(im, c))
  <1> DEFINE l == LinkOf(im, c)
  <1>1. PICK w \in Nat \ {0} : w = ClusterUnits
      BY ClusterUnitsPositive
  <1>2. c \in Nat /\ l \in Nat /\ (l < EndMark => l \in Numbers(im))
      BY Links DEF Numbers
  <1>3. PICK a : a = FirstUnits(c)
      OBVIOUS
  <1>4. a \in Units /\ Len(a) = w /\ \A i \in 1..w : a[i] = <<c, i - 1>>
      BY <1>1, <1>2, <1>3 DEF FirstUnits, Units
  <1>5. PICK b : b = UnitsFrom(im, l)
      OBVIOUS
  <1>6. b \in Units
    <2>1. <<>> \in Units
        BY EmptySeq DEF Units
    <2>2. CASE l >= EndMark
        BY <1>5, <2>1, <2>2 DEF UnitsFrom
    <2>3. CASE ~(l >= EndMark)
        BY <1>2, <1>5, <2>3, UnitsAre, Marks DEF UnitsFrom
    <2> QED
        BY <2>2, <2>3
  <1>7. PICK s \in Units : s = UnitsOf(im, c)
      BY UnitsAre
  <1>8. PICK ch \in Walks(im) : ch = ChainOf(im, c)
      BY ChainStep
  <1>9. ch \in Seq(Numbers(im)) /\ Len(ch) \in Nat
      BY LenProperties DEF Walks
  <1>10. /\ Len(s) = Len(ch) * w
         /\ \A i \in 1..Len(s) : s[i] = <<ch[((i - 1) \div w) + 1], (i - 1) % w>>
      BY <1>1, <1>7, <1>8, UnitsAre
  <1>11. PICK t \in Units : t = a \o b
      BY <1>4, <1>6, ConcatIs DEF Units
  <1>12. IsConcat(t, a, b)
      BY <1>4, <1>6, <1>11, ConcatIs DEF Units
  <1>13. /\ Len(t) = w + Len(b) /\ Len(b) \in Nat
         /\ \A i \in 1..w : t[i] = a[i]
         /\ \A i \in 1..Len(b) : t[w + i] = b[i]
      BY <1>4, <1>12 DEF IsConcat
  <1>14. CASE l >= EndMark
    <2>1. ch = <<c>> /\ b = <<>>
        BY <1>5, <1>8, <1>14, ChainStep DEF UnitsFrom
    <2>2. Len(s) = w /\ Len(t) = w
      <3>1. Len(ch) = 1 /\ Len(b) = 0
          BY <2>1
      <3>2. 1 * w = w
          OBVIOUS
      <3> QED
          BY <1>10, <1>13, <3>1, <3>2
    <2>3. ASSUME NEW i \in 1..w PROVE s[i] = t[i]
      <3>1. i - 1 \in Nat /\ i - 1 < w
          OBVIOUS
      <3>2. (i - 1) \div w = 0 /\ (i - 1) % w = i - 1
          BY <3>1, Places
      <3>3. s[i] = <<ch[((i - 1) \div w) + 1], (i - 1) % w>>
          BY <1>10, <2>2
      <3>4. ch[1] = c
          BY <2>1
      <3>5. s[i] = <<c, i - 1>>
          BY <3>2, <3>3, <3>4
      <3> QED
          BY <1>4, <1>13, <3>5
    <2>4. s = t
        BY <2>2, <2>3, SameSequence DEF Units
    <2> QED
        BY <1>1, <1>3, <1>4, <1>5, <1>6, <1>7, <1>11, <2>4
  <1>15. CASE ~(l >= EndMark)
    <2>1. l < EndMark /\ l \in Numbers(im)
        BY <1>2, <1>15, Marks
    <2>2. PICK d \in Walks(im) : d = ChainOf(im, l)
        BY <2>1, ChainStep
    <2>3. d \in Seq(Numbers(im)) /\ Len(d) \in Nat
        BY LenProperties DEF Walks
    <2>4. ch = <<c>> \o d
        BY <1>8, <2>1, <2>2, ChainStep
    <2>5. Len(ch) = 1 + Len(d) /\ ch[1] = c /\ \A i \in 1..Len(d) : ch[i + 1] = d[i]
        BY <2>3, <2>4
    <2>6. /\ Len(b) = Len(d) * w
          /\ \A i \in 1..Len(b) : b[i] = <<d[((i - 1) \div w) + 1], (i - 1) % w>>
      <3>1. b = UnitsOf(im, l)
          BY <1>5, <1>15 DEF UnitsFrom
      <3> QED
          BY <1>1, <2>1, <2>2, <3>1, UnitsAre
    <2>7. Len(s) = Len(t)
      <3>1. (1 + Len(d)) * w = w + Len(d) * w
          BY <2>3
      <3> QED
          BY <1>10, <1>13, <2>5, <2>6, <3>1
    <2>8. ASSUME NEW i \in 1..Len(s) PROVE s[i] = t[i]
      <3>1. s[i] = <<ch[((i - 1) \div w) + 1], (i - 1) % w>>
          BY <1>10
      <3>2. CASE i <= w
        <4>1. i - 1 \in Nat /\ i - 1 < w /\ i \in 1..w
            BY <3>2
        <4>2. (i - 1) \div w = 0 /\ (i - 1) % w = i - 1
            BY <4>1, Places
        <4>3. s[i] = <<c, i - 1>>
            BY <2>5, <3>1, <4>2
        <4> QED
            BY <1>4, <1>13, <4>1, <4>3
      <3>3. CASE i > w
        <4>1. Len(t) = w + Len(b) /\ Len(b) \in Nat /\ i \in 1..Len(t)
            BY <1>13, <2>7
        <4>2. i - w \in 1..Len(b) /\ w + (i - w) = i
            BY <3>3, <4>1
        <4>3. PICK j \in 1..Len(b) : j = i - w
            BY <4>2
        <4>4. t[i] = b[j]
            BY <1>13, <4>2, <4>3
        <4>5. b[j] = <<d[((j - 1) \div w) + 1], (j - 1) % w>>
            BY <2>6
        <4>6. j - 1 \in Nat /\ i - 1 = w + (j - 1)
            BY <4>1, <4>3
        <4>7. /\ (i - 1) \div w = ((j - 1) \div w) + 1 /\ (i - 1) % w = (j - 1) % w
              /\ (j - 1) \div w \in Nat
            BY <4>6, Places
        <4>8. (j - 1) \div w < Len(d)
          <5>1. j - 1 < Len(d) * w
              BY <2>6, <4>1, <4>6
          <5> QED
              BY <2>3, <4>6, <5>1, DivBelow
        <4>9. PICK q \in Nat : q = (j - 1) \div w
            BY <4>7
        <4>10. ch[q + 1 + 1] = d[q + 1]
          <5>1. q + 1 \in 1..Len(d)
              BY <2>3, <4>8, <4>9
          <5> QED
              BY <2>5, <5>1
        <4> QED
            BY <3>1, <4>4, <4>5, <4>7, <4>9, <4>10
      <3> QED
          BY <3>2, <3>3
    <2>9. s = t
        BY <2>7, <2>8, SameSequence DEF Units
    <2> QED
        BY <1>1, <1>3, <1>4, <1>5, <1>6, <1>7, <1>11, <2>9
  <1> QED
      BY <1>14, <1>15

\* What is left to read: n units from offset o of the chain that begins with c.
Rest(im, c, o, n) == Cut(UnitsFrom(im, c), o, n)

\* The rest is a part of the chain; there is none behind its end.
LEMMA RestIs ==
    ASSUME NEW im \in Images, NEW c, c \in Numbers(im) \/ (c \in Nat /\ c >= EndMark),
           NEW o \in Nat, NEW n \in Nat
    PROVE  /\ Rest(im, c, o, n) \in Units
           /\ c >= EndMark \/ n = 0 => Rest(im, c, o, n) = <<>>
  <1>1. PICK s : s = UnitsFrom(im, c)
      OBVIOUS
  <1>2. s \in Units /\ (c >= EndMark => s = <<>>)
    <2>1. <<>> \in Units
        BY EmptySeq DEF Units
    <2>2. CASE c >= EndMark
        BY <1>1, <2>1, <2>2 DEF UnitsFrom
    <2>3. CASE ~(c >= EndMark)
      <3>1. c \in Numbers(im)
          BY <2>3
      <3> QED
          BY <1>1, <2>3, <3>1, UnitsAre DEF UnitsFrom
    <2> QED
        BY <2>2, <2>3
  <1>3. PICK x : x = Cut(s, o, n)
      OBVIOUS
  <1>4. x \in Units /\ IsCut(x, s, o, n)
      BY <1>2, <1>3, CutIs DEF Units
  <1>5. ASSUME c >= EndMark \/ n = 0 PROVE x = <<>>
    <2>1. Len(x) = 0
      <3>1. CASE n = 0
          BY <1>4, <3>1 DEF IsCut, IsSize
      <3>2. CASE c >= EndMark
        <4>1. Len(s) = 0
            BY <1>2, <3>2
        <4> QED
            BY <1>4, <4>1 DEF IsCut, IsSize
      <3> QED
          BY <1>5, <3>1, <3>2
    <2> QED
        BY <1>4, <2>1, EmptySeq DEF Units
  <1> QED
      BY <1>1, <1>3, <1>4, <1>5 DEF Rest

\* A cluster is skipped.
LEMMA RestSkip ==
    ASSUME NEW im \in Images, NEW c \in Numbers(im), NEW o \in Nat, NEW n \in Nat,
           o >= ClusterUnits
    PROVE  Rest(im, c, o, n) = Rest(im, LinkOf(im, c), o - ClusterUnits, n)
  <1>1. UnitsFrom(im, c) = UnitsOf(im, c)
      BY Links, Marks DEF UnitsFrom
  <1>2. PICK a : a = FirstUnits(c)
      OBVIOUS
  <1>3. PICK b : b = UnitsFrom(im, LinkOf(im, c))
      OBVIOUS
  <1>4. a \in Units /\ Len(a) = ClusterUnits /\ b \in Units /\ UnitsFrom(im, c) = a \o b
      BY <1>1, <1>2, <1>3, UnitsStep
  <1>5. Cut(a \o b, o, n) = Cut(b, o - Len(a), n)
    <2>1. PICK S : S = Nat \X Int
        OBVIOUS
    <2>2. a \in Seq(S) /\ b \in Seq(S) /\ o >= Len(a)
        BY <1>4, <2>1 DEF Units
    <2> QED
        BY <2>2, CutBehind
  <1> QED
      BY <1>3, <1>4, <1>5 DEF Rest

\* A part of a cluster, up to its end or to the end of the range.
PartOf(c, o, d) == [i \in 1..d |-> <<c, o + i - 1>>]

\* The range begins with the part of the cluster and goes on in the next one.
LEMMA RestCopy ==
    ASSUME NEW im \in Images, NEW c \in Numbers(im), NEW o \in Nat, NEW n \in Nat,
           o < ClusterUnits, NEW d \in Nat, IsSize(d, ClusterUnits, o, n)
    PROVE  Rest(im, c, o, n)
           = PartOf(c, o, d) \o Rest(im, LinkOf(im, c), 0, n - d)
  <1>1. UnitsFrom(im, c) = UnitsOf(im, c)
      BY Links, Marks DEF UnitsFrom
  <1>2. PICK a : a = FirstUnits(c)
      OBVIOUS
  <1>3. PICK b : b = UnitsFrom(im, LinkOf(im, c))
      OBVIOUS
  <1>4. a \in Units /\ Len(a) = ClusterUnits /\ b \in Units /\ UnitsFrom(im, c) = a \o b
      BY <1>1, <1>2, <1>3, UnitsStep
  <1>5. Cut(a \o b, o, n) = [i \in 1..d |-> a[o + i]] \o Cut(b, 0, n - d)
    <2>1. PICK S : S = Nat \X Int
        OBVIOUS
    <2>2. a \in Seq(S) /\ b \in Seq(S) /\ o < Len(a) /\ IsSize(d, Len(a), o, n)
        BY <1>4, <2>1 DEF Units
    <2> QED
        BY <2>2, CutWithin
  <1>6. [i \in 1..d |-> a[o + i]] = PartOf(c, o, d)
    <2>1. ASSUME NEW i \in 1..d PROVE a[o + i] = <<c, o + i - 1>>
      <3>1. o + i \in 1..ClusterUnits
          BY ClusterUnitsPositive DEF IsSize
      <3> QED
          BY <1>2, <3>1 DEF FirstUnits
    <2> QED
        BY <2>1 DEF PartOf
  <1> QED
      BY <1>3, <1>4, <1>5, <1>6 DEF Rest

-----------------------------------------------------------------------------
(***************************************************************************)
(* The inductive invariant.                                                *)
(***************************************************************************)
IsEnd(n) == n \in Nat /\ n >= EndMark

Requests ==
    [op : {"none", "read", "find"}, cluster : Nat, next : Nat, offset : Nat, size : Nat,
     path : Seq(Seq(Nat))]

\* The requests, and what each place in the code knows of the one it works on.
ReqInv ==
    /\ req \in Requests
    /\ want = [file |-> want.file, listed |-> want.listed, data |-> want.data]
    /\ req.cluster \in Numbers(image) \/ IsEnd(req.cluster)
    /\ req.next \in Numbers(image) \/ IsEnd(req.next)
    /\ pc \in {"ready", "failed"} => req = Idle
    /\ pc \in {"loop", "data", "fat"} => req.op \in {"read", "find"}
    /\ pc = "copy" => req.op = "read"
    /\ pc = "scan" => req.op = "find"
    /\ pc \in {"data", "copy", "fat", "scan"} => req.cluster \in Numbers(image)
    /\ pc \in {"data", "copy"} /\ req.op = "read" => req.offset < ClusterUnits
    /\ pc \in {"data", "fat", "scan"} /\ req.op = "find" => Searches

\* The windows.  While a cluster is loaded its sectors are those that are
\* there already.
WindowInv ==
    /\ pc # "failed" => fatWindow = fatSector
    /\ pc # "failed" /\ sector = 0 /\ dataCluster # -1 =>
            \A s \in SectorIdx : dataWindow[s] = dataCluster
    /\ sector > 0 => pc = "data" /\ \A s \in 0..(sector - 1) : dataWindow[s] = req.cluster
    /\ pc = "copy" \/ pc = "scan" \/ (pc = "fat" /\ req.op = "find") => dataCluster = req.cluster

\* What ReadAt has copied, followed by what is left, is the answer, unless the
\* upper bits of a table entry hid the rest of the chain.
ReadInv ==
    /\ acc \in Units /\ want.data \in Units
    /\ pc = "ready" => ReadMatches
    /\ req.op = "find" => acc = <<>> /\ want.data = <<>>
    /\ req.op = "read" /\ pc \in {"loop", "data", "copy"} =>
        \/ want.data = acc \o Rest(image, req.cluster, req.offset, req.size)
        \/ ~UpperBitsClear /\ IsEnd(req.cluster) /\ IsPrefix(acc, want.data)
    /\ req.op = "read" /\ pc = "fat" =>
        want.data = acc \o Rest(image, LinkOf(image, req.cluster), req.offset, req.size)

Inv == TypeOK /\ ReqInv /\ WindowInv /\ ReadInv

-----------------------------------------------------------------------------
(***************************************************************************)
(* It holds at first.                                                      *)
(***************************************************************************)
LEMMA InitInv == Init => Inv
  <1> SUFFICES ASSUME Init PROVE Inv
      OBVIOUS
  <1>1. 0 \in SectorIdx
    <2>1. SectorsPerCluster \in Nat \ {0}
        BY FatFsAssumption
    <2> QED
        BY <2>1 DEF SectorIdx
  <1> USE DEF Init
  <1>10. <<>> \in Seq(UnitsIn(image))
    <2>1. PICK S : S = UnitsIn(image)
        OBVIOUS
    <2> QED
        BY <2>1
  <1>2. TypeOK
      BY <1>1, <1>10 DEF TypeOK, Idle, NoFile, FatFile, Nothing
  <1>3. <<>> \in Seq(Seq(Nat))
    <2>1. PICK S : S = Seq(Nat)
        OBVIOUS
    <2> QED
        BY <2>1
  <1>4. req \in Requests
      BY <1>3 DEF Requests, Idle
  <1>5. ReqInv
      BY <1>4 DEF ReqInv, Idle, Numbers
  <1>6. WindowInv
      BY DEF WindowInv
  <1>7. <<>> \in Units
      BY EmptySeq DEF Units
  <1>8. IsPrefix(<<>>, <<>>)
      BY DEF IsPrefix
  <1>9. ReadInv
      BY <1>7, <1>8 DEF ReadInv, ReadMatches, Idle
  <1> QED
      BY <1>2, <1>5, <1>6, <1>9 DEF Inv

(***************************************************************************)
(* What the steps have in common.                                          *)
(***************************************************************************)

\* The image never changes.
LEMMA ImageStays == ASSUME [Next]_vars PROVE image' = image
  BY DEF Next, vars, CallFindByPath, CallReadAt, Proceed, ReadEnds, SkipCluster, NeedCluster,
         FindEnds, DataCached, LoadSector, ReadFatIndex, Copy, ScanHit, ScanNext,
         LoadSectorFails, LoadFatSectorFails, NoCluster, Fail

\* What the window says about a cluster: its link, or the end of the chain
\* where the upper bits are set.
LEMMA NextIs ==
    ASSUME NEW im \in Images, NEW c \in Numbers(im)
    PROVE  /\ Value(im.fat[c]) \in Numbers(im) \/ IsEnd(Value(im.fat[c]))
           /\ im.fat[c].high = 0 => Value(im.fat[c]) = LinkOf(im, c)
           /\ im.fat[c].high # 0 => IsEnd(Value(im.fat[c]))
  <1> DEFINE h == im.fat[c].high
  <1>1. h \in Nat
      BY Links, FatFsAssumption DEF ImageOK
  <1>2. CASE h = 0
    <2>1. Value(im.fat[c]) = LinkOf(im, c)
        BY <1>2 DEF Value, LinkOf
    <2>2. LinkOf(im, c) \in Numbers(im) \/ IsEnd(LinkOf(im, c))
        BY Links, Marks DEF Numbers, IsEnd
    <2> QED
        BY <1>2, <2>1, <2>2
  <1>3. CASE h # 0
    <2>1. Value(im.fat[c]) = h * EOC
        BY <1>1, <1>3 DEF Value
    <2>2. ASSUME NEW a \in Nat \ {0}, NEW b \in Nat PROVE a * b \in Nat /\ a * b >= b
        OBVIOUS
    <2>3. h * EOC \in Nat /\ h * EOC >= EOC
        BY <1>1, <1>3, <2>2, Marks
    <2>4. IsEnd(h * EOC)
        BY <2>3, Marks DEF IsEnd
    <2> QED
        BY <1>3, <2>1, <2>4
  <1> QED
      BY <1>2, <1>3

\* ReadFatIndex asks the sector that has the link.
LEMMA NextRead ==
    ASSUME Inv, ReadFatIndex
    PROVE  /\ req.cluster \in Numbers(image) /\ GotNext(Value(image.fat[req.cluster]))
           /\ fatWindow' = fatSector' /\ fatSector' = SectorOf(req.cluster)
  <1>1. pc = "fat" /\ fatWindow = fatSector /\ req.cluster \in Numbers(image)
      BY DEF Inv, ReadFatIndex, ReqInv, WindowInv
  <1>2. fatWindow' = SectorOf(req.cluster) /\ fatSector' = SectorOf(req.cluster)
      BY <1>1 DEF ReadFatIndex
  <1>3. NextOf(req.cluster) = {Value(image.fat[req.cluster])}
      BY <1>2 DEF NextOf
  <1> QED
      BY <1>1, <1>2, <1>3 DEF ReadFatIndex

\* The clusters of an image have numbers from 2 on.
LEMMA ClusterRange ==
    ASSUME NEW im \in Images, NEW c \in ClustersOf(im)
    PROVE  c \in Nat /\ c >= 2 /\ c < EndMark
  <1>1. c \in 2..(EndMark - 1)
      BY FatFsAssumption DEF ImageOK
  <1> QED
      BY <1>1, Marks

\* A cluster that is in the window exists.
LEMMA Windowed ==
    ASSUME Inv, dataCluster = req.cluster
    PROVE  req.cluster \in ClustersOf(image)
  BY Marks DEF Inv, TypeOK, ReqInv, Requests

\* The smallest element of a set of natural numbers is one of them.
LEMMA MinIsIn ==
    ASSUME NEW T, T \subseteq Nat, T # {}
    PROVE  Min(T) \in T /\ \A y \in T : Min(T) <= y
  <1>1. \E x \in T : \A y \in T : x =< y
      BY LeastNatural
  <1> QED
      BY <1>1, Zenon DEF Min

\* The entry where FindInDirectory stops is one of the image.
LEMMA SlotFound ==
    ASSUME Inv, pc = "scan", NEW junk \in BOOLEAN, Stops(junk) # {}
    PROVE  LET u == Min(Stops(junk))
           IN  /\ u \in Stops(junk) /\ u \in 0..(ClusterUnits - 1)
               /\ \A v \in Stops(junk) : u <= v
               /\ SlotInWindow(u) = image.slots[req.cluster][u]
               /\ SlotInWindow(u).cluster \in Numbers(image) /\ SlotInWindow(u).size \in Nat
  <1> DEFINE u == Min(Stops(junk))
  <1>1. u \in Stops(junk) /\ \A v \in Stops(junk) : u <= v
    <2>1. Stops(junk) \subseteq Nat
        BY ClusterUnitsPositive DEF Stops
    <2> QED
        BY <2>1, MinIsIn
  <1>2. u \in 0..(ClusterUnits - 1)
      BY <1>1 DEF Stops
  <1> HIDE DEF u
  <1>3. dataCluster = req.cluster
      BY DEF Inv, WindowInv
  <1>4. req.cluster \in ClustersOf(image) /\ req.cluster # 0
    <2>1. req.cluster \in ClustersOf(image) /\ image \in Images
        BY <1>3, Windowed DEF Inv, TypeOK
    <2> QED
        BY <2>1, ClusterRange
  <1>5. u \div UnitsPerSector \in SectorIdx
    <2>1. SectorsPerCluster \in Nat \ {0} /\ UnitsPerSector \in Nat \ {0}
        BY FatFsAssumption
    <2>2. u \in Nat /\ u < SectorsPerCluster * UnitsPerSector
        BY <1>2, ClusterUnitsPositive DEF ClusterUnits
    <2>3. u \div UnitsPerSector < SectorsPerCluster
        BY <2>1, <2>2, DivBelow
    <2>4. u \div UnitsPerSector \in Nat
        BY <2>1, <2>2, Places
    <2> QED
        BY <2>1, <2>3, <2>4 DEF SectorIdx
  <1>6. dataWindow[u \div UnitsPerSector] = req.cluster
    <2>1. sector = 0 /\ dataCluster # -1
      <3>1. dataCluster \in Nat
          BY <1>3, <1>4, ClusterRange DEF Inv, TypeOK
      <3>2. sector \in Nat /\ ~(sector > 0)
          BY DEF Inv, WindowInv, TypeOK, SectorIdx
      <3> QED
          BY <3>1, <3>2
    <2> QED
        BY <1>3, <1>5, <2>1 DEF Inv, WindowInv
  <1>7. SlotInWindow(u) = image.slots[req.cluster][u]
      BY <1>4, <1>6 DEF SlotInWindow, UnitInWindow, Nothing
  <1>8. SlotInWindow(u).cluster \in Numbers(image) /\ SlotInWindow(u).size \in Nat
      BY <1>2, <1>4, <1>7, FatFsAssumption DEF Inv, TypeOK, ImageOK, Numbers
  <1> QED
      BY <1>1, <1>2, <1>7, <1>8 DEF u

\* How much Copy takes.
LEMMA CopySize ==
    ASSUME Inv, Copy
    PROVE  LET diff == Min({ClusterUnits - req.offset, req.size})
           IN  /\ diff \in Nat /\ req.size - diff \in Nat
               /\ IsSize(diff, ClusterUnits, req.offset, req.size)
               /\ req.size > diff => diff = ClusterUnits - req.offset
  <1> DEFINE diff == Min({ClusterUnits - req.offset, req.size})
  <1>1. req.offset \in Nat /\ req.size \in Nat /\ req.offset < ClusterUnits
      BY DEF Inv, ReqInv, Requests, Copy
  <1>2. PICK w \in Nat : w = ClusterUnits
      BY ClusterUnitsPositive
  <1>3. diff = IF w - req.offset <= req.size THEN w - req.offset ELSE req.size
      BY <1>1, <1>2, MinOfTwo
  <1> HIDE DEF diff
  <1>4. diff \in Nat /\ diff <= req.size /\ diff <= w - req.offset
        /\ (diff = req.size \/ diff = w - req.offset)
      BY <1>1, <1>2, <1>3
  <1>5. IsSize(diff, w, req.offset, req.size)
      BY <1>1, <1>2, <1>4 DEF IsSize
  <1>6. req.size - diff \in Nat /\ (req.size > diff => diff = w - req.offset)
      BY <1>1, <1>4
  <1> QED
      BY <1>2, <1>4, <1>5, <1>6 DEF diff

\* It copies units of the cluster, which are all in the window.
LEMMA CopyGot ==
    ASSUME Inv, Copy
    PROVE  LET diff == Min({ClusterUnits - req.offset, req.size})
           IN  /\ req.cluster \in ClustersOf(image)
               /\ \A i \in 1..diff : req.offset + i - 1 \in 0..(ClusterUnits - 1)
               /\ [i \in 1..diff |-> UnitInWindow(req.offset + i - 1)]
                    = [i \in 1..diff |-> <<req.cluster, req.offset + i - 1>>]
  <1> DEFINE diff == Min({ClusterUnits - req.offset, req.size})
             c == req.cluster
             o == req.offset
  <1>1. PICK w \in Nat \ {0} : w = ClusterUnits
      BY ClusterUnitsPositive
  <1>2. diff \in Nat /\ IsSize(diff, w, o, req.size)
      BY <1>1, CopySize
  <1>3. o \in Nat /\ o < w /\ req.size \in Nat /\ dataCluster = c /\ pc = "copy"
      BY <1>1 DEF Inv, ReqInv, Requests, WindowInv, Copy
  <1>4. c \in ClustersOf(image)
      BY <1>3, Windowed
  <1>5. \A s \in SectorIdx : dataWindow[s] = c
    <2>1. sector = 0
        BY <1>3 DEF Inv, TypeOK, WindowInv, SectorIdx
    <2>2. dataCluster # -1
        BY <1>3, <1>4, ClusterRange DEF Inv, TypeOK
    <2> QED
        BY <1>3, <2>1, <2>2 DEF Inv, WindowInv
  <1> HIDE DEF diff
  <1>6. ASSUME NEW i \in 1..diff
        PROVE  o + i - 1 \in 0..(w - 1) /\ UnitInWindow(o + i - 1) = <<c, o + i - 1>>
    <2>1. SectorsPerCluster \in Nat \ {0} /\ UnitsPerSector \in Nat \ {0}
        BY FatFsAssumption
    <2>2. PICK u \in Nat : u = o + i - 1 /\ u < w
      <3>1. o + i - 1 \in Nat /\ o + i - 1 < w
          BY <1>2, <1>3 DEF IsSize
      <3> QED
          BY <3>1
    <2>3. u \div UnitsPerSector < SectorsPerCluster
        BY <1>1, <2>1, <2>2, DivBelow DEF ClusterUnits
    <2>4. u \div UnitsPerSector \in Nat
        BY <2>1, Places
    <2>5. u \div UnitsPerSector \in SectorIdx
        BY <2>1, <2>3, <2>4 DEF SectorIdx
    <2>6. UnitInWindow(u) = <<c, u>>
        BY <1>5, <2>5 DEF UnitInWindow
    <2> QED
        BY <1>1, <2>2, <2>6
  <1> QED
      BY <1>1, <1>4, <1>6 DEF diff

(***************************************************************************)
(* The types.                                                              *)
(***************************************************************************)
LEMMA TypeStep == ASSUME Inv, [Next]_vars PROVE TypeOK'
  <1> USE DEF Inv
  <1>1. image' = image
      BY ImageStays
  <1>2. ClustersOf(image)' = ClustersOf(image) /\ TableSectors' = TableSectors
      BY <1>1 DEF ClustersOf, TableSectors
  <1>21. UnitsIn(image)' = UnitsIn(image)
      BY <1>2 DEF UnitsIn
  <1>22. acc \in Seq(UnitsIn(image)) /\ <<>> \in Seq(UnitsIn(image))
    <2>1. PICK S : S = UnitsIn(image)
        OBVIOUS
    <2> QED
        BY <2>1 DEF TypeOK
  <1>3. 0 \in SectorIdx /\ \A s \in SectorIdx : s \in Nat
    <2>1. SectorsPerCluster \in Nat \ {0}
        BY FatFsAssumption
    <2> QED
        BY <2>1 DEF SectorIdx
  <1>4. image \in Images /\ Root \in ClustersOf(image)
      BY FatFsAssumption DEF TypeOK, ImageOK
  <1> USE DEF TypeOK
  <1>5. ASSUME UNCHANGED vars PROVE TypeOK'
      BY <1>1, <1>2, <1>21, <1>22, <1>5 DEF vars
  <1>6. ASSUME NEW path \in Paths, CallFindByPath(path) PROVE TypeOK'
      BY <1>1, <1>2, <1>21, <1>22, <1>4, <1>6 DEF CallFindByPath, windows, Idle, RootDir, FatFile
  <1>7. ASSUME NEW offset \in Offsets, NEW size \in Sizes, CallReadAt(offset, size) PROVE TypeOK'
    <2>1. offset \in Nat /\ size \in Nat /\ file.size \in Nat
        BY FatFsAssumption
    <2>2. CASE file.size > 0 /\ offset >= file.size
        BY <1>1, <1>2, <1>21, <1>22, <1>7, <2>2 DEF CallReadAt, windows
    <2>3. CASE ~(file.size > 0 /\ offset >= file.size)
      <3> DEFINE n == IF file.size > 0 THEN Min({size, file.size - offset}) ELSE size
      <3>1. n \in Nat
          BY <2>1, <2>3, MinOfTwo
      <3> HIDE DEF n
      <3>2. /\ pc' = "loop"
            /\ req' = [Idle EXCEPT !.op = "read", !.cluster = file.cluster, !.offset = offset,
                                   !.size = n]
          BY <1>7, <2>3 DEF CallReadAt, n
      <3>3. req'.op = "read" /\ req'.offset = offset /\ req'.size = n
          BY <3>2 DEF Idle
      <3> QED
          BY <1>1, <1>2, <1>21, <1>22, <1>7, <2>1, <3>1, <3>2, <3>3 DEF CallReadAt, windows
    <2> QED
        BY <2>2, <2>3
  <1>8. ASSUME ReadEnds PROVE TypeOK'
      BY <1>1, <1>2, <1>21, <1>22, <1>3, <1>8 DEF ReadEnds, Return, Idle, windows
  <1>9. ASSUME SkipCluster PROVE TypeOK'
    <2>1. req'.op = req.op /\ req'.offset = req.offset - ClusterUnits /\ req'.size = req.size
        BY <1>9 DEF SkipCluster, ReqInv, Requests
    <2>2. req.offset - ClusterUnits \in Nat
        BY <1>9, ClusterUnitsPositive DEF SkipCluster, Skips
    <2> QED
        BY <1>1, <1>2, <1>21, <1>22, <1>9, <2>1, <2>2 DEF SkipCluster, windows
  <1>10. ASSUME NeedCluster PROVE TypeOK'
      BY <1>1, <1>2, <1>21, <1>22, <1>10 DEF NeedCluster, windows
  <1>11. ASSUME FindEnds PROVE TypeOK'
      BY <1>1, <1>2, <1>21, <1>22, <1>3, <1>11 DEF FindEnds, Return, Idle, windows, NoFile, FatFile
  <1>12. ASSUME DataCached PROVE TypeOK'
    <2>1. pc' = "copy" => req'.offset < ClusterUnits'
        BY <1>12 DEF DataCached, DataReady, ReqInv
    <2> QED
        BY <1>1, <1>2, <1>21, <1>22, <1>12, <2>1 DEF DataCached, DataReady, windows
  <1>13. ASSUME LoadSector PROVE TypeOK'
    <2>1. req.cluster \in ClustersOf(image)
      <3>1. req.cluster \in Numbers(image) /\ req.cluster >= 2
          BY <1>13 DEF LoadSector, Loading, ReqInv
      <3> QED
          BY <3>1 DEF Numbers
    <2>2. dataWindow' \in [SectorIdx -> ClustersOf(image) \cup {Nothing}]
        BY <1>13, <2>1 DEF LoadSector
    <2>3. dataCluster' \in ClustersOf(image) \cup {-1}
        BY <1>13, <2>1 DEF LoadSector
    <2>4. sector' \in SectorIdx
        BY <1>3, <1>13, FatFsAssumption DEF LoadSector, SectorIdx
    <2>5. pc' \in {"ready", "loop", "data", "copy", "fat", "scan", "failed"}
        BY <1>13 DEF LoadSector, DataReady
    <2>6. pc' = "copy" => req'.offset < ClusterUnits'
        BY <1>13 DEF LoadSector, Loading, DataReady, ReqInv
    <2> QED
        BY <1>1, <1>2, <1>21, <1>22, <1>13, <2>2, <2>3, <2>4, <2>5, <2>6 DEF LoadSector
  <1>14. ASSUME ReadFatIndex PROVE TypeOK'
    <2>1. /\ req.cluster \in Numbers(image) /\ GotNext(Value(image.fat[req.cluster]))
          /\ fatWindow' = fatSector' /\ fatSector' = SectorOf(req.cluster)
        BY <1>14, NextRead
    <2>2. SectorOf(req.cluster) \in TableSectors
        BY <2>1 DEF TableSectors, Numbers
    <2>3. req'.op = req.op /\ req'.offset = req.offset /\ req'.size = req.size
        BY <2>1 DEF GotNext, ReqInv, Requests
    <2>4. pc' \in {"loop", "scan"}
        BY <2>1 DEF GotNext
    <2> QED
        BY <1>1, <1>2, <1>21, <1>22, <1>14, <2>1, <2>2, <2>3, <2>4 DEF ReadFatIndex
  <1>15. ASSUME Copy PROVE TypeOK'
    <2> DEFINE diff == Min({ClusterUnits - req.offset, req.size})
    <2>1. req.size - diff \in Nat
        BY <1>15, CopySize
    <2> HIDE DEF diff
    <2>2. /\ req' = [req EXCEPT !.offset = 0, !.size = @ - diff]
          /\ pc' = IF req.size > diff THEN "fat" ELSE "loop"
        BY <1>15 DEF Copy, diff
    <2>3. req'.op = req.op /\ req'.offset = 0 /\ req'.size = req.size - diff
        BY <2>2 DEF ReqInv, Requests
    <2>4. pc' \in {"ready", "loop", "data", "copy", "fat", "scan", "failed"}
        BY <2>2
    <2>5. UNCHANGED <<fatSector, fatWindow, dataCluster, dataWindow, sector, file>>
        BY <1>15 DEF Copy, windows
    <2>6. acc' \in Seq(UnitsIn(image))
      <3> DEFINE o == req.offset
                 c == req.cluster
                 got == [i \in 1..diff |-> UnitInWindow(o + i - 1)]
      <3>1. acc' = acc \o got
          BY <1>15 DEF Copy, diff
      <3>2. /\ got = [i \in 1..diff |-> <<c, o + i - 1>>] /\ c \in ClustersOf(image)
            /\ \A i \in 1..diff : o + i - 1 \in 0..(ClusterUnits - 1)
          BY <1>15, CopyGot DEF diff
      <3>3. diff \in Nat
          BY <1>15, CopySize DEF diff
      <3>4. got \in [1..diff -> UnitsIn(image)]
          BY <3>2 DEF UnitsIn
      <3> HIDE DEF got
      <3>5. PICK S : S = UnitsIn(image)
          OBVIOUS
      <3>6. got \in Seq(S) /\ acc \in Seq(S)
          BY <1>22, <3>3, <3>4, <3>5, SeqDef
      <3> QED
          BY <3>1, <3>5, <3>6, ConcatProperties
    <2>7. pc' # "copy"
        BY <2>2
    <2> QED
        BY <1>1, <1>2, <1>21, <2>1, <2>3, <2>4, <2>5, <2>6, <2>7
  <1>16. ASSUME ScanHit PROVE TypeOK'
    <2>1. PICK junk \in BOOLEAN : Stops(junk) # {} /\ StopAt(SlotInWindow(Min(Stops(junk))))
        BY <1>16 DEF ScanHit
    <2>2. PICK s : s = SlotInWindow(Min(Stops(junk)))
        OBVIOUS
    <2>3. s.cluster \in Numbers(image) /\ s.size \in Nat
        BY <1>16, <2>1, <2>2, SlotFound DEF ScanHit
    <2>4. StopAt(s)
        BY <2>1, <2>2
    <2>5. CASE IsLastInList(s)
      <3>1. file' = NoFile /\ pc' = "ready" /\ req' = Idle /\ sector' = 0
          BY <2>4, <2>5 DEF StopAt, Return
      <3>2. file'.size = 0 /\ file'.dir = FALSE
          BY <3>1 DEF NoFile, FatFile
      <3>3. req'.op = "none" /\ req'.offset = 0 /\ req'.size = 0
          BY <3>1 DEF Idle
      <3> QED
          BY <1>1, <1>2, <1>21, <1>22, <1>3, <1>16, <3>1, <3>2, <3>3 DEF ScanHit, windows
    <2>6. CASE ~IsLastInList(s)
      <3>1. /\ file' = FatFile(s.cluster, s.size, s.flag = "dir")
            /\ req' = [req EXCEPT !.cluster = s.cluster, !.path = Tail(@)]
            /\ pc' = "loop" /\ sector' = sector
          BY <2>4, <2>6 DEF StopAt
      <3>2. req'.op = req.op /\ req'.offset = req.offset /\ req'.size = req.size
          BY <3>1 DEF ReqInv, Requests
      <3>3. file'.cluster \in ClustersOf(image) \cup {0} /\ file'.size \in Nat /\ file'.dir \in BOOLEAN
          BY <2>3, <3>1 DEF FatFile, Numbers
      <3> QED
          BY <1>1, <1>2, <1>21, <1>22, <1>16, <3>1, <3>2, <3>3 DEF ScanHit, windows
    <2> QED
        BY <2>5, <2>6
  <1>17. ASSUME ScanNext PROVE TypeOK'
    <2>1. req'.op = req.op /\ req'.offset = req.offset /\ req'.size = req.size
        BY <1>17 DEF ScanNext, ReqInv, Requests
    <2> QED
        BY <1>1, <1>2, <1>21, <1>22, <1>17, <2>1 DEF ScanNext, windows
  <1>18. ASSUME LoadSectorFails PROVE TypeOK'
    <2>1. dataWindow' \in [SectorIdx -> ClustersOf(image) \cup {Nothing}]
        BY <1>18 DEF LoadSectorFails
    <2> QED
        BY <1>1, <1>2, <1>21, <1>22, <1>3, <1>18, <2>1 DEF LoadSectorFails, Fail, Idle
  <1>19. ASSUME LoadFatSectorFails PROVE TypeOK'
      BY <1>1, <1>2, <1>21, <1>22, <1>3, <1>19 DEF LoadFatSectorFails, Fail, Idle
  <1>20. ASSUME NoCluster PROVE TypeOK'
      BY <1>1, <1>2, <1>21, <1>22, <1>3, <1>20 DEF NoCluster, Fail, Idle, windows
  <1> QED
      BY <1>5, <1>6, <1>7, <1>8, <1>9, <1>10, <1>11, <1>12, <1>13, <1>14, <1>15, <1>16, <1>17,
         <1>18, <1>19, <1>20 DEF Next, Proceed

(***************************************************************************)
(* The requests.                                                           *)
(***************************************************************************)
LEMMA ReqStep == ASSUME Inv, [Next]_vars PROVE ReqInv'
  <1> USE DEF Inv
  <1>1. image' = image /\ Numbers(image)' = Numbers(image)
      BY ImageStays DEF Numbers, ClustersOf
  <1>2. image \in Images /\ Root \in Numbers(image) /\ 0 \in Numbers(image) /\ Root \in Nat
      BY FatFsAssumption, Marks DEF TypeOK, ImageOK, Numbers
  <1>3. Idle \in Requests /\ Idle.cluster = 0 /\ Idle.next = 0
    <2>1. <<>> \in Seq(Seq(Nat))
      <3>1. PICK S : S = Seq(Nat)
          OBVIOUS
      <3> QED
          BY <3>1
    <2> QED
        BY <2>1 DEF Idle, Requests
  <1>4. ASSUME req' = Idle, pc' \in {"ready", "failed"}, want' = want PROVE ReqInv'
      BY <1>1, <1>2, <1>3, <1>4 DEF ReqInv
  <1>5. ASSUME UNCHANGED vars PROVE ReqInv'
      BY <1>1, <1>5 DEF vars, ReqInv, Searches
  <1>6. ASSUME NEW path \in Paths, CallFindByPath(path) PROVE ReqInv'
    <2>1. path \in Seq(Seq(Nat))
        BY FatFsAssumption
    <2>2. /\ req' = [Idle EXCEPT !.op = "find", !.cluster = Root, !.path = path]
          /\ pc' = "loop"
        BY <1>6 DEF CallFindByPath
    <2>3. req' \in Requests /\ req'.op = "find" /\ req'.cluster = Root /\ req'.next = 0
        BY <1>2, <2>1, <2>2 DEF Idle, Requests
    <2>4. want' = [file |-> want'.file, listed |-> want'.listed, data |-> want'.data]
        BY <1>6 DEF CallFindByPath
    <2> QED
        BY <1>1, <1>2, <2>2, <2>3, <2>4 DEF ReqInv
  <1>7. ASSUME NEW offset \in Offsets, NEW size \in Sizes, CallReadAt(offset, size) PROVE ReqInv'
    <2>1. offset \in Nat /\ size \in Nat /\ file.size \in Nat /\ pc = "ready"
        BY <1>7, FatFsAssumption DEF TypeOK, CallReadAt, MayCall
    <2>2. want' = [file |-> want'.file, listed |-> want'.listed, data |-> want'.data]
        BY <1>7 DEF CallReadAt, ReqInv
    <2>3. CASE file.size > 0 /\ offset >= file.size
      <3>1. pc' = pc /\ req' = req
          BY <1>7, <2>3 DEF CallReadAt
      <3> QED
          BY <1>1, <2>1, <2>2, <3>1 DEF ReqInv
    <2>4. CASE ~(file.size > 0 /\ offset >= file.size)
      <3> DEFINE n == IF file.size > 0 THEN Min({size, file.size - offset}) ELSE size
      <3>1. n \in Nat
          BY <2>1, <2>4, MinOfTwo
      <3> HIDE DEF n
      <3>2. /\ pc' = "loop"
            /\ req' = [Idle EXCEPT !.op = "read", !.cluster = file.cluster, !.offset = offset,
                                   !.size = n]
          BY <1>7, <2>4 DEF CallReadAt, n
      <3>3. file.cluster \in Numbers(image) /\ file.cluster \in Nat
          BY <1>2, <1>7, Links DEF TypeOK, Numbers, CallReadAt
      <3>4. req' \in Requests /\ req'.op = "read" /\ req'.cluster = file.cluster /\ req'.next = 0
          BY <1>3, <2>1, <3>1, <3>2, <3>3 DEF Idle, Requests
      <3> QED
          BY <1>1, <1>2, <2>2, <3>2, <3>3, <3>4 DEF ReqInv
    <2> QED
        BY <2>3, <2>4
  <1>8. ASSUME ReadEnds PROVE ReqInv'
      BY <1>4, <1>8 DEF ReadEnds, Return
  <1>9. ASSUME SkipCluster PROVE ReqInv'
    <2>1. req' = [req EXCEPT !.offset = @ - ClusterUnits] /\ pc' = "fat" /\ req.op = "read"
        BY <1>9 DEF SkipCluster, Skips
    <2>2. req.offset - ClusterUnits \in Nat
        BY <1>9, ClusterUnitsPositive DEF SkipCluster, Skips, TypeOK
    <2>3. /\ req' \in Requests /\ req'.op = req.op /\ req'.cluster = req.cluster
          /\ req'.next = req.next
        BY <2>1, <2>2 DEF ReqInv, Requests
    <2>4. req.cluster \in Numbers(image)
        BY <1>9, Marks DEF SkipCluster, ReqInv, IsEnd
    <2> QED
        BY <1>1, <1>9, <2>1, <2>3, <2>4 DEF ReqInv, SkipCluster
  <1>10. ASSUME NeedCluster PROVE ReqInv'
    <2>1. req.cluster < EndMark /\ pc = "loop" /\ pc' = "data"
        BY <1>10 DEF NeedCluster, Searches
    <2>2. req.cluster \in Numbers(image)
        BY <2>1, Marks DEF ReqInv, IsEnd
    <2>3. req.op = "read" => req.offset < ClusterUnits
        BY <1>10, ClusterUnitsPositive DEF NeedCluster, Skips, TypeOK
    <2>4. req.op = "find" => Searches'
        BY <1>10 DEF NeedCluster, Searches
    <2> QED
        BY <1>1, <1>10, <2>1, <2>2, <2>3, <2>4 DEF ReqInv, NeedCluster
  <1>11. ASSUME FindEnds PROVE ReqInv'
      BY <1>4, <1>11 DEF FindEnds, Return
  <1>12. ASSUME DataCached PROVE ReqInv'
    <2>1. req' = req /\ want' = want /\ file' = file /\ pc = "data"
          /\ pc' = IF req.op = "read" THEN "copy" ELSE "fat"
        BY <1>12 DEF DataCached, DataReady
    <2> QED
        BY <1>1, <2>1 DEF ReqInv, Searches
  <1>13. ASSUME LoadSector PROVE ReqInv'
    <2>1. req' = req /\ want' = want /\ file' = file /\ pc = "data"
          /\ (pc' = pc \/ pc' = IF req.op = "read" THEN "copy" ELSE "fat")
        BY <1>13 DEF LoadSector, DataReady, Loading
    <2> QED
        BY <1>1, <2>1 DEF ReqInv, Searches
  <1>14. ASSUME ReadFatIndex PROVE ReqInv'
    <2> DEFINE n == Value(image.fat[req.cluster])
    <2>1. req.cluster \in Numbers(image) /\ GotNext(n) /\ pc = "fat"
        BY <1>14, NextRead DEF ReadFatIndex
    <2>2. n \in Numbers(image) \/ IsEnd(n)
        BY <1>2, <2>1, NextIs
    <2>3. n \in Nat
        BY <1>2, <2>2, Links DEF IsEnd
    <2>4. want' = want /\ file' = file
        BY <1>14 DEF ReadFatIndex
    <2> HIDE DEF n
    <2>5. CASE req.op = "read"
      <3>1. req' = [req EXCEPT !.cluster = n] /\ pc' = "loop"
          BY <2>1, <2>5 DEF GotNext
      <3>2. req' \in Requests /\ req'.op = req.op /\ req'.cluster = n /\ req'.next = req.next
          BY <2>3, <3>1 DEF ReqInv, Requests
      <3> QED
          BY <1>1, <2>2, <2>4, <2>5, <3>1, <3>2 DEF ReqInv
    <2>6. CASE req.op # "read"
      <3>1. req' = [req EXCEPT !.next = n] /\ pc' = "scan" /\ req.op = "find"
          BY <2>1, <2>6 DEF GotNext, ReqInv
      <3>2. /\ req' \in Requests /\ req'.op = req.op /\ req'.cluster = req.cluster
            /\ req'.next = n /\ req'.path = req.path
          BY <2>3, <3>1 DEF ReqInv, Requests
      <3>3. Searches'
          BY <2>1, <2>4, <3>1, <3>2 DEF ReqInv, Searches
      <3> QED
          BY <1>1, <2>1, <2>2, <2>4, <2>6, <3>1, <3>2, <3>3 DEF ReqInv
    <2> QED
        BY <2>5, <2>6
  <1>15. ASSUME Copy PROVE ReqInv'
    <2> DEFINE diff == Min({ClusterUnits - req.offset, req.size})
    <2>1. req.size - diff \in Nat
        BY <1>15, CopySize
    <2> HIDE DEF diff
    <2>2. /\ req' = [req EXCEPT !.offset = 0, !.size = @ - diff]
          /\ pc' = IF req.size > diff THEN "fat" ELSE "loop"
          /\ pc = "copy" /\ want' = want
        BY <1>15 DEF Copy, diff
    <2>3. /\ req' \in Requests /\ req'.op = req.op /\ req'.cluster = req.cluster
          /\ req'.next = req.next
        BY <2>1, <2>2 DEF ReqInv, Requests
    <2>4. pc' \in {"fat", "loop"} /\ req.op = "read" /\ req.cluster \in Numbers(image)
        BY <2>2 DEF ReqInv
    <2> QED
        BY <1>1, <2>2, <2>3, <2>4 DEF ReqInv
  <1>16. ASSUME ScanHit PROVE ReqInv'
    <2>1. PICK junk \in BOOLEAN : Stops(junk) # {} /\ StopAt(SlotInWindow(Min(Stops(junk))))
        BY <1>16 DEF ScanHit
    <2>2. PICK s : s = SlotInWindow(Min(Stops(junk)))
        OBVIOUS
    <2>3. s.cluster \in Numbers(image) /\ pc = "scan" /\ want' = want
        BY <1>16, <2>1, <2>2, SlotFound DEF ScanHit
    <2>4. StopAt(s)
        BY <2>1, <2>2
    <2>5. CASE IsLastInList(s)
        BY <1>4, <2>3, <2>4, <2>5 DEF StopAt, Return
    <2>6. CASE ~IsLastInList(s)
      <3>1. req' = [req EXCEPT !.cluster = s.cluster, !.path = Tail(@)] /\ pc' = "loop"
          BY <2>4, <2>6 DEF StopAt
      <3>2. Tail(req.path) \in Seq(Seq(Nat))
        <4>1. PICK S : S = Seq(Nat)
            OBVIOUS
        <4>2. req.path \in Seq(S) /\ req.path # <<>>
            BY <2>3, <4>1 DEF ReqInv, Requests, Searches
        <4> QED
            BY <4>1, <4>2, HeadTailProperties
      <3>3. s.cluster \in Nat
          BY <1>2, <2>3, Links
      <3>4. req' \in Requests /\ req'.op = req.op /\ req'.cluster = s.cluster /\ req'.next = req.next
          BY <3>1, <3>2, <3>3 DEF ReqInv, Requests
      <3> QED
          BY <1>1, <2>3, <3>1, <3>4 DEF ReqInv
    <2> QED
        BY <2>5, <2>6
  <1>17. ASSUME ScanNext PROVE ReqInv'
    <2>1. req' = [req EXCEPT !.cluster = req.next] /\ pc' = "loop" /\ pc = "scan" /\ want' = want
        BY <1>17 DEF ScanNext
    <2>2. req' \in Requests /\ req'.op = req.op /\ req'.cluster = req.next /\ req'.next = req.next
        BY <2>1 DEF ReqInv, Requests
    <2> QED
        BY <1>1, <2>1, <2>2 DEF ReqInv
  <1>18. ASSUME LoadSectorFails PROVE ReqInv'
      BY <1>4, <1>18 DEF LoadSectorFails, Fail
  <1>19. ASSUME LoadFatSectorFails PROVE ReqInv'
      BY <1>4, <1>19 DEF LoadFatSectorFails, Fail
  <1>20. ASSUME NoCluster PROVE ReqInv'
      BY <1>4, <1>20 DEF NoCluster, Fail
  <1> QED
      BY <1>5, <1>6, <1>7, <1>8, <1>9, <1>10, <1>11, <1>12, <1>13, <1>14, <1>15, <1>16, <1>17,
         <1>18, <1>19, <1>20 DEF Next, Proceed

(***************************************************************************)
(* The windows.                                                            *)
(***************************************************************************)
LEMMA WindowStep == ASSUME Inv, [Next]_vars PROVE WindowInv'
  <1> USE DEF Inv
  <1>1. sector \in Nat /\ (pc # "data" => sector = 0)
      BY DEF TypeOK, SectorIdx, WindowInv
  <1>2. ASSUME UNCHANGED windows, sector' = 0, sector = 0, pc # "failed",
               pc' \in {"ready", "loop", "data", "failed"}
        PROVE  WindowInv'
      BY <1>2 DEF WindowInv, windows
  <1>3. ASSUME UNCHANGED vars PROVE WindowInv'
      BY <1>3 DEF vars, WindowInv
  <1>4. ASSUME NEW path \in Paths, CallFindByPath(path) PROVE WindowInv'
      BY <1>1, <1>2, <1>4 DEF CallFindByPath, MayCall
  <1>5. ASSUME NEW offset \in Offsets, NEW size \in Sizes, CallReadAt(offset, size)
        PROVE  WindowInv'
    <2>1. pc = "ready" /\ pc' \in {"ready", "loop"} /\ sector' = sector /\ UNCHANGED windows
        BY <1>5 DEF CallReadAt, MayCall
    <2> QED
        BY <1>1, <1>2, <2>1
  <1>6. ASSUME ReadEnds PROVE WindowInv'
      BY <1>1, <1>2, <1>6 DEF ReadEnds, Return
  <1>7. ASSUME SkipCluster PROVE WindowInv'
    <2>1. /\ pc = "loop" /\ pc' = "fat" /\ sector' = sector /\ UNCHANGED windows
          /\ req.op = "read" /\ req' = [req EXCEPT !.offset = @ - ClusterUnits]
        BY <1>7 DEF SkipCluster, Skips
    <2>2. req'.op = "read"
        BY <2>1 DEF ReqInv, Requests
    <2> QED
        BY <1>1, <2>1, <2>2 DEF WindowInv, windows
  <1>8. ASSUME NeedCluster PROVE WindowInv'
      BY <1>1, <1>2, <1>8 DEF NeedCluster
  <1>9. ASSUME FindEnds PROVE WindowInv'
      BY <1>1, <1>2, <1>9 DEF FindEnds, Return
  <1>10. ASSUME DataCached PROVE WindowInv'
    <2>1. /\ pc = "data" /\ sector = 0 /\ sector' = 0 /\ req' = req /\ UNCHANGED windows
          /\ req.cluster = dataCluster /\ pc' \in {"copy", "fat"}
        BY <1>10 DEF DataCached, DataReady
    <2> QED
        BY <2>1 DEF WindowInv, windows
  <1>11. ASSUME LoadSector PROVE WindowInv'
    <2>1. /\ pc = "data" /\ req' = req /\ fatWindow' = fatWindow /\ fatSector' = fatSector
          /\ dataWindow' = [dataWindow EXCEPT ![sector] = req.cluster]
        BY <1>11 DEF LoadSector, Loading
    <2>2. sector \in SectorIdx /\ dataWindow \in [SectorIdx -> ClustersOf(image) \cup {Nothing}]
        BY DEF TypeOK
    <2>3. \A s \in 0..sector : dataWindow'[s] = req.cluster
      <3> TAKE s \in 0..sector
      <3>1. CASE s = sector
          BY <2>1, <2>2, <3>1
      <3>2. CASE s # sector
        <4>1. s \in 0..(sector - 1) /\ sector > 0
            BY <1>1, <3>2
        <4>2. dataWindow[s] = req.cluster /\ dataWindow'[s] = dataWindow[s]
            BY <2>1, <2>2, <3>2, <4>1 DEF WindowInv, SectorIdx
        <4> QED
            BY <4>2
      <3> QED
          BY <3>1, <3>2
    <2>4. CASE sector = SectorsPerCluster - 1
      <3>1. dataCluster' = req.cluster /\ sector' = 0 /\ pc' \in {"copy", "fat"}
          BY <1>11, <2>4 DEF LoadSector, DataReady
      <3>2. \A s \in SectorIdx : dataWindow'[s] = req.cluster
          BY <2>3, <2>4 DEF SectorIdx
      <3> QED
          BY <2>1, <3>1, <3>2 DEF WindowInv
    <2>5. CASE sector # SectorsPerCluster - 1
      <3>1. dataCluster' = dataCluster /\ sector' = sector + 1 /\ pc' = "data"
          BY <1>11, <2>1, <2>5 DEF LoadSector
      <3>2. \A s \in 0..(sector' - 1) : dataWindow'[s] = req.cluster
          BY <1>1, <2>3, <3>1
      <3>3. sector' # 0
          BY <1>1, <3>1
      <3> QED
          BY <2>1, <3>1, <3>2, <3>3 DEF WindowInv
    <2> QED
        BY <2>4, <2>5
  <1>12. ASSUME ReadFatIndex PROVE WindowInv'
    <2>1. /\ fatWindow' = fatSector' /\ GotNext(Value(image.fat[req.cluster])) /\ pc = "fat"
          /\ UNCHANGED <<dataCluster, dataWindow, sector>>
        BY <1>12, NextRead DEF ReadFatIndex
    <2>2. CASE req.op = "read"
      <3>1. pc' = "loop"
          BY <2>1, <2>2 DEF GotNext
      <3> QED
          BY <1>1, <2>1, <3>1 DEF WindowInv
    <2>3. CASE req.op # "read"
      <3>1. pc' = "scan" /\ req.op = "find" /\ req'.cluster = req.cluster
          BY <2>1, <2>3 DEF GotNext, ReqInv, Requests
      <3> QED
          BY <1>1, <2>1, <3>1 DEF WindowInv
    <2> QED
        BY <2>2, <2>3
  <1>13. ASSUME Copy PROVE WindowInv'
    <2> DEFINE diff == Min({ClusterUnits - req.offset, req.size})
    <2>1. /\ req' = [req EXCEPT !.offset = 0, !.size = @ - diff]
          /\ pc' = IF req.size > diff THEN "fat" ELSE "loop"
          /\ pc = "copy" /\ UNCHANGED windows /\ sector' = sector
        BY <1>13 DEF Copy
    <2> HIDE DEF diff
    <2>2. pc' \in {"fat", "loop"} /\ req'.op = "read"
        BY <2>1 DEF ReqInv, Requests
    <2> QED
        BY <1>1, <2>1, <2>2 DEF WindowInv, windows
  <1>14. ASSUME ScanHit PROVE WindowInv'
    <2>1. PICK s : StopAt(s)
        BY <1>14 DEF ScanHit
    <2>2. pc' \in {"ready", "loop"} /\ (sector' = 0 \/ sector' = sector)
        BY <2>1 DEF StopAt, Return
    <2>3. pc = "scan" /\ UNCHANGED windows
        BY <1>14 DEF ScanHit
    <2> QED
        BY <1>1, <1>2, <2>2, <2>3
  <1>15. ASSUME ScanNext PROVE WindowInv'
      BY <1>1, <1>2, <1>15 DEF ScanNext
  <1>16. ASSUME LoadSectorFails PROVE WindowInv'
      BY <1>16 DEF LoadSectorFails, Fail, WindowInv
  <1>17. ASSUME LoadFatSectorFails PROVE WindowInv'
      BY <1>17 DEF LoadFatSectorFails, Fail, WindowInv
  <1>18. ASSUME NoCluster PROVE WindowInv'
      BY <1>18 DEF NoCluster, Fail, WindowInv, windows
  <1> QED
      BY <1>3, <1>4, <1>5, <1>6, <1>7, <1>8, <1>9, <1>10, <1>11, <1>12, <1>13, <1>14, <1>15,
         <1>16, <1>17, <1>18 DEF Next, Proceed

(***************************************************************************)
(* The answers.                                                            *)
(***************************************************************************)

\* A sequence is a prefix of whatever continues it, and of itself.
LEMMA Continues ==
    ASSUME NEW a \in Units, NEW b \in Units
    PROVE  IsPrefix(a, a \o b) /\ IsPrefix(a, a)
  <1>1. PICK S : S = Nat \X Int
      OBVIOUS
  <1>2. a \in Seq(S) /\ b \in Seq(S)
      BY <1>1 DEF Units
  <1>3. Len(a) \in Nat /\ Len(b) \in Nat /\ Len(a \o b) = Len(a) + Len(b)
      BY <1>2, ConcatProperties, LenProperties
  <1>4. SubSeq(a, 1, Len(a)) = a
      BY <1>2, SubSeqFull
  <1>5. SubSeq(a \o b, 1, Len(a)) = a
    <2>1. CASE Len(a) = 0
      <3>1. a = <<>>
          BY <1>2, <2>1, EmptySeq
      <3>2. SubSeq(a \o b, 1, 0) = <<>>
          BY SubSeqEmpty
      <3> QED
          BY <2>1, <3>1, <3>2
    <2>2. CASE Len(a) # 0
      <3>1. 1 \in 1..Len(a) /\ Len(a) \in 1..Len(a)
          BY <1>3, <2>2
      <3> QED
          BY <1>2, <1>4, <3>1, SubSeqOfConcat1
    <2> QED
        BY <2>1, <2>2
  <1>6. Len(a) <= Len(a \o b) /\ Len(a) <= Len(a)
      BY <1>3
  <1> QED
      BY <1>4, <1>5, <1>6 DEF IsPrefix

\* Nothing is added by an empty rest.
LEMMA NothingLeft ==
    ASSUME NEW a \in Units PROVE a \o <<>> = a
  <1>1. PICK S : S = Nat \X Int
      OBVIOUS
  <1>2. a \in Seq(S)
      BY <1>1 DEF Units
  <1> QED
      BY <1>2, ConcatEmptySeq

LEMMA ReadStep == ASSUME Inv, [Next]_vars PROVE ReadInv'
  <1> USE DEF Inv
  <1>1. image' = image /\ (UpperBitsClear' <=> UpperBitsClear)
      BY ImageStays DEF UpperBitsClear
  <1>2. image \in Images
      BY DEF TypeOK
  <1>3. acc \in Units /\ want.data \in Units /\ <<>> \in Units
      BY EmptySeq DEF ReadInv, Units
  <1>4. \A a \in Units : IsPrefix(a, a) /\ a \o <<>> = a
      BY <1>3, Continues, NothingLeft
  <1>5. \A a, b \in Units : IsPrefix(a, a \o b)
      BY Continues
  <1>6. ASSUME acc' = acc, want' = want, pc' = "failed", req' = Idle PROVE ReadInv'
      BY <1>3, <1>6 DEF ReadInv, Idle
  <1>7. ASSUME acc' = acc, want' = want, req.op = "find", pc' # "fat",
               (pc' = "ready" /\ req' = Idle) \/ req'.op = "find"
        PROVE  ReadInv'
    <2>1. acc = <<>> /\ want.data = <<>>
        BY <1>7 DEF ReadInv
    <2>2. req'.op # "read"
        BY <1>7 DEF Idle
    <2> QED
        BY <1>3, <1>4, <1>7, <2>1, <2>2 DEF ReadInv, ReadMatches
  <1>8. ASSUME UNCHANGED vars PROVE ReadInv'
      BY <1>1, <1>8 DEF vars, ReadInv, ReadMatches
  <1>9. ASSUME NEW path \in Paths, CallFindByPath(path) PROVE ReadInv'
    <2>1. req' = [Idle EXCEPT !.op = "find", !.cluster = Root, !.path = path] /\ pc' = "loop"
        BY <1>9 DEF CallFindByPath
    <2>2. req'.op = "find"
        BY <2>1 DEF Idle
    <2>3. acc' = <<>> /\ want'.data = <<>>
        BY <1>9 DEF CallFindByPath
    <2> QED
        BY <1>3, <2>1, <2>2, <2>3 DEF ReadInv
  <1>10. ASSUME NEW offset \in Offsets, NEW size \in Sizes, CallReadAt(offset, size)
         PROVE  ReadInv'
    <2>1. offset \in Nat /\ size \in Nat /\ file.size \in Nat /\ pc = "ready"
        BY <1>10, FatFsAssumption DEF TypeOK, CallReadAt, MayCall
    <2>2. file.cluster \in Numbers(image)
        BY <1>10 DEF TypeOK, Numbers, CallReadAt
    <2>3. want'.data = WantRead(image, file, offset, size) /\ acc' = <<>>
        BY <1>10 DEF CallReadAt, ReqInv
    <2> DEFINE units == UnitsOf(image, file.cluster)
               stop == Min({file.size, offset + size})
    <2>4. WantRead(image, file, offset, size) = SubSeq(units, offset + 1, Min({stop, Len(units)}))
        BY DEF WantRead
    <2>5. units \in Units /\ Len(units) \in Nat /\ UnitsFrom(image, file.cluster) = units
      <3>1. units \in Units
          BY <1>2, <2>2, UnitsAre
      <3>2. file.cluster < EndMark /\ file.cluster \in Nat
          BY <1>2, <2>2, Links
      <3> QED
          BY <3>1, <3>2, Marks, LenProperties DEF Units, UnitsFrom
    <2> HIDE DEF units
    <2>8. stop \in Nat /\ (stop <= offset => WantRead(image, file, offset, size) = <<>>)
      <3>1. stop \in Nat
          BY <2>1, MinOfTwo
      <3> HIDE DEF stop
      <3>2. ASSUME stop <= offset PROVE WantRead(image, file, offset, size) = <<>>
        <4>1. PICK m \in Nat : m = Min({stop, Len(units)}) /\ m < offset + 1
            BY <2>1, <2>5, <3>1, <3>2, MinOfTwo
        <4>2. SubSeq(units, offset + 1, m) = <<>>
            BY <2>1, <4>1, SubSeqEmpty
        <4> QED
            BY <2>4, <4>1, <4>2
      <3> QED
          BY <3>1, <3>2
    <2>6. CASE file.size > 0 /\ offset >= file.size
      <3>1. pc' = pc /\ req' = req
          BY <1>10, <2>6 DEF CallReadAt
      <3>2. want'.data = <<>>
        <4>1. stop <= offset
            BY <2>1, <2>6, MinOfTwo
        <4> QED
            BY <2>3, <2>8, <4>1
      <3>3. req'.op = "none"
          BY <2>1, <3>1 DEF ReqInv, Idle
      <3> QED
          BY <1>3, <1>4, <2>1, <2>3, <3>1, <3>2, <3>3 DEF ReadInv, ReadMatches
    <2>7. CASE ~(file.size > 0 /\ offset >= file.size)
      <3> DEFINE n == IF file.size > 0 THEN Min({size, file.size - offset}) ELSE size
      <3>1. n \in Nat /\ (file.size > 0 => stop = offset + n)
          BY <2>1, <2>7, MinOfTwo
      <3>7. file.size = 0 => n = 0 /\ stop <= offset
        <4>1. file.size = 0 => size = 0
            BY <1>10, <2>1 DEF CallReadAt
        <4> QED
            BY <2>1, <4>1, MinOfTwo
      <3> HIDE DEF n, stop
      <3>2. /\ pc' = "loop"
            /\ req' = [Idle EXCEPT !.op = "read", !.cluster = file.cluster, !.offset = offset,
                                   !.size = n]
          BY <1>10, <2>7 DEF CallReadAt, n
      <3>3. req'.op = "read" /\ req'.cluster = file.cluster /\ req'.offset = offset /\ req'.size = n
          BY <3>2 DEF Idle
      <3>5. Rest(image, file.cluster, offset, n) \in Units
            /\ (n = 0 => Rest(image, file.cluster, offset, n) = <<>>)
          BY <1>2, <2>1, <2>2, <3>1, RestIs
      <3>4. want'.data = Rest(image, file.cluster, offset, n)
        <4>1. CASE file.size > 0
            BY <2>3, <2>4, <2>5, <3>1, <4>1 DEF Rest, Cut
        <4>2. CASE file.size = 0
            BY <2>3, <2>8, <3>5, <3>7, <4>2
        <4> QED
            BY <2>1, <4>1, <4>2
      <3>6. <<>> \o Rest(image, file.cluster, offset, n) = Rest(image, file.cluster, offset, n)
        <4>1. PICK S : S = Nat \X Int
            OBVIOUS
        <4>2. Rest(image, file.cluster, offset, n) \in Seq(S)
            BY <3>5, <4>1 DEF Units
        <4> QED
            BY <4>2, ConcatEmptySeq
      <3> QED
          BY <1>1, <1>3, <2>3, <3>2, <3>3, <3>4, <3>5, <3>6 DEF ReadInv
    <2> QED
        BY <2>6, <2>7
  <1>11. ASSUME ReadEnds PROVE ReadInv'
    <2>1. /\ pc = "loop" /\ req.op = "read" /\ pc' = "ready" /\ req' = Idle
          /\ acc' = acc /\ want' = want /\ (req.size = 0 \/ req.cluster >= EndMark)
        BY <1>11 DEF ReadEnds, Return
    <2>2. ReadMatches
      <3>1. CASE want.data = acc \o Rest(image, req.cluster, req.offset, req.size)
        <4>1. Rest(image, req.cluster, req.offset, req.size) = <<>>
          <5>1. /\ req.offset \in Nat /\ req.size \in Nat
                /\ (req.cluster \in Numbers(image) \/ (req.cluster \in Nat /\ req.cluster >= EndMark))
              BY DEF ReqInv, IsEnd, Requests
          <5> QED
              BY <1>2, <2>1, <5>1, RestIs
        <4> QED
            BY <1>3, <1>4, <3>1, <4>1 DEF ReadMatches
      <3>2. CASE ~UpperBitsClear /\ IsPrefix(acc, want.data)
          BY <3>2 DEF ReadMatches
      <3> QED
          BY <2>1, <3>1, <3>2 DEF ReadInv
    <2>3. ReadMatches' /\ req'.op = "none"
        BY <1>1, <2>1, <2>2 DEF ReadMatches, Idle
    <2> QED
        BY <1>3, <2>1, <2>3 DEF ReadInv
  <1>12. ASSUME SkipCluster PROVE ReadInv'
    <2>1. /\ pc = "loop" /\ req.op = "read" /\ pc' = "fat" /\ acc' = acc /\ want' = want
          /\ req' = [req EXCEPT !.offset = @ - ClusterUnits]
          /\ req.offset >= ClusterUnits /\ req.cluster < EndMark
        BY <1>12 DEF SkipCluster, Skips
    <2>2. /\ req'.op = "read" /\ req'.cluster = req.cluster /\ req'.size = req.size
          /\ req'.offset = req.offset - ClusterUnits
        BY <2>1 DEF ReqInv, Requests
    <2>3. /\ req.cluster \in Numbers(image) /\ ~IsEnd(req.cluster)
          /\ req.offset \in Nat /\ req.size \in Nat
        BY <2>1, Marks DEF ReqInv, IsEnd, Requests
    <2>4. want.data = acc \o Rest(image, req.cluster, req.offset, req.size)
        BY <2>1, <2>3 DEF ReadInv
    <2>5. Rest(image, req.cluster, req.offset, req.size)
          = Rest(image, LinkOf(image, req.cluster), req.offset - ClusterUnits, req.size)
        BY <1>2, <2>1, <2>3, RestSkip
    <2> QED
        BY <1>1, <1>3, <2>1, <2>2, <2>4, <2>5 DEF ReadInv
  <1>13. ASSUME NeedCluster PROVE ReadInv'
    <2>1. /\ pc = "loop" /\ pc' = "data" /\ acc' = acc /\ want' = want /\ req' = req
        BY <1>13 DEF NeedCluster
    <2> QED
        BY <1>1, <1>3, <2>1 DEF ReadInv
  <1>14. ASSUME FindEnds PROVE ReadInv'
      BY <1>7, <1>14 DEF FindEnds, Return
  <1>15. ASSUME DataCached \/ LoadSector PROVE ReadInv'
    <2>1. /\ pc = "data" /\ acc' = acc /\ want' = want /\ req' = req
          /\ (pc' = pc \/ pc' = IF req.op = "read" THEN "copy" ELSE "fat")
        BY <1>15 DEF DataCached, LoadSector, DataReady, Loading
    <2>2. CASE req.op = "read"
        BY <1>1, <1>3, <2>1, <2>2 DEF ReadInv
    <2>3. CASE req.op # "read"
        BY <1>3, <2>1, <2>3 DEF ReadInv
    <2> QED
        BY <2>2, <2>3
  <1>16. ASSUME ReadFatIndex PROVE ReadInv'
    <2> DEFINE c == req.cluster
               n == Value(image.fat[c])
    <2>1. c \in Numbers(image) /\ GotNext(n) /\ pc = "fat" /\ acc' = acc /\ want' = want
        BY <1>16, NextRead DEF ReadFatIndex
    <2>2. /\ image.fat[c].high = 0 => n = LinkOf(image, c)
          /\ image.fat[c].high # 0 => IsEnd(n)
        BY <1>2, <2>1, NextIs
    <2>3. image.fat[c].high # 0 => ~UpperBitsClear
        BY <1>2, <2>1, Links DEF UpperBitsClear
    <2> HIDE DEF n
    <2>4. CASE req.op = "read"
      <3>1. req' = [req EXCEPT !.cluster = n] /\ pc' = "loop"
          BY <2>1, <2>4 DEF GotNext
      <3>2. /\ req'.op = "read" /\ req'.cluster = n /\ req'.offset = req.offset
            /\ req'.size = req.size
          BY <2>4, <3>1 DEF ReqInv, Requests
      <3>3. want.data = acc \o Rest(image, LinkOf(image, c), req.offset, req.size)
          BY <2>1, <2>4 DEF ReadInv
      <3>4. CASE image.fat[c].high = 0
          BY <1>1, <1>3, <2>1, <2>2, <3>1, <3>2, <3>3, <3>4 DEF ReadInv
      <3>5. CASE image.fat[c].high # 0
        <4>1. Rest(image, LinkOf(image, c), req.offset, req.size) \in Units
          <5>1. LinkOf(image, c) \in Numbers(image)
                \/ (LinkOf(image, c) \in Nat /\ LinkOf(image, c) >= EndMark)
              BY <1>2, <2>1, Links, Marks DEF Numbers
          <5>2. req.offset \in Nat /\ req.size \in Nat
              BY DEF ReqInv, Requests
          <5> QED
              BY <1>2, <5>1, <5>2, RestIs
        <4>2. IsPrefix(acc, want.data)
            BY <1>3, <1>5, <3>3, <4>1
        <4> QED
            BY <1>1, <1>3, <2>1, <2>2, <2>3, <3>1, <3>2, <3>5, <4>2 DEF ReadInv
      <3> QED
          BY <3>4, <3>5
    <2>5. CASE req.op # "read"
      <3>1. req' = [req EXCEPT !.next = n] /\ pc' = "scan" /\ req.op = "find"
          BY <2>1, <2>5 DEF GotNext, ReqInv
      <3>2. req'.op = "find"
          BY <3>1 DEF ReqInv, Requests
      <3> QED
          BY <1>7, <2>1, <3>1, <3>2
    <2> QED
        BY <2>4, <2>5
  <1>17. ASSUME Copy PROVE ReadInv'
    <2> DEFINE diff == Min({ClusterUnits - req.offset, req.size})
               got == [i \in 1..diff |-> UnitInWindow(req.offset + i - 1)]
               c == req.cluster
               o == req.offset
    <2>1. /\ diff \in Nat /\ req.size - diff \in Nat /\ IsSize(diff, ClusterUnits, o, req.size)
          /\ req.size > diff => diff = ClusterUnits - o
        BY <1>17, CopySize
    <2>2. /\ acc' = acc \o got
          /\ req' = [req EXCEPT !.offset = 0, !.size = @ - diff]
          /\ pc' = IF req.size > diff THEN "fat" ELSE "loop"
          /\ pc = "copy" /\ want' = want
        BY <1>17 DEF Copy
    <2>3. /\ req.op = "read" /\ c \in Numbers(image) /\ c \in ClustersOf(image)
          /\ o \in Nat /\ req.size \in Nat /\ o < ClusterUnits
          /\ dataCluster = c /\ c \in Nat /\ c # 0 /\ c < EndMark
      <3>1. req.op = "read" /\ c \in Numbers(image) /\ o \in Nat /\ req.size \in Nat
            /\ o < ClusterUnits /\ dataCluster = c
          BY <2>2 DEF ReqInv, Requests, WindowInv
      <3>2. c \in ClustersOf(image)
          BY <3>1, Windowed
      <3>3. c \in Nat /\ c # 0 /\ c < EndMark
          BY <1>2, <3>2, ClusterRange
      <3> QED
          BY <3>1, <3>2, <3>3
    <2>5. got = [i \in 1..diff |-> <<c, o + i - 1>>]
        BY <1>17, CopyGot
    <2> HIDE DEF diff
    <2> HIDE DEF got
    <2>14. got = PartOf(c, o, diff)
        BY <2>5 DEF PartOf
    <2>6. got \in Units
      <3>1. PICK V : V = Nat \X Int
          OBVIOUS
      <3>2. \A i \in 1..diff : <<c, o + i - 1>> \in V
          BY <2>1, <2>3, <3>1
      <3>3. got \in [1..diff -> V]
          BY <2>5, <3>2
      <3>4. diff \in Nat
          BY <2>1 DEF IsSize
      <3>5. got \in Seq(V)
          BY <3>3, <3>4, SeqDef
      <3> QED
          BY <3>1, <3>5 DEF Units
    <2>7. Rest(image, c, o, req.size) = got \o Rest(image, LinkOf(image, c), 0, req.size - diff)
      <3>1. ASSUME NEW k \in Numbers(image), NEW p \in Nat, NEW n \in Nat, p < ClusterUnits,
                   NEW d \in Nat, IsSize(d, ClusterUnits, p, n)
            PROVE  Rest(image, k, p, n) = PartOf(k, p, d) \o Rest(image, LinkOf(image, k), 0, n - d)
          BY <1>2, <3>1, RestCopy
      <3>2. Rest(image, c, o, req.size)
            = PartOf(c, o, diff) \o Rest(image, LinkOf(image, c), 0, req.size - diff)
        <4>1. PICK n \in Nat : n = req.size
            BY <2>3
        <4>2. PICK x \in Numbers(image), p \in Nat : x = c /\ p = o /\ p < ClusterUnits
            BY <2>3
        <4>3. PICK d \in Nat : d = diff /\ IsSize(d, ClusterUnits, p, n)
            BY <2>1, <4>1, <4>2
        <4>4. Rest(image, x, p, n) = PartOf(x, p, d) \o Rest(image, LinkOf(image, x), 0, n - d)
          <5>1. p < ClusterUnits
              BY <4>2
          <5>2. IsSize(d, ClusterUnits, p, n)
              BY <4>3
          <5> QED
              BY <3>1, <5>1, <5>2, Zenon
        <4> QED
            BY <4>1, <4>2, <4>3, <4>4
      <3> QED
          BY <2>14, <3>2
    <2> DEFINE rest == Rest(image, LinkOf(image, c), 0, req.size - diff)
    <2>8. rest \in Units /\ (req.size - diff = 0 => rest = <<>>)
      <3>1. LinkOf(image, c) \in Numbers(image)
            \/ (LinkOf(image, c) \in Nat /\ LinkOf(image, c) >= EndMark)
          BY <1>2, <2>3, Links, Marks DEF Numbers
      <3> QED
          BY <1>2, <2>1, <3>1, RestIs
    <2>9. want.data = acc \o Rest(image, c, o, req.size)
      <3>1. ~IsEnd(c)
          BY <2>3, Marks DEF IsEnd
      <3> QED
          BY <2>2, <2>3, <3>1 DEF ReadInv
    <2>10. acc' \in Units /\ want'.data = acc' \o rest
      <3> HIDE DEF rest
      <3>1. PICK S : S = Nat \X Int
          OBVIOUS
      <3>2. acc \in Seq(S) /\ got \in Seq(S) /\ rest \in Seq(S)
          BY <1>3, <2>6, <2>8, <3>1 DEF Units
      <3>3. (acc \o got) \o rest = acc \o (got \o rest)
          BY <3>2, ConcatAssociative
      <3>4. acc \o got \in Seq(S)
          BY <3>2, ConcatProperties
      <3>5. want.data = acc \o (got \o rest)
          BY <2>7, <2>9 DEF rest
      <3> QED
          BY <2>2, <3>1, <3>3, <3>4, <3>5 DEF Units
    <2>11. /\ req'.op = "read" /\ req'.cluster = c /\ req'.offset = 0
           /\ req'.size = req.size - diff
        BY <2>2, <2>3 DEF ReqInv, Requests
    <2>12. CASE req.size > diff
      <3>1. pc' = "fat"
          BY <2>2, <2>12
      <3> QED
          BY <1>1, <1>3, <2>2, <2>10, <2>11, <3>1 DEF ReadInv
    <2>13. CASE ~(req.size > diff)
      <3>1. pc' = "loop" /\ req.size - diff = 0
          BY <2>1, <2>2, <2>3, <2>13
      <3>2. rest = <<>> /\ Rest(image, c, 0, 0) = <<>>
          BY <1>2, <2>3, <2>8, <3>1, RestIs
      <3> QED
          BY <1>1, <1>3, <2>2, <2>10, <2>11, <3>1, <3>2 DEF ReadInv
    <2> QED
        BY <2>12, <2>13
  <1>18. ASSUME ScanHit PROVE ReadInv'
    <2>1. PICK s : StopAt(s)
        BY <1>18 DEF ScanHit
    <2>2. pc = "scan" /\ req.op = "find" /\ acc' = acc /\ want' = want
        BY <1>18 DEF ScanHit, ReqInv
    <2>3. CASE IsLastInList(s)
        BY <1>7, <2>1, <2>2, <2>3 DEF StopAt, Return
    <2>4. CASE ~IsLastInList(s)
      <3>1. req' = [req EXCEPT !.cluster = s.cluster, !.path = Tail(@)] /\ pc' = "loop"
          BY <2>1, <2>4 DEF StopAt
      <3>2. req'.op = "find"
          BY <2>2, <3>1 DEF ReqInv, Requests
      <3> QED
          BY <1>7, <2>2, <3>1, <3>2
    <2> QED
        BY <2>3, <2>4
  <1>19. ASSUME ScanNext PROVE ReadInv'
    <2>1. /\ pc = "scan" /\ req.op = "find" /\ acc' = acc /\ want' = want
          /\ req' = [req EXCEPT !.cluster = req.next] /\ pc' = "loop"
        BY <1>19 DEF ScanNext, ReqInv
    <2>2. req'.op = "find"
        BY <2>1 DEF ReqInv, Requests
    <2> QED
        BY <1>7, <2>1, <2>2
  <1>20. ASSUME LoadSectorFails PROVE ReadInv'
      BY <1>6, <1>20 DEF LoadSectorFails, Fail
  <1>21. ASSUME LoadFatSectorFails PROVE ReadInv'
      BY <1>6, <1>21 DEF LoadFatSectorFails, Fail
  <1>22. ASSUME NoCluster PROVE ReadInv'
      BY <1>6, <1>22 DEF NoCluster, Fail
  <1> QED
      BY <1>8, <1>9, <1>10, <1>11, <1>12, <1>13, <1>14, <1>15, <1>16, <1>17, <1>18, <1>19, <1>20,
         <1>21, <1>22 DEF Next, Proceed

-----------------------------------------------------------------------------
(***************************************************************************)
(* Names.                                                                  *)
(***************************************************************************)

\* TrimBlanks cuts a string behind its last character that is no blank.
IsTrimmed(s, k) ==
    /\ k \in 0..Len(s)
    /\ k # 0 => s[k] # Blank
    /\ \A i \in 1..Len(s) : i > k => s[i] = Blank

\* Where that is, TrimBlanks cuts.
LEMMA TrimAt ==
    ASSUME NEW s \in Seq(Nat), NEW k, IsTrimmed(s, k)
    PROVE  TrimBlanks(s) = SubSeq(s, 1, k)
  <1> DEFINE T == {0} \cup {i \in 1..Len(s) : s[i] # Blank}
  <1>1. k \in T /\ \A x \in T : k >= x
      BY DEF IsTrimmed
  <1>2. \A y \in T : (\A x \in T : y >= x) => y = k
    <2>1. Len(s) \in Nat
        OBVIOUS
    <2>2. T \subseteq Nat
        BY <2>1
    <2> HIDE DEF T
    <2> QED
        BY <1>1, <2>2
  <1>3. Max(T) = k
    <2> HIDE DEF T
    <2> QED
        BY <1>1, <1>2 DEF Max
  <1> QED
      BY <1>3, Zenon DEF TrimBlanks

\* There is such a place.
LEMMA TrimExists ==
    ASSUME NEW s \in Seq(Nat) PROVE \E k \in 0..Len(s) : IsTrimmed(s, k)
  <1> DEFINE T == {j \in Nat : \A i \in 1..Len(s) : i > j => s[i] = Blank}
  <1>1. Len(s) \in T
      OBVIOUS
  <1>2. PICK k \in T : \A y \in T : k <= y
    <2> HIDE DEF T
    <2>1. T \subseteq Nat
        BY DEF T
    <2> QED
        BY <1>1, <2>1, LeastNatural
  <1>3. k \in 0..Len(s)
      BY <1>1, <1>2
  <1>4. k # 0 => s[k] # Blank
    <2> SUFFICES ASSUME k # 0, s[k] = Blank PROVE FALSE
        OBVIOUS
    <2>1. k - 1 \in Nat
        BY <1>3
    <2>2. \A i \in 1..Len(s) : i > k - 1 => s[i] = Blank
      <3> TAKE i \in 1..Len(s)
      <3> HAVE i > k - 1
      <3>1. i = k \/ i > k
          BY <1>3
      <3> QED
          BY <1>2, <3>1
    <2>3. k - 1 \in T
        BY <2>1, <2>2
    <2> QED
        BY <1>2, <1>3, <2>3
  <1> QED
      BY <1>2, <1>3, <1>4 DEF IsTrimmed

\* A string without a Nul ends where it ends; any other one is not longer.
LEMMA CStringIs ==
    ASSUME NEW s \in Seq(Nat)
    PROVE  /\ \E m \in 0..Len(s) : CString(s) = SubSeq(s, 1, m)
           /\ (\A i \in 1..Len(s) : s[i] # Nul) => CString(s) = s
  <1> DEFINE T == {i \in 1..Len(s) : s[i] = Nul} \cup {Len(s) + 1}
  <1>1. Len(s) \in Nat
      OBVIOUS
  <1>2. T \subseteq Nat /\ T # {}
      BY <1>1
  <1>3. Min(T) \in T
    <2> HIDE DEF T
    <2> QED
        BY <1>2, MinIsIn
  <1>4. Min(T) - 1 \in 0..Len(s)
      BY <1>1, <1>3
  <1>5. CString(s) = SubSeq(s, 1, Min(T) - 1)
      BY Zenon DEF CString
  <1>6. ASSUME \A i \in 1..Len(s) : s[i] # Nul PROVE CString(s) = s
    <2>1. T = {Len(s) + 1}
        BY <1>6
    <2>2. Min(T) - 1 = Len(s)
        BY <1>1, <1>3, <2>1
    <2> HIDE DEF T
    <2> QED
        BY <1>5, <2>2, SubSeqFull
  <1> HIDE DEF T
  <1> QED
      BY <1>4, <1>5, <1>6

\* The length of a piece, and what is in it.
LEMMA PieceIs ==
    ASSUME NEW s \in Seq(Nat), NEW k \in 0..Len(s)
    PROVE  /\ SubSeq(s, 1, k) \in Seq(Nat) /\ Len(SubSeq(s, 1, k)) = k
           /\ \A i \in 1..k : SubSeq(s, 1, k)[i] = s[i]
  OBVIOUS

\* A short name has at most one dot.
LEMMA OneDot ==
    ASSUME NEW name \in Seq(Nat), IsShortName(name), NEW i \in DotsIn(name), NEW j \in DotsIn(name)
    PROVE  i = j
  <1>1. IsFiniteSet(DotsIn(name))
    <2>1. Len(name) \in Nat
        OBVIOUS
    <2>2. IsFiniteSet(1..Len(name))
        BY <2>1, FS_Interval
    <2>3. DotsIn(name) \subseteq 1..Len(name)
        BY DEF DotsIn
    <2> QED
        BY <2>2, <2>3, FS_Subset
  <1>2. Cardinality(DotsIn(name)) \in Nat /\ Cardinality(DotsIn(name)) <= 1
      BY <1>1, FS_CardinalityType DEF IsShortName
  <1>3. Cardinality(DotsIn(name)) # 0
      BY <1>1, FS_EmptySet
  <1>4. Cardinality(DotsIn(name)) = 1
      BY <1>2, <1>3
  <1> QED
      BY <1>1, <1>4, FS_Singleton

\* How a short name is split at d: in the entry are the characters before and
\* behind its dot, or all of them and no extension.
IsSplit(name, d) ==
    /\ d \in 2..(NameLen + 1)
    /\ \/ d = Len(name) + 1
       \/ /\ d \in 2..(Len(name) - 1)
          /\ name[d] = Dot
          /\ Len(name) - d \in 1..ExtLen
    /\ \A i \in 1..Len(name) : name[i] = Dot => i = d

\* What is in the entry then.
StoredAt(name, d) ==
    [name |-> [i \in 1..NameLen |-> IF i < d THEN name[i] ELSE Blank],
     ext |-> [i \in 1..ExtLen |-> IF d + i <= Len(name) THEN name[d + i] ELSE Blank]]

\* Stored splits a short name at such a place, and there is one.
LEMMA SplitName ==
    ASSUME NEW name \in Seq(Nat), IsShortName(name)
    PROVE  \E d \in Nat : IsSplit(name, d) /\ Stored(name) = StoredAt(name, d)
  <1>1. PICK l \in Nat \ {0} : l = Len(name)
      BY DEF IsShortName
  <1>2. NameLen \in Nat \ {0} /\ ExtLen \in Nat \ {0}
      BY FatNameAssumption
  <1> DEFINE T == DotsIn(name) \cup {Len(name) + 1}
  <1>3. T \subseteq Nat /\ T # {}
      BY <1>1 DEF DotsIn
  <1>4. Min(T) \in T
      BY <1>3, MinIsIn
  <1>5. PICK d \in Nat : d = Min(T)
      BY <1>3, <1>4
  <1>6. d = l + 1 \/ d \in DotsIn(name)
      BY <1>1, <1>4, <1>5
  <1>7. \A i \in DotsIn(name) : d <= i
      BY <1>3, <1>5, MinIsIn
  <1>8. Stored(name) = [name |-> Fixed(NameLen, SubSeq(name, 1, d - 1)),
                        ext |-> Fixed(ExtLen, SubSeq(name, d + 1, Len(name)))]
      BY <1>5, Zenon DEF Stored
  <1> HIDE DEF T
  <1>9. \A i \in 1..Len(name) : name[i] = Dot => i = d
    <2> TAKE i \in 1..Len(name)
    <2> HAVE name[i] = Dot
    <2>1. i \in DotsIn(name)
        BY DEF DotsIn
    <2>2. d \in DotsIn(name)
        BY <1>1, <1>6, <1>7, <2>1
    <2> QED
        BY <2>1, <2>2, OneDot
  <1>10. IsSplit(name, d)
    <2>1. CASE d \in DotsIn(name)
      <3>1. d \in 2..(NameLen + 1) /\ Len(name) - d \in 1..ExtLen
          BY <2>1 DEF IsShortName
      <3>2. name[d] = Dot
          BY <2>1 DEF DotsIn
      <3>3. d \in 2..(Len(name) - 1)
          BY <1>1, <1>2, <3>1
      <3> QED
          BY <1>9, <3>1, <3>2, <3>3 DEF IsSplit
    <2>2. CASE d \notin DotsIn(name)
      <3>1. d = l + 1
          BY <1>6, <2>2
      <3>2. DotsIn(name) = {}
        <4>1. ASSUME NEW i \in DotsIn(name) PROVE FALSE
          <5>1. d <= i /\ i \in 1..Len(name)
              BY <1>7 DEF DotsIn
          <5> QED
              BY <1>1, <3>1, <5>1
        <4> QED
            BY <4>1
      <3>3. l <= NameLen
          BY <1>1, <3>2 DEF IsShortName
      <3>4. d = Len(name) + 1 /\ d \in 2..(NameLen + 1)
          BY <1>1, <1>2, <3>1, <3>3
      <3> QED
          BY <1>9, <3>4, Zenon DEF IsSplit
    <2> QED
        BY <2>1, <2>2
  <1>11. d - 1 \in 0..l
      BY <1>1, <1>2, <1>10 DEF IsSplit
  <1>12. Fixed(NameLen, SubSeq(name, 1, d - 1)) = StoredAt(name, d).name
    <2>1. Len(SubSeq(name, 1, d - 1)) = d - 1 /\ \A i \in 1..(d - 1) : SubSeq(name, 1, d - 1)[i] = name[i]
        BY <1>1, <1>11, PieceIs
    <2>2. ASSUME NEW i \in 1..NameLen
          PROVE  (IF i <= Len(SubSeq(name, 1, d - 1)) THEN SubSeq(name, 1, d - 1)[i] ELSE Blank)
                    = IF i < d THEN name[i] ELSE Blank
      <3>1. i <= d - 1 <=> i < d
          BY <1>2
      <3>2. i < d => i \in 1..(d - 1)
          BY <1>2
      <3> QED
          BY <2>1, <3>1, <3>2
    <2> QED
        BY <2>2 DEF Fixed, StoredAt
  <1>13. Fixed(ExtLen, SubSeq(name, d + 1, Len(name))) = StoredAt(name, d).ext
    <2>1. d + 1 \in Nat /\ d + 1 >= 1 /\ d <= l + 1
        BY <1>11
    <2>2. PICK p : p = SubSeq(name, d + 1, l)
        OBVIOUS
    <2>3. Len(p) = (IF d + 1 <= l THEN l - d ELSE 0) /\ \A i \in 1..Len(p) : p[i] = name[d + i]
        BY <1>1, <2>1, <2>2
    <2>4. ASSUME NEW i \in 1..ExtLen
          PROVE  (IF i <= Len(p) THEN p[i] ELSE Blank)
                    = IF d + i <= Len(name) THEN name[d + i] ELSE Blank
      <3>1. i <= Len(p) <=> d + i <= l
          BY <1>2, <2>1, <2>3
      <3>2. i <= Len(p) => i \in 1..Len(p)
          BY <1>2
      <3> QED
          BY <1>1, <2>3, <3>1, <3>2
    <2> QED
        BY <1>1, <2>2, <2>4 DEF Fixed, StoredAt
  <1> QED
      BY <1>8, <1>10, <1>12, <1>13 DEF StoredAt

\* What comes second in a concatenation.
LEMMA BehindFirst ==
    ASSUME NEW a \in Seq(Nat), NEW b \in Seq(Nat)
    PROVE  /\ Len(a \o b) = Len(a) + Len(b)
           /\ \A i \in 1..(Len(a) + Len(b)) : i > Len(a) => (a \o b)[i] = b[i - Len(a)]
  OBVIOUS

\* Pieces of two strings that agree.
LEMMA SamePiece ==
    ASSUME NEW s \in Seq(Nat), NEW t \in Seq(Nat), NEW k \in Nat,
           k \in 0..Len(s), k \in 0..Len(t), \A i \in 1..k : s[i] = t[i]
    PROVE  SubSeq(s, 1, k) = SubSeq(t, 1, k)
  <1>1. Len(SubSeq(s, 1, k)) = k /\ Len(SubSeq(t, 1, k)) = k
      BY PieceIs
  <1>2. \A i \in 1..k : SubSeq(s, 1, k)[i] = SubSeq(t, 1, k)[i]
      BY PieceIs
  <1>3. SubSeq(s, 1, k) \in Seq(Nat) /\ SubSeq(t, 1, k) \in Seq(Nat)
      BY PieceIs
  <1> QED
      BY <1>1, <1>2, <1>3, SeqEqual

\* The bytes of an entry: what BytesOf gives for one of a slot of an image.
IsEntry(e) == e.name \in [1..NameLen -> Nat] /\ e.ext \in [1..ExtLen -> Nat]

\* They are two sequences of fixed lengths.
LEMMA EntrySeqs ==
    ASSUME NEW e, IsEntry(e)
    PROVE  /\ e.name \in Seq(Nat) /\ Len(e.name) = NameLen
           /\ e.ext \in Seq(Nat) /\ Len(e.ext) = ExtLen
           /\ NameLen \in Nat \ {0} /\ ExtLen \in Nat \ {0}
  BY FatNameAssumption, SMTT(30) DEF IsEntry

\* The characters of a short name are none of the special ones.
LEMMA ValidChar ==
    ASSUME NEW c, IsValidFatChar(c) PROVE c \in Nat /\ c # Nul /\ c # Deleted
  <1>1. c \in 32..126
      BY DEF IsValidFatChar
  <1> QED
      BY <1>1 DEF Nul, Deleted

\* All of a name's characters are like that.
LEMMA ValidChars ==
    ASSUME NEW name, IsShortName(name), NEW i \in 1..Len(name)
    PROVE  name[i] \in Nat /\ name[i] # Nul /\ name[i] # Deleted
  <1>1. IsValidFatChar(name[i])
      BY DEF IsShortName
  <1> QED
      BY <1>1, ValidChar, Zenon

\* Where the name ends in the entry, when it begins and ends without blanks.
LEMMA NamePart ==
    ASSUME NEW name \in Seq(Nat), NEW e, IsEntry(e), NEW d \in Nat, IsSplit(name, d),
           BytesOf(e) = StoredAt(name, d), name[d - 1] # Blank
    PROVE  TrimBlanks(e.name) = SubSeq(name, 1, d - 1)
  <1>1. PICK s \in Seq(Nat) : s = e.name /\ Len(s) = NameLen
    <2>1. e.name \in Seq(Nat) /\ Len(e.name) = NameLen
        BY EntrySeqs
    <2> QED
        BY <2>1, Zenon
  <1>2. s = [i \in 1..NameLen |-> IF i < d THEN name[i] ELSE Blank]
    <2>1. e.name = [i \in 1..NameLen |-> IF i < d THEN name[i] ELSE Blank]
        BY DEF BytesOf, StoredAt
    <2> QED
        BY <1>1, <2>1, Zenon
  <1>3. PICK n \in Nat \ {0} : n = NameLen
      BY FatNameAssumption
  <1>4. PICK l \in Nat : l = Len(name)
      OBVIOUS
  <1>5. d \in 2..(n + 1) /\ d <= l + 1
      BY <1>3, <1>4 DEF IsSplit
  <1>6. IsTrimmed(s, d - 1)
      BY <1>1, <1>2, <1>3, <1>5 DEF IsTrimmed
  <1>7. TrimBlanks(s) = SubSeq(s, 1, d - 1)
      BY <1>6, TrimAt
  <1>8. SubSeq(s, 1, d - 1) = SubSeq(name, 1, d - 1)
    <2>1. \A i \in 1..(d - 1) : s[i] = name[i]
        BY <1>2, <1>3, <1>5
    <2>2. d - 1 \in 0..Len(s) /\ d - 1 \in 0..Len(name)
        BY <1>1, <1>3, <1>4, <1>5
    <2> QED
        BY <1>5, <2>1, <2>2, SamePiece
  <1> QED
      BY <1>1, <1>7, <1>8

\* NameToString gives back a name that was stored.
LEMMA GivenBack ==
    ASSUME NEW name \in Seq(Nat), Canonical(name), NEW e, IsEntry(e), BytesOf(e) = Stored(name)
    PROVE  NameToString(e) = name /\ e.name[1] = name[1]
  <1>1. IsShortName(name)
      BY DEF Canonical
  <1>2. PICK d \in Nat : IsSplit(name, d) /\ BytesOf(e) = StoredAt(name, d)
      BY <1>1, SplitName
  <1>3. PICK n \in Nat \ {0} : n = NameLen
      BY FatNameAssumption
  <1>4. PICK x \in Nat \ {0} : x = ExtLen
      BY FatNameAssumption
  <1>5. PICK l \in Nat \ {0} : l = Len(name)
      BY <1>1 DEF IsShortName
  <1>6. d \in 2..(n + 1) /\ d <= l + 1 /\ (d # l + 1 => name[d] = Dot /\ d < l /\ l - d \in 1..x)
      BY <1>2, <1>3, <1>4, <1>5 DEF IsSplit
  <1>7. \A i \in 1..l : name[i] = Blank => i \in 2..(l - 1) /\ name[i - 1] # Dot /\ name[i + 1] # Dot
      BY <1>5 DEF Canonical
  <1>8. name[d - 1] # Blank
    <2>1. d - 1 \in 1..l /\ (d - 1) + 1 = d
        BY <1>6
    <2>2. SUFFICES ASSUME name[d - 1] = Blank PROVE FALSE
        OBVIOUS
    <2>3. d - 1 \in 2..(l - 1) /\ name[d] # Dot
        BY <1>7, <2>1, <2>2
    <2> QED
        BY <1>5, <1>6, <2>3
  <1>9. TrimBlanks(e.name) = SubSeq(name, 1, d - 1)
      BY <1>2, <1>8, NamePart
  <1>10. CString(name) = name
    <2>1. \A i \in 1..Len(name) : name[i] # Nul
        BY <1>1, ValidChars
    <2> QED
        BY <2>1, CStringIs
  <1>11. e.name[1] = name[1]
    <2>1. e.name = [i \in 1..NameLen |-> IF i < d THEN name[i] ELSE Blank]
        BY <1>2 DEF BytesOf, StoredAt
    <2> QED
        BY <1>3, <1>6, <2>1
  <1>12. PICK t \in Seq(Nat) : t = e.ext /\ Len(t) = x
    <2>1. e.ext \in Seq(Nat) /\ Len(e.ext) = x
        BY <1>4, EntrySeqs
    <2> QED
        BY <2>1, Zenon
  <1>13. t = [i \in 1..x |-> IF d + i <= l THEN name[d + i] ELSE Blank]
    <2>1. e.ext = [i \in 1..ExtLen |-> IF d + i <= Len(name) THEN name[d + i] ELSE Blank]
        BY <1>2 DEF BytesOf, StoredAt
    <2> QED
        BY <1>4, <1>5, <1>12, <2>1, Zenon
  <1>14. CASE d = l + 1
    <2>1. t[1] = Blank
        BY <1>4, <1>5, <1>13, <1>14
    <2>2. SubSeq(name, 1, d - 1) = name
        BY <1>5, <1>14, SubSeqFull
    <2> QED
        BY <1>9, <1>10, <1>11, <1>12, <2>1, <2>2 DEF NameToString
  <1>15. CASE d # l + 1
    <2>1. t[1] # Blank
      <3>1. d + 1 \in 1..l /\ (d + 1) - 1 = d
          BY <1>5, <1>6, <1>15
      <3>2. name[d + 1] # Blank
          BY <1>6, <1>7, <1>15, <3>1
      <3>3. t[1] = name[d + 1]
          BY <1>4, <1>13, <3>1
      <3> QED
          BY <3>2, <3>3
    <2>3. PICK b \in Seq(Nat) : /\ b = SubSeq(name, 1, d - 1)
                               /\ Len(b) = d - 1 /\ \A i \in 1..(d - 1) : b[i] = name[i]
      <3>1. d - 1 \in 0..Len(name)
          BY <1>5, <1>6
      <3>2. SubSeq(name, 1, d - 1) \in Seq(Nat)
          BY <3>1, PieceIs
      <3>3. /\ Len(SubSeq(name, 1, d - 1)) = d - 1
            /\ \A i \in 1..(d - 1) : SubSeq(name, 1, d - 1)[i] = name[i]
          BY <3>1, PieceIs
      <3> QED
          BY <3>2, <3>3, Zenon
    <2>4. PICK s \in Seq(Nat) : s = b \o <<Dot>> \o t
      <3>1. b \o <<Dot>> \o t \in Seq(Nat)
          BY <1>12, <2>3 DEF Dot
      <3> QED
          BY <3>1, Zenon
    <2>5. Len(s) = d + x /\ \A i \in 1..Len(s) : s[i] = IF i <= l THEN name[i] ELSE Blank
        BY <1>4, <1>5, <1>6, <1>12, <1>13, <1>15, <2>3, <2>4 DEF Dot
    <2>6. name[l] # Blank
        BY <1>5, <1>7
    <2>7. IsTrimmed(s, l)
        BY <1>4, <1>5, <1>6, <1>15, <2>5, <2>6 DEF IsTrimmed
    <2>8. TrimBlanks(s) = SubSeq(s, 1, l)
        BY <2>7, TrimAt
    <2>9. SubSeq(s, 1, l) = SubSeq(name, 1, l)
      <3>1. l \in 0..Len(s) /\ l \in 0..Len(name)
          BY <1>4, <1>5, <1>6, <1>15, <2>5
      <3>2. \A i \in 1..l : s[i] = name[i]
          BY <1>4, <1>5, <3>1, <2>5
      <3> QED
          BY <3>1, <3>2, SamePiece
    <2>10. SubSeq(name, 1, l) = name
        BY <1>5, SubSeqFull
    <2>11. NameToString(e) = CString(TrimBlanks(TrimBlanks(e.name) \o <<Dot>> \o e.ext))
        BY <1>12, <2>1 DEF NameToString
    <2> QED
        BY <1>9, <1>10, <1>11, <1>12, <2>3, <2>4, <2>8, <2>9, <2>10, <2>11
  <1> QED
      BY <1>14, <1>15

\* A name is never longer than what it was cut from.
LEMMA NotLonger ==
    ASSUME NEW s \in Seq(Nat), NEW j, IsTrimmed(s, j)
    PROVE  Len(CString(TrimBlanks(s))) \in 0..j
  <1>1. j \in 0..Len(s) /\ TrimBlanks(s) = SubSeq(s, 1, j)
      BY TrimAt DEF IsTrimmed
  <1>2. PICK t \in Seq(Nat) : t = TrimBlanks(s) /\ Len(t) = j
    <2>1. SubSeq(s, 1, j) \in Seq(Nat) /\ Len(SubSeq(s, 1, j)) = j
        BY <1>1, PieceIs
    <2> QED
        BY <1>1, <2>1, Zenon
  <1>3. PICK m \in 0..Len(t) : CString(t) = SubSeq(t, 1, m)
      BY CStringIs
  <1>4. Len(SubSeq(t, 1, m)) = m
      BY <1>3, PieceIs
  <1> QED
      BY <1>2, <1>3, <1>4

\* A short name that NameToString makes of an entry with these very bytes has
\* its blanks inside.
LEMMA OnlyCanonical ==
    ASSUME NEW name \in Seq(Nat), IsShortName(name), NEW e, IsEntry(e), HasName(e),
           BytesOf(e) = Stored(name), NameToString(e) = name
    PROVE  Canonical(name)
  <1>2. PICK d \in Nat : IsSplit(name, d) /\ BytesOf(e) = StoredAt(name, d)
      BY SplitName
  <1>3. PICK n \in Nat \ {0} : n = NameLen
      BY FatNameAssumption
  <1>4. PICK x \in Nat \ {0} : x = ExtLen
      BY FatNameAssumption
  <1>5. PICK l \in Nat \ {0} : l = Len(name)
      BY DEF IsShortName
  <1>6. d \in 2..(n + 1) /\ d <= l + 1 /\ (d # l + 1 => name[d] = Dot /\ d < l /\ l - d \in 1..x)
      BY <1>2, <1>3, <1>4, <1>5 DEF IsSplit
  <1>7. PICK s \in Seq(Nat) : s = e.name /\ Len(s) = n
    <2>1. e.name \in Seq(Nat) /\ Len(e.name) = n
        BY <1>3, EntrySeqs
    <2> QED
        BY <2>1, Zenon
  <1>8. PICK t \in Seq(Nat) : t = e.ext /\ Len(t) = x
    <2>1. e.ext \in Seq(Nat) /\ Len(e.ext) = x
        BY <1>4, EntrySeqs
    <2> QED
        BY <2>1, Zenon
  <1>9. s = [i \in 1..n |-> IF i < d THEN name[i] ELSE Blank]
    <2>1. e.name = [i \in 1..NameLen |-> IF i < d THEN name[i] ELSE Blank]
        BY <1>2 DEF BytesOf, StoredAt
    <2> QED
        BY <1>3, <1>7, <2>1, Zenon
  <1>10. t = [i \in 1..x |-> IF d + i <= l THEN name[d + i] ELSE Blank]
    <2>1. e.ext = [i \in 1..ExtLen |-> IF d + i <= Len(name) THEN name[d + i] ELSE Blank]
        BY <1>2 DEF BytesOf, StoredAt
    <2> QED
        BY <1>4, <1>5, <1>8, <2>1, Zenon
  <1>11. name[1] # Blank
    <2>1. s[1] # Blank
        BY <1>7 DEF HasName
    <2> QED
        BY <1>3, <1>6, <1>9, <2>1
  <1>12. PICK k \in 0..n : IsTrimmed(s, k)
      BY <1>7, TrimExists
  <1>13. k <= d - 1
    <2>1. SUFFICES ASSUME k >= d PROVE FALSE
        BY <1>6, <1>12
    <2>2. k \in 1..n /\ ~(k < d)
        BY <1>6, <1>12, <2>1
    <2>3. s[k] = Blank
        BY <1>9, <2>2
    <2> QED
        BY <1>12, <2>2, <2>3 DEF IsTrimmed
  <1>14. k = d - 1 => name[d - 1] # Blank
    <2> SUFFICES ASSUME k = d - 1 PROVE name[d - 1] # Blank
        OBVIOUS
    <2>1. d - 1 \in 1..n /\ d - 1 < d
        BY <1>6
    <2>2. s[d - 1] # Blank
        BY <1>6, <1>12 DEF IsTrimmed
    <2> QED
        BY <1>9, <2>1, <2>2
  <1>15. t[1] = Blank => l <= k
    <2> SUFFICES ASSUME t[1] = Blank PROVE l <= k
        OBVIOUS
    <2>1. NameToString(e) = CString(TrimBlanks(s))
        BY <1>7, <1>8 DEF NameToString
    <2> QED
        BY <1>5, <1>12, <2>1, NotLonger
  <1>16. CASE d = l + 1
    <2>1. t[1] = Blank
        BY <1>4, <1>5, <1>10, <1>16
    <2>2. k = l /\ name[l] # Blank
        BY <1>5, <1>6, <1>12, <1>13, <1>14, <1>15, <1>16, <2>1
    <2>3. \A i \in 1..l : name[i] # Dot
        BY <1>2, <1>5, <1>16 DEF IsSplit
    <2>4. ASSUME NEW i \in 1..Len(name), name[i] = Blank
          PROVE  i \in 2..(Len(name) - 1) /\ name[i - 1] # Dot /\ name[i + 1] # Dot
      <3>1. i # 1 /\ i # l
          BY <1>11, <2>2, <2>4
      <3>2. i \in 2..(l - 1) /\ i - 1 \in 1..l /\ i + 1 \in 1..l
          BY <1>5, <3>1
      <3> QED
          BY <1>5, <2>3, <3>2
    <2> QED
        BY <2>4 DEF Canonical
  <1>17. CASE d # l + 1
    <2>1. t[1] # Blank
        BY <1>5, <1>6, <1>12, <1>13, <1>15, <1>17
    <2>2. PICK b \in Seq(Nat) : b = TrimBlanks(s) /\ Len(b) = k
      <3>1. TrimBlanks(s) = SubSeq(s, 1, k)
          BY <1>12, TrimAt
      <3>2. SubSeq(s, 1, k) \in Seq(Nat) /\ Len(SubSeq(s, 1, k)) = k
          BY <1>7, <1>12, PieceIs
      <3> QED
          BY <3>1, <3>2, Zenon
    <2>3. PICK z \in Seq(Nat) : z = b \o <<Dot>> \o t
      <3>1. b \o <<Dot>> \o t \in Seq(Nat)
          BY <1>8, <2>2 DEF Dot
      <3> QED
          BY <3>1, Zenon
    <2>4. Len(z) = k + 1 + x /\ \A i \in 1..Len(z) : i > k + 1 => z[i] = t[i - k - 1]
      <3>1. PICK c \in Seq(Nat) : c = b \o <<Dot>> /\ Len(c) = k + 1
        <4>1. b \o <<Dot>> \in Seq(Nat) /\ Len(b \o <<Dot>>) = k + 1
            BY <2>2 DEF Dot
        <4> QED
            BY <4>1, Zenon
      <3>2. z = c \o t
          BY <2>3, <3>1, Zenon
      <3> HIDE DEF Dot
      <3>3. Len(z) = k + 1 + x
        <4>1. Len(z) = Len(c) + Len(t)
            BY <3>2, BehindFirst
        <4> QED
            BY <1>8, <3>1, <4>1, Zenon
      <3>4. ASSUME NEW i \in 1..Len(z), i > k + 1 PROVE z[i] = t[i - k - 1]
        <4>1. i - k - 1 = i - Len(c) /\ i > Len(c) /\ i \in 1..(Len(c) + Len(t))
          <5>1. k \in Nat /\ i \in 1..(k + 1 + x) /\ Len(c) = k + 1 /\ Len(t) = x
              BY <1>3, <1>8, <1>12, <3>1, <3>3
          <5> QED
              BY <1>4, <3>4, <5>1
        <4>2. z[i] = t[i - Len(c)]
            BY <3>2, <4>1, BehindFirst
        <4> QED
            BY <4>1, <4>2
      <3> QED
          BY <3>3, <3>4
    <2>5. PICK j \in 0..Len(z) : IsTrimmed(z, j)
        BY TrimExists
    <2>6. l <= j
      <3>1. NameToString(e) = CString(TrimBlanks(z))
          BY <1>7, <1>8, <2>1, <2>2, <2>3 DEF NameToString
      <3> QED
          BY <1>5, <2>5, <3>1, NotLonger
    <2>7. j <= k + 1 + (l - d)
      <3>1. SUFFICES ASSUME j > k + 1 + (l - d) PROVE FALSE
          BY <1>5, <1>6, <1>12, <2>4, <2>5
      <3>2. j \in 1..Len(z) /\ j > k + 1 /\ j - k - 1 \in 1..x /\ ~(d + (j - k - 1) <= l)
          BY <1>4, <1>5, <1>6, <1>12, <1>17, <2>4, <2>5, <3>1
      <3>3. z[j] = t[j - k - 1]
          BY <2>4, <3>2
      <3>4. t[j - k - 1] = Blank
          BY <1>10, <3>2
      <3>5. j # 0
          BY <3>2
      <3> QED
          BY <2>5, <3>3, <3>4, <3>5 DEF IsTrimmed
    <2>8. k = d - 1 /\ j = l
        BY <1>5, <1>6, <1>12, <1>13, <2>4, <2>5, <2>6, <2>7
    <2>9. name[d - 1] # Blank
        BY <1>14, <2>8
    <2>10. name[l] # Blank
      <3>1. z[l] # Blank
          BY <1>5, <2>5, <2>8 DEF IsTrimmed
      <3>2. l \in 1..Len(z) /\ l > k + 1 /\ l - k - 1 = l - d /\ l - d \in 1..x /\ d + (l - d) = l
          BY <1>4, <1>5, <1>6, <1>17, <2>4, <2>8
      <3>3. z[l] = t[l - d]
          BY <2>4, <3>2
      <3>4. t[l - d] = name[l]
          BY <1>10, <3>2
      <3> QED
          BY <3>1, <3>3, <3>4
    <2>11. name[d + 1] # Blank
        BY <1>4, <1>5, <1>6, <1>10, <1>17, <2>1
    <2>12. \A i \in 1..l : name[i] = Dot => i = d
        BY <1>2, <1>5 DEF IsSplit
    <2>13. ASSUME NEW i \in 1..Len(name), name[i] = Blank
           PROVE  i \in 2..(Len(name) - 1) /\ name[i - 1] # Dot /\ name[i + 1] # Dot
      <3>1. i # 1 /\ i # l /\ i # d - 1 /\ i # d + 1
          BY <1>11, <2>9, <2>10, <2>11, <2>13
      <3>2. i \in 2..(l - 1) /\ i - 1 \in 1..l /\ i + 1 \in 1..l /\ i - 1 # d /\ i + 1 # d
          BY <1>5, <1>6, <3>1
      <3> QED
          BY <1>5, <2>12, <3>2
    <2> QED
        BY <2>13 DEF Canonical
  <1> QED
      BY <1>16, <1>17

\* The entry of a name is not dummied out.
LEMMA StoredFirst ==
    ASSUME NEW name \in Seq(Nat), IsShortName(name), NEW e, BytesOf(e) = Stored(name)
    PROVE  e.name[1] # Deleted
  <1>1. PICK d \in Nat : IsSplit(name, d) /\ BytesOf(e) = StoredAt(name, d)
      BY SplitName
  <1>2. e.name = [i \in 1..NameLen |-> IF i < d THEN name[i] ELSE Blank]
      BY <1>1 DEF BytesOf, StoredAt
  <1>3. 1 \in 1..NameLen /\ 1 < d
      BY <1>1, FatNameAssumption DEF IsSplit
  <1>4. e.name[1] = name[1]
      BY <1>2, <1>3
  <1>5. 1 \in 1..Len(name)
      BY DEF IsShortName
  <1> QED
      BY <1>4, <1>5, ValidChars

\* What begins without a blank still does when the blanks are cut off.
LEMMA TrimBegins ==
    ASSUME NEW s \in Seq(Nat), s # <<>>, s[1] # Blank
    PROVE  TrimBlanks(s) \in Seq(Nat) /\ TrimBlanks(s) # <<>> /\ TrimBlanks(s)[1] = s[1]
  <1>1. PICK k \in 0..Len(s) : IsTrimmed(s, k)
      BY TrimExists
  <1>2. 1 \in 1..Len(s)
      OBVIOUS
  <1>3. k \in 1..Len(s)
      BY <1>1, <1>2 DEF IsTrimmed
  <1>4. PICK t : t = TrimBlanks(s) /\ t = SubSeq(s, 1, k)
      BY <1>1, TrimAt
  <1>5. t \in Seq(Nat) /\ Len(t) = k /\ t[1] = s[1]
      BY <1>3, <1>4, PieceIs
  <1> QED
      BY <1>3, <1>4, <1>5

\* How a string begins that may have a Nul.
LEMMA CStringBegins ==
    ASSUME NEW s \in Seq(Nat), s # <<>>
    PROVE  /\ s[1] = Nul => CString(s) = <<>>
           /\ s[1] # Nul => CString(s) # <<>> /\ CString(s)[1] = s[1]
  <1> DEFINE T == {i \in 1..Len(s) : s[i] = Nul} \cup {Len(s) + 1}
  <1>1. Len(s) \in Nat /\ 1 \in 1..Len(s)
      OBVIOUS
  <1>2. T \subseteq 1..(Len(s) + 1) /\ T # {} /\ T \subseteq Nat
      BY <1>1
  <1>3. 1 \in T <=> s[1] = Nul
      BY <1>1
  <1>4. CString(s) = SubSeq(s, 1, Min(T) - 1)
      BY Zenon DEF CString
  <1> HIDE DEF T
  <1>5. PICK m \in T : m = Min(T) /\ \A y \in T : m <= y
      BY <1>2, MinIsIn
  <1>6. m \in 1..(Len(s) + 1) /\ (m = 1 <=> s[1] = Nul)
      BY <1>1, <1>2, <1>3, <1>5
  <1>7. PICK k \in 0..Len(s) : k = m - 1
      BY <1>1, <1>6
  <1>8. PICK t : t = CString(s) /\ t = SubSeq(s, 1, k)
      BY <1>4, <1>5, <1>7
  <1>9. t \in Seq(Nat) /\ Len(t) = k /\ \A i \in 1..k : t[i] = s[i]
      BY <1>7, <1>8, PieceIs
  <1>10. ASSUME s[1] = Nul PROVE t = <<>>
    <2>1. Len(t) = 0
        BY <1>6, <1>7, <1>9, <1>10
    <2> QED
        BY <1>9, <2>1, EmptySeq
  <1>11. ASSUME s[1] # Nul PROVE t # <<>> /\ t[1] = s[1]
    <2>1. 1 \in 1..k
        BY <1>6, <1>7, <1>11
    <2> QED
        BY <1>9, <2>1
  <1> QED
      BY <1>8, <1>10, <1>11

\* What NameToString makes of an entry begins as the entry does.
LEMMA NameBegins ==
    ASSUME NEW e, IsEntry(e), HasName(e)
    PROVE  /\ e.name[1] = Nul => NameToString(e) = <<>>
           /\ e.name[1] # Nul => NameToString(e) # <<>> /\ NameToString(e)[1] = e.name[1]
  <1>1. PICK s \in Seq(Nat) : s = e.name /\ s # <<>>
    <2>1. e.name \in Seq(Nat) /\ Len(e.name) \in Nat \ {0}
        BY EntrySeqs
    <2> QED
        BY <2>1
  <1>2. PICK t \in Seq(Nat) : t = e.ext
      BY EntrySeqs
  <1>3. s[1] # Blank
      BY <1>1 DEF HasName
  <1>4. PICK b \in Seq(Nat) : b = TrimBlanks(s) /\ b # <<>> /\ b[1] = s[1]
      BY <1>1, <1>3, TrimBegins
  <1>5. PICK z \in Seq(Nat) : z = b \o <<Dot>> \o t /\ z # <<>> /\ z[1] = s[1]
    <2>1. PICK c : c = b \o <<Dot>>
        OBVIOUS
    <2>2. c \in Seq(Nat) /\ Len(c) = Len(b) + 1 /\ c[1] = b[1]
        BY <1>4, <2>1 DEF Dot
    <2>3. PICK d : d = c \o t
        OBVIOUS
    <2>4. d \in Seq(Nat) /\ (Len(c) > 0 => Len(d) > 0 /\ d[1] = c[1])
      <3>1. d \in Seq(Nat) /\ IsConcat(d, c, t)
          BY <1>2, <2>2, <2>3, ConcatIs
      <3> QED
          BY <3>1 DEF IsConcat
    <2>5. Len(b) > 0 /\ Len(b) \in Nat /\ Len(t) \in Nat
        BY <1>2, <1>4
    <2>6. d # <<>> /\ d[1] = b[1]
        BY <2>2, <2>4, <2>5
    <2> QED
        BY <1>4, <2>1, <2>3, <2>4, <2>6
  <1>6. PICK y \in Seq(Nat) : y = TrimBlanks(z) /\ y # <<>> /\ y[1] = s[1]
      BY <1>3, <1>5, TrimBegins
  <1>7. NameToString(e) = CString(b) \/ NameToString(e) = CString(y)
      BY <1>1, <1>2, <1>4, <1>5, <1>6 DEF NameToString
  <1> QED
      BY <1>1, <1>4, <1>6, <1>7, CStringBegins

\* Whom the loop is compared with: the disk itself, and fatedit.
Readers == {"disk", "fatedit"}

\* An entry that the reader takes for the name.
IsHit(r, e, name) ==
    /\ ~IsLong(e)
    /\ r = "disk" => Canonical(name) /\ BytesOf(e) = Stored(name)
    /\ r = "fatedit" =>
        IsShortName(name) /\ ~IsDummiedOut(e) /\ HasName(e) /\ NameToString(e) = name

\* What has to hold of an entry for the loop to find it as the reader does: what
\* KeptNames says, or that NameToString says something.
Good(r, e) ==
    ~IsLong(e) /\ ~IsDummiedOut(e) /\ ~IsLastInList(e) =>
        /\ HasName(e)
        /\ r = "disk" => (IsShortName(NameToString(e)) => Stored(NameToString(e)) = BytesOf(e))

\* FindInDirectory compares strings, the disk is compared by bytes: the same, for
\* an entry whose name NameToString gives back.
LEMMA EntryMatches ==
    ASSUME NEW r \in Readers, NEW name \in Seq(Nat), IsShortName(name), NEW e, IsEntry(e),
           NEW junk \in BOOLEAN, Good(r, e), ~IsLastInList(e)
    PROVE  Matches(e, name, junk) <=> IsHit(r, e, name)
  <1>1. CASE r = "disk"
    <2>1. ASSUME Matches(e, name, junk) PROVE IsHit(r, e, name)
      <3>1. ~IsLong(e) /\ ~IsDummiedOut(e)
          BY <2>1 DEF Matches
      <3>2. HasName(e)
          BY <3>1 DEF Good
      <3>3. NameToString(e) = name
          BY <2>1, <3>2 DEF Matches
      <3>4. BytesOf(e) = Stored(name)
          BY <1>1, <3>1, <3>3 DEF Good
      <3> QED
          BY <1>1, <3>1, <3>2, <3>3, <3>4, OnlyCanonical DEF IsHit
    <2>2. ASSUME IsHit(r, e, name) PROVE Matches(e, name, junk)
      <3>1. ~IsLong(e) /\ BytesOf(e) = Stored(name) /\ Canonical(name)
          BY <1>1, <2>2 DEF IsHit
      <3>2. ~IsDummiedOut(e)
          BY <3>1, StoredFirst DEF IsDummiedOut
      <3>3. HasName(e)
          BY <3>1, <3>2 DEF Good
      <3>4. NameToString(e) = name
          BY <3>1, GivenBack
      <3> QED
          BY <3>1, <3>2, <3>3, <3>4 DEF Matches
    <2> QED
        BY <2>1, <2>2
  <1>2. CASE r = "fatedit"
      BY <1>2 DEF IsHit, Matches, Good
  <1> QED
      BY <1>1, <1>2 DEF Readers

-----------------------------------------------------------------------------
(***************************************************************************)
(* Directories.                                                            *)
(***************************************************************************)

\* The entries of a directory from cluster c on.
SlotsFrom(im, c) == [i \in 1..Len(UnitsFrom(im, c)) |-> SlotAt(im, UnitsFrom(im, c)[i])]

\* A chain stays among the clusters.
LEMMA ChainClusters ==
    ASSUME NEW im \in Images, NEW c \in ClustersOf(im)
    PROVE  ChainOf(im, c) \in Seq(ClustersOf(im))
  <1> DEFINE V == Seq(ClustersOf(im)) \ {<<>>}
             n == Turns(im)
  <1>1. c \in Numbers(im) /\ n \in Nat
      BY TurnsPositive DEF Numbers
  <1>2. PICK u : IsWalk(u, im, c, n) /\ ChainOf(im, c) = u[n]
      BY <1>1, ChainWalk
  <1> HIDE DEF n
  <1>3. ASSUME NEW w \in V PROVE Grow(im, w) \in V
    <2>1. w \in Seq(ClustersOf(im)) /\ w # <<>> /\ Len(w) \in Nat
        BY <1>3
    <2>2. Last(w) \in ClustersOf(im)
      <3>1. Len(w) \in 1..Len(w)
          BY <2>1, EmptySeq
      <3> QED
          BY <2>1, <3>1, ElementOfSeq DEF Last
    <2>3. CASE LinkOf(im, Last(w)) < EndMark
      <3>1. PICK l \in ClustersOf(im) : l = LinkOf(im, Last(w))
          BY <2>2, <2>3, Links DEF Numbers
      <3>2. Grow(im, w) = Append(w, l)
          BY <2>3, <3>1 DEF Grow
      <3>3. Append(w, l) \in Seq(ClustersOf(im)) /\ Append(w, l) # <<>>
          BY <2>1, <3>1, AppendProperties
      <3> QED
          BY <3>2, <3>3
    <2>4. CASE ~(LinkOf(im, Last(w)) < EndMark)
        BY <2>4 DEF Grow
    <2> QED
        BY <2>3, <2>4
  <1>4. <<c>> \in V
      OBVIOUS
  <1>5. Stays(u, n, V)
    <2> HIDE DEF V
    <2>1. u[0] \in V
        BY <1>2, <1>4 DEF IsWalk
    <2>2. ASSUME NEW i \in 1..n, u[i - 1] \in V PROVE u[i] \in V
        BY <1>2, <1>3, <2>2 DEF IsWalk
    <2> QED
        BY <2>1, <2>2 DEF Stays
  <1>6. u[n] \in V
    <2> HIDE DEF V
    <2> QED
        BY <1>1, <1>5, HistoryType
  <1> QED
      BY <1>2, <1>6

\* An entry of a well formed image.
Entry(im, e) ==
    /\ e.cluster \in Numbers(im) /\ e.size \in Nat
    /\ IsEntry(e)

\* All entries are.
LEMMA EntryOfImage ==
    ASSUME NEW im \in Images, NEW c \in ClustersOf(im), NEW u \in 0..(ClusterUnits - 1)
    PROVE  Entry(im, im.slots[c][u])
  BY FatFsAssumption DEF ImageOK, Entry, IsEntry, Numbers

\* The length of a table.
LEMMA TableLen ==
    ASSUME NEW n \in Nat, NEW s, DOMAIN s = 1..n, s = [i \in 1..n |-> s[i]]
    PROVE  Len(s) = n
  <1>1. s \in Seq({s[i] : i \in 1..n})
      OBVIOUS
  <1> QED
      BY <1>1

\* The entries are as many as the units, and all of the image.
LEMMA SlotsAre ==
    ASSUME NEW im \in Images, NEW c \in ClustersOf(im)
    PROVE  /\ SlotsOf(im, c) = SlotsFrom(im, c)
           /\ Len(SlotsOf(im, c)) \in Nat
           /\ \A i \in 1..Len(SlotsOf(im, c)) : Entry(im, SlotsOf(im, c)[i])
  <1>1. c \in Numbers(im) /\ c \in Nat /\ c < EndMark
      BY Links DEF Numbers
  <1>2. UnitsFrom(im, c) = UnitsOf(im, c)
      BY <1>1, Marks DEF UnitsFrom
  <1>3. PICK us \in Units : us = UnitsOf(im, c)
      BY <1>1, UnitsAre
  <1>4. Len(us) \in Nat
      BY LenProperties DEF Units
  <1>5. PICK ch \in Seq(ClustersOf(im)) : ch = ChainOf(im, c)
      BY ChainClusters
  <1>6. PICK w \in Nat \ {0} : w = ClusterUnits
      BY ClusterUnitsPositive
  <1>7. /\ Len(us) = Len(ch) * w
        /\ \A i \in 1..Len(us) : us[i] = <<ch[((i - 1) \div w) + 1], (i - 1) % w>>
    <2>1. /\ Len(UnitsOf(im, c)) = Len(ChainOf(im, c)) * ClusterUnits
          /\ \A i \in 1..Len(UnitsOf(im, c)) :
                UnitsOf(im, c)[i] = <<ChainOf(im, c)[((i - 1) \div ClusterUnits) + 1],
                                      (i - 1) % ClusterUnits>>
        BY <1>1, UnitsAre
    <2> QED
        BY <1>3, <1>5, <1>6, <2>1, Zenon
  <1>8. PICK s : s = SlotsOf(im, c)
      OBVIOUS
  <1>9. s = [i \in 1..Len(us) |-> SlotAt(im, us[i])]
      BY <1>3, <1>8, Zenon DEF SlotsOf
  <1>10. Len(s) = Len(us)
    <2>1. PICK n \in Nat : n = Len(us)
        BY <1>4
    <2>2. DOMAIN s = 1..n
        BY <1>9, <2>1
    <2>3. s \in Seq({s[i] : i \in 1..n})
        BY <1>9, <2>1
    <2> QED
        BY <2>1, <2>2, <2>3
  <1>11. ASSUME NEW i \in 1..Len(us) PROVE Entry(im, s[i])
    <2>1. i - 1 \in Nat /\ Len(ch) \in Nat /\ i - 1 < Len(ch) * w
        BY <1>4, <1>7
    <2>2. (i - 1) \div w < Len(ch) /\ (i - 1) \div w \in Nat /\ (i - 1) % w \in 0..(w - 1)
        BY <1>6, <2>1, Places, DivBelow
    <2>3. PICK d \in ClustersOf(im) : d = ch[((i - 1) \div w) + 1]
      <3>1. ((i - 1) \div w) + 1 \in 1..Len(ch)
          BY <2>1, <2>2
      <3> QED
          BY <1>5, <3>1, ElementOfSeq
    <2>4. PICK v \in 0..(w - 1) : v = (i - 1) % w
        BY <2>2
    <2>5. us[i] = <<d, v>>
        BY <1>7, <2>3, <2>4, Zenon
    <2>6. s[i] = im.slots[d][v]
        BY <1>9, <2>5 DEF SlotAt
    <2> QED
        BY <1>6, <2>6, EntryOfImage
  <1> QED
      BY <1>2, <1>3, <1>4, <1>8, <1>10, <1>11 DEF SlotsFrom, SlotsOf

\* The entries of the first cluster come first.
LEMMA SlotsStep ==
    ASSUME NEW im \in Images, NEW c \in ClustersOf(im), NEW w \in Nat, w = ClusterUnits
    PROVE  LET a == SlotsFrom(im, c)
               b == SlotsFrom(im, LinkOf(im, c))
           IN  /\ Len(b) \in Nat /\ Len(a) = w + Len(b)
               /\ \A i \in 1..w : a[i] = im.slots[c][i - 1]
               /\ \A j \in 1..Len(b) : a[w + j] = b[j]
  <1>1. c \in Numbers(im) /\ c < EndMark /\ c \in Nat
      BY Links DEF Numbers
  <1>2. PICK f \in Units : f = FirstUnits(c) /\ Len(f) = w
    <2>1. FirstUnits(c) \in Units /\ Len(FirstUnits(c)) = ClusterUnits
        BY <1>1, UnitsStep
    <2> QED
        BY <2>1, Zenon
  <1>3. PICK g \in Units : g = UnitsFrom(im, LinkOf(im, c))
      BY <1>1, UnitsStep
  <1>4. UnitsFrom(im, c) = f \o g
    <2>1. UnitsFrom(im, c) = UnitsOf(im, c)
        BY <1>1, Marks DEF UnitsFrom
    <2>2. UnitsOf(im, c) = FirstUnits(c) \o UnitsFrom(im, LinkOf(im, c))
        BY <1>1, UnitsStep
    <2> QED
        BY <1>2, <1>3, <2>1, <2>2, Zenon
  <1>5. PICK h \in Units : h = f \o g /\ Len(h) = w + Len(g)
    <2>1. PICK S : S = Nat \X Int
        OBVIOUS
    <2>2. f \in Seq(S) /\ g \in Seq(S)
        BY <2>1 DEF Units
    <2>3. f \o g \in Seq(S) /\ Len(f \o g) = Len(f) + Len(g)
        BY <2>2, ConcatProperties
    <2> QED
        BY <1>2, <2>1, <2>3, Zenon DEF Units
  <1>6. Len(g) \in Nat /\ Len(h) \in Nat
      BY LenProperties DEF Units
  <1>7. (\A i \in 1..w : h[i] = f[i]) /\ (\A j \in 1..Len(g) : h[w + j] = g[j])
    <2>1. PICK S : S = Nat \X Int
        OBVIOUS
    <2>2. f \in Seq(S) /\ g \in Seq(S)
        BY <2>1 DEF Units
    <2>3. IsConcat(f \o g, f, g)
        BY <2>2, ConcatIs
    <2> QED
        BY <1>2, <1>5, <1>6, <2>3 DEF IsConcat
  <1>8. \A i \in 1..w : f[i] = <<c, i - 1>>
      BY <1>2 DEF FirstUnits
  <1>9. PICK a : a = SlotsFrom(im, c)
      OBVIOUS
  <1>10. PICK b : b = SlotsFrom(im, LinkOf(im, c))
      OBVIOUS
  <1>11. a = [i \in 1..Len(h) |-> SlotAt(im, h[i])]
      BY <1>4, <1>5, <1>9, Zenon DEF SlotsFrom
  <1>12. b = [i \in 1..Len(g) |-> SlotAt(im, g[i])]
      BY <1>3, <1>10, Zenon DEF SlotsFrom
  <1>13. Len(a) = Len(h)
      BY <1>6, <1>11, TableLen
  <1>14. Len(b) = Len(g)
      BY <1>6, <1>12, TableLen
  <1>15. \A i \in 1..w : a[i] = im.slots[c][i - 1]
    <2> TAKE i \in 1..w
    <2>1. i \in 1..Len(h)
        BY <1>5, <1>6
    <2>2. a[i] = SlotAt(im, h[i]) /\ h[i] = <<c, i - 1>>
        BY <1>7, <1>8, <1>11, <2>1
    <2> QED
        BY <2>2 DEF SlotAt
  <1>16. \A j \in 1..Len(b) : a[w + j] = b[j]
    <2> TAKE j \in 1..Len(b)
    <2>1. w + j \in 1..Len(h) /\ j \in 1..Len(g)
        BY <1>5, <1>6, <1>14
    <2>2. a[w + j] = SlotAt(im, h[w + j]) /\ h[w + j] = g[j] /\ b[j] = SlotAt(im, g[j])
        BY <1>7, <1>11, <1>12, <2>1
    <2> QED
        BY <2>2
  <1> QED
      BY <1>5, <1>6, <1>9, <1>10, <1>13, <1>14, <1>15, <1>16

-----------------------------------------------------------------------------
(***************************************************************************)
(* The search in a directory.                                              *)
(***************************************************************************)
AsFile(e) == FatFile(e.cluster, e.size, e.flag = "dir")

\* The entries before the end of the list that have the name.
Hits(r, slots, name) ==
    {i \in 1..Len(slots) : /\ IsHit(r, slots[i], name)
                           /\ \A j \in 1..Len(slots) : IsLastInList(slots[j]) => i < j}

\* What the reader finds there: the first one of them.
FirstIn(r, slots, name) ==
    IF Hits(r, slots, name) = {} THEN NoFile ELSE AsFile(slots[Min(Hits(r, slots, name))])

\* That is what WantIn finds, for a name that can be stored.
LEMMA WantIs ==
    ASSUME NEW slots, NEW name
    PROVE  FirstIn("disk", slots, name)
                = IF Canonical(name) THEN WantIn(slots, name) ELSE NoFile
  <1>1. CASE Canonical(name)
    <2> DEFINE ends == {i \in 1..Len(slots) : IsLastInList(slots[i])}
               hits == {i \in 1..Len(slots) : ~IsLong(slots[i]) /\ BytesOf(slots[i]) = Stored(name)
                                        /\ \A e \in ends : i < e}
    <2>1. \A e : IsHit("disk", e, name) <=> ~IsLong(e) /\ BytesOf(e) = Stored(name)
        BY <1>1 DEF IsHit
    <2>2. hits = Hits("disk", slots, name)
        BY <2>1, Zenon DEF Hits
    <2>3. WantIn(slots, name) = IF hits = {} THEN NoFile ELSE AsFile(slots[Min(hits)])
        BY Zenon DEF WantIn, AsFile
    <2> HIDE DEF hits
    <2> QED
        BY <1>1, <2>2, <2>3, Zenon DEF FirstIn
  <1>2. CASE ~Canonical(name)
    <2>1. Hits("disk", slots, name) = {}
        BY <1>2 DEF Hits, IsHit
    <2> QED
        BY <1>2, <2>1 DEF FirstIn
  <1> QED
      BY <1>1, <1>2

\* The first one is found.
LEMMA FirstHit ==
    ASSUME NEW r, NEW slots, NEW name, Len(slots) \in Nat, NEW u \in 1..Len(slots),
           IsHit(r, slots[u], name), \A i \in 1..Len(slots) : i < u => ~IsHit(r, slots[i], name),
           \A i \in 1..Len(slots) : i <= u => ~IsLastInList(slots[i])
    PROVE  FirstIn(r, slots, name) = AsFile(slots[u])
  <1>1. u \in Hits(r, slots, name)
      BY DEF Hits
  <1>2. \A i \in Hits(r, slots, name) : u <= i
      BY DEF Hits
  <1>3. Hits(r, slots, name) \subseteq Nat
      BY DEF Hits
  <1>4. Min(Hits(r, slots, name)) \in Hits(r, slots, name)
        /\ \A y \in Hits(r, slots, name) : Min(Hits(r, slots, name)) <= y
      BY <1>1, <1>3, MinIsIn
  <1>5. Min(Hits(r, slots, name)) = u
    <2>1. PICK H : H = Hits(r, slots, name)
        OBVIOUS
    <2>2. PICK m \in H : m = Min(H) /\ m <= u
        BY <1>1, <1>4, <2>1
    <2>3. u <= m /\ m \in Nat
        BY <1>2, <1>3, <2>1, <2>2
    <2>4. m = u
        BY <2>2, <2>3
    <2> QED
        BY <2>1, <2>2, <2>4
  <1> QED
      BY <1>1, <1>5 DEF FirstIn

\* Nothing is found when the list ends before one.
LEMMA FirstEnd ==
    ASSUME NEW r, NEW slots, NEW name, Len(slots) \in Nat, NEW u \in 1..Len(slots),
           IsLastInList(slots[u]), \A i \in 1..Len(slots) : i < u => ~IsHit(r, slots[i], name)
    PROVE  FirstIn(r, slots, name) = NoFile
  <1>1. Hits(r, slots, name) = {}
      BY DEF Hits
  <1> QED
      BY <1>1 DEF FirstIn

\* An empty list.
LEMMA FirstNone ==
    ASSUME NEW r, NEW slots, NEW name, Len(slots) = 0 PROVE FirstIn(r, slots, name) = NoFile
  <1>1. Hits(r, slots, name) = {}
      BY DEF Hits
  <1> QED
      BY <1>1 DEF FirstIn

\* What is behind a piece without a hit and without the end.
LEMMA FirstBehind ==
    ASSUME NEW r, NEW a, NEW b, NEW name, NEW w \in Nat, Len(b) \in Nat, Len(a) = w + Len(b),
           \A j \in 1..Len(b) : a[w + j] = b[j],
           \A i \in 1..w : ~IsHit(r, a[i], name) /\ ~IsLastInList(a[i])
    PROVE  FirstIn(r, a, name) = FirstIn(r, b, name)
  <1>1. PICK n \in Nat : n = Len(b)
      OBVIOUS
  <1>2. PICK H : H = Hits(r, a, name)
      OBVIOUS
  <1>3. PICK G : G = Hits(r, b, name)
      OBVIOUS
  <1>4. H \subseteq Nat /\ G \subseteq 1..n
      BY <1>1, <1>2, <1>3 DEF Hits
  <1>5. \A j \in 1..n : w + j \in H <=> j \in G
    <2> TAKE j \in 1..n
    <2>1. w + j \in 1..Len(a) /\ a[w + j] = b[j]
        BY <1>1
    <2>2. ASSUME w + j \in H PROVE j \in G
      <3>1. IsHit(r, b[j], name)
          BY <1>2, <2>1, <2>2 DEF Hits
      <3>2. ASSUME NEW k \in 1..n, IsLastInList(b[k]) PROVE j < k
        <4>1. w + k \in 1..Len(a) /\ IsLastInList(a[w + k])
            BY <1>1, <3>2
        <4>2. w + j < w + k
            BY <1>2, <2>2, <4>1 DEF Hits
        <4> QED
            BY <4>2
      <3> QED
          BY <1>1, <1>3, <3>1, <3>2 DEF Hits
    <2>3. ASSUME j \in G PROVE w + j \in H
      <3>1. IsHit(r, a[w + j], name)
          BY <1>3, <2>1, <2>3 DEF Hits
      <3>2. ASSUME NEW k \in 1..Len(a), IsLastInList(a[k]) PROVE w + j < k
        <4>1. k \notin 1..w
            BY <3>2
        <4>2. k - w \in 1..n /\ k = w + (k - w)
            BY <1>1, <4>1
        <4>3. IsLastInList(b[k - w])
            BY <1>1, <3>2, <4>2
        <4>4. j < k - w
            BY <1>1, <1>3, <2>3, <4>2, <4>3 DEF Hits
        <4> QED
            BY <1>1, <4>2, <4>4
      <3> QED
          BY <1>2, <2>1, <3>1, <3>2 DEF Hits
    <2> QED
        BY <2>2, <2>3
  <1>6. \A i \in H : \E j \in 1..n : i = w + j /\ j \in G
    <2> TAKE i \in H
    <2>1. i \in 1..Len(a) /\ i \notin 1..w
        BY <1>2 DEF Hits
    <2>2. i - w \in 1..n /\ i = w + (i - w)
        BY <1>1, <2>1
    <2> QED
        BY <1>5, <2>2
  <1>7. CASE G = {}
    <2>1. H = {}
        BY <1>6, <1>7
    <2> QED
        BY <1>2, <1>3, <1>7, <2>1 DEF FirstIn
  <1>8. CASE G # {}
    <2>1. G \subseteq Nat
        BY <1>4
    <2>2. PICK m \in G : m = Min(G) /\ \A y \in G : m <= y
        BY <1>8, <2>1, MinIsIn
    <2>3. m \in 1..n /\ w + m \in H
        BY <1>4, <1>5, <2>2
    <2>4. PICK k \in H : k = Min(H) /\ \A y \in H : k <= y
        BY <1>4, <2>3, MinIsIn
    <2>5. k = w + m
      <3>1. PICK j \in 1..n : k = w + j /\ j \in G
          BY <1>6
      <3>2. m <= j /\ k <= w + m
          BY <2>2, <2>3, <2>4, <3>1
      <3> QED
          BY <2>3, <3>1, <3>2
    <2>6. a[k] = b[m]
        BY <1>1, <2>3, <2>5
    <2>7. FirstIn(r, a, name) = AsFile(a[k]) /\ FirstIn(r, b, name) = AsFile(b[m])
        BY <1>2, <1>3, <1>8, <2>2, <2>3, <2>4 DEF FirstIn
    <2> QED
        BY <2>6, <2>7
  <1> QED
      BY <1>7, <1>8

-----------------------------------------------------------------------------
(***************************************************************************)
(* The scan of fatedit.                                                    *)
(***************************************************************************)
\* s is what ScanDirectory has found after each of the slots.
IsScan(s, slots, n) ==
    /\ s[0] = Fresh(<<>>)
    /\ \A i \in 1..n : s[i] = ScanSlot(s[i - 1], slots[i])

LEMMA ScanExists ==
    ASSUME NEW slots, NEW n \in Nat, n = Len(slots)
    PROVE  \E s : /\ IsScan(s, slots, n)
                  /\ ScanDirectory(slots)
                        = [ok |-> s[n].at \in {"entry", "end"}, list |-> s[n].list]
  <1> DEFINE E(g, m) == [i \in 0..m |-> IF i = 0 THEN Fresh(<<>>) ELSE ScanSlot(g[i - 1], slots[i])]
             T == {m \in 0..n : \E f : f = E(f, m)}
             u == CHOOSE g : g = E(g, n)
  <1>1. 0 \in T
    <2> DEFINE g == [i \in 0..0 |-> Fresh(<<>>)]
    <2>1. g = E(g, 0)
        OBVIOUS
    <2> HIDE DEF g
    <2> QED
        BY <2>1
  <1>2. ASSUME NEW m \in 0..(n - 1), m \in T PROVE m + 1 \in T
    <2>1. PICK f : f = E(f, m)
        BY <1>2
    <2>2. PICK z : z = ScanSlot(f[m], slots[m + 1])
        OBVIOUS
    <2> DEFINE g == [i \in 0..(m + 1) |-> IF i = m + 1 THEN z ELSE f[i]]
    <2>3. m + 1 \in 0..n /\ m \in Nat
        OBVIOUS
    <2>4. \A i \in 0..m : g[i] = f[i]
        OBVIOUS
    <2>5. g[m + 1] = z
        BY <2>3
    <2>6. DOMAIN g = 0..(m + 1)
        OBVIOUS
    <2>7. g = [i \in 0..(m + 1) |-> g[i]]
        OBVIOUS
    <2> HIDE DEF g
    <2>8. ASSUME NEW i \in 0..(m + 1)
          PROVE  g[i] = IF i = 0 THEN Fresh(<<>>) ELSE ScanSlot(g[i - 1], slots[i])
      <3>1. CASE i = m + 1
          BY <2>2, <2>3, <2>4, <2>5, <3>1
      <3>2. CASE i \in 0..m
        <4>1. g[i] = IF i = 0 THEN Fresh(<<>>) ELSE ScanSlot(f[i - 1], slots[i])
            BY <2>1, <2>4, <3>2
        <4>2. i # 0 => i - 1 \in 0..m
            BY <3>2
        <4> QED
            BY <2>4, <4>1, <4>2
      <3> QED
          BY <3>1, <3>2
    <2>9. g = E(g, m + 1)
        BY <2>7, <2>8
    <2> QED
        BY <2>3, <2>9
  <1> HIDE DEF T
  <1>3. \A m \in 0..n : m \in T
      BY <1>1, <1>2, UpTo
  <1>4. \E g : g = E(g, n)
      BY <1>3 DEF T
  <1>5. u = E(u, n)
    <2> HIDE DEF E
    <2> QED
        BY <1>4
  <1> HIDE DEF u
  <1>6. IsScan(u, slots, n)
      BY <1>5 DEF IsScan
  <1>7. ScanDirectory(slots) = [ok |-> u[n].at \in {"entry", "end"}, list |-> u[n].list]
      BY Zenon DEF ScanDirectory, u
  <1> QED
      BY <1>6, <1>7

\* A record of the loop.
IsState(s) == s = Scan(s.at, s.seq, s.chk, s.text, s.list)

\* What is put on the list for an entry.
ListedAs(x, e) ==
    x.short = NameToString(e) /\ x.cluster = e.cluster /\ x.size = e.size /\ x.flag = e.flag

\* What one turn of the loop can do: give up, pass an entry, see the end, or
\* put an entry on the list.
GivesUp(s, t) == t.list = s.list /\ t.at = "broken"
Passes(s, t, e) ==
    /\ t.list = s.list /\ t.at \in {"entry", "part", "short"}
    /\ t.at = "part" => t.seq \in Nat \ {0}
    /\ ~IsLastInList(e) /\ (IsLong(e) \/ IsDummiedOut(e))
Ends(s, t, e) == t.list = s.list /\ t.at = "end" /\ IsLastInList(e)
Lists(s, t, e) ==
    /\ t.at = "entry" /\ HasName(e) /\ ~IsLong(e)
    /\ \E x : t.list = Append(s.list, x) /\ ListedAs(x, e)

LEMMA AcceptTurn ==
    ASSUME NEW s, IsState(s), NEW e, NEW long, NEW t, t = Accept(s, e, long), ~IsLong(e)
    PROVE  IsState(t) /\ (GivesUp(s, t) \/ Lists(s, t, e))
  <1>1. CASE HasName(e)
    <2>1. PICK x : x = [short |-> NameToString(e), flag |-> e.flag,
                        long |-> IF long = <<>> THEN NameToString(e) ELSE long,
                        cluster |-> e.cluster, size |-> e.size]
        OBVIOUS
    <2>2. t = Fresh(Append(s.list, x))
        BY <1>1, <2>1 DEF Accept
    <2>3. t.at = "entry" /\ t.list = Append(s.list, x) /\ IsState(t)
        BY <2>2 DEF Fresh, Scan, IsState
    <2>4. ListedAs(x, e)
        BY <2>1 DEF ListedAs
    <2> QED
        BY <1>1, <2>3, <2>4 DEF Lists
  <1>2. CASE ~HasName(e)
    <2>1. t = Broken(s)
        BY <1>2 DEF Accept
    <2>2. s = [at |-> s.at, seq |-> s.seq, chk |-> s.chk, text |-> s.text, list |-> s.list]
        BY DEF IsState, Scan
    <2> QED
        BY <2>1, <2>2 DEF Broken, GivesUp, IsState, Scan
  <1> QED
      BY <1>1, <1>2

LEMMA PartTurn ==
    ASSUME NEW s, IsState(s), NEW e, NEW seq \in Nat \ {0}, NEW text, NEW t,
           t = LongPart(s, e, seq, text), IsLong(e), ~IsLastInList(e)
    PROVE  IsState(t) /\ (GivesUp(s, t) \/ Passes(s, t, e))
  <1>1. CASE Len(CString(e.part)) = 0
    <2>1. t = Broken(s)
        BY <1>1 DEF LongPart
    <2>2. s = [at |-> s.at, seq |-> s.seq, chk |-> s.chk, text |-> s.text, list |-> s.list]
        BY DEF IsState, Scan
    <2> QED
        BY <2>1, <2>2 DEF Broken, GivesUp, IsState, Scan
  <1>2. CASE Len(CString(e.part)) # 0
    <2>1. PICK y : y = CString(e.part) \o text
        OBVIOUS
    <2>2. PICK a : a = IF seq = 1 THEN "short" ELSE "part"
        OBVIOUS
    <2>3. t = Scan(a, seq - 1, e.chk, y, s.list)
        BY <1>2, <2>1, <2>2 DEF LongPart
    <2>4. t.at = a /\ t.seq = seq - 1 /\ t.list = s.list /\ IsState(t)
        BY <2>3 DEF Scan, IsState
    <2>5. a \in {"entry", "part", "short"} /\ (a = "part" => seq - 1 \in Nat \ {0})
        BY <2>2
    <2> QED
        BY <2>4, <2>5 DEF Passes
  <1> QED
      BY <1>1, <1>2

\* The number of a part, from the first byte of its name.
LEMMA SequenceBound ==
    ASSUME NEW e, IsEntry(e)
    PROVE  /\ SequenceNumber(e) \in Nat
           /\ SequenceNumber(e) >= 1 => ~IsLastInList(e)
  <1>1. PICK b \in Nat : b = e.name[1]
      BY FatNameAssumption DEF IsEntry
  <1> QED
      BY <1>1 DEF SequenceNumber, IsLastInList, Nul

LEMMA ScanTurn ==
    ASSUME NEW s, IsState(s), NEW e, IsEntry(e), NEW t, t = ScanSlot(s, e),
           s.at \in {"entry", "part", "short"}, s.at = "part" => s.seq \in Nat \ {0}
    PROVE  IsState(t) /\ (GivesUp(s, t) \/ Passes(s, t, e) \/ Ends(s, t, e) \/ Lists(s, t, e))
  <1>0. s = [at |-> s.at, seq |-> s.seq, chk |-> s.chk, text |-> s.text, list |-> s.list]
      BY DEF IsState, Scan
  <1>1. ASSUME t = Broken(s) PROVE IsState(t) /\ GivesUp(s, t)
      BY <1>0, <1>1 DEF Broken, GivesUp, IsState, Scan
  <1>2. CASE s.at = "entry" /\ IsDummiedOut(e)
    <2>1. t = s
        BY <1>2 DEF ScanSlot
    <2>2. ~IsLastInList(e)
        BY <1>2 DEF IsDummiedOut, IsLastInList, Deleted, Nul
    <2> QED
        BY <1>2, <2>1, <2>2 DEF Passes
  <1>3. CASE s.at = "entry" /\ ~IsDummiedOut(e) /\ IsLastInList(e)
    <2>1. t = [s EXCEPT !.at = "end"]
        BY <1>3 DEF ScanSlot
    <2> QED
        BY <1>0, <1>3, <2>1 DEF Ends, IsState, Scan
  <1>4. CASE s.at = "entry" /\ ~IsDummiedOut(e) /\ ~IsLastInList(e) /\ IsLong(e)
    <2>1. t = IF IsLast(e) /\ SequenceNumber(e) >= 1
              THEN LongPart(s, e, SequenceNumber(e), <<>>) ELSE Broken(s)
        BY <1>4 DEF ScanSlot
    <2>2. CASE IsLast(e) /\ SequenceNumber(e) >= 1
      <3>1. PICK q \in Nat \ {0} : q = SequenceNumber(e)
          BY <2>2, SequenceBound
      <3>2. t = LongPart(s, e, q, <<>>)
          BY <2>1, <2>2, <3>1
      <3> QED
          BY <1>4, <3>2, PartTurn
    <2> QED
        BY <1>1, <2>1, <2>2
  <1>5. CASE s.at = "entry" /\ ~IsDummiedOut(e) /\ ~IsLastInList(e) /\ ~IsLong(e)
    <2>1. t = Accept(s, e, <<>>)
        BY <1>5 DEF ScanSlot
    <2> QED
        BY <1>5, <2>1, AcceptTurn
  <1>6. CASE s.at = "part"
    <2>1. t = IF IsLong(e) /\ ~IsLast(e) /\ SequenceNumber(e) = s.seq /\ e.chk = s.chk
              THEN LongPart(s, e, s.seq, s.text) ELSE Broken(s)
        BY <1>6 DEF ScanSlot
    <2>2. CASE IsLong(e) /\ ~IsLast(e) /\ SequenceNumber(e) = s.seq /\ e.chk = s.chk
      <3>1. PICK q \in Nat \ {0} : q = s.seq
          BY <1>6
      <3>2. ~IsLastInList(e)
          BY <2>2, <3>1, SequenceBound
      <3>3. PICK y : y = s.text
          OBVIOUS
      <3>4. t = LongPart(s, e, q, y)
          BY <2>1, <2>2, <3>1, <3>3
      <3> QED
          BY <2>2, <3>2, <3>4, PartTurn
    <2> QED
        BY <1>1, <2>1, <2>2
  <1>7. CASE s.at = "short"
    <2>1. t = IF ~IsLong(e) /\ Checksum(e) = s.chk THEN Accept(s, e, s.text) ELSE Broken(s)
        BY <1>7 DEF ScanSlot
    <2>2. CASE ~IsLong(e) /\ Checksum(e) = s.chk
      <3>1. PICK y : y = s.text
          OBVIOUS
      <3>2. t = Accept(s, e, y)
          BY <2>1, <2>2, <3>1
      <3> QED
          BY <2>2, <3>2, AcceptTurn
    <2> QED
        BY <1>1, <2>1, <2>2
  <1> QED
      BY <1>2, <1>3, <1>4, <1>5, <1>6, <1>7

\* Behind the end, and when it gave up, the loop does nothing.
LEMMA ScanRests ==
    ASSUME NEW s, NEW e, s.at \in {"end", "broken"}
    PROVE  ScanSlot(s, e) = s
  BY DEF ScanSlot

\* An entry of the list has the name.
Named(x, name) == x.long = name \/ x.short = name

\* An entry of a list that is Apart.
EntryApart(x) == x.short # <<>> /\ (x.long = x.short \/ ~IsShortName(x.long))

\* What was put on the list for an entry has a name if the entry has it.
LEMMA NamedIsHit ==
    ASSUME NEW e, IsEntry(e), HasName(e), ~IsLong(e), NEW x, ListedAs(x, e), EntryApart(x),
           NEW name, IsShortName(name)
    PROVE  ~IsLastInList(e) /\ (Named(x, name) <=> IsHit("fatedit", e, name))
  <1>1. x.short = NameToString(e) /\ x.short # <<>>
      BY DEF ListedAs, EntryApart
  <1>2. ~IsLastInList(e)
      BY <1>1, NameBegins DEF IsLastInList
  <1>3. x.short[1] = e.name[1]
      BY <1>1, <1>2, NameBegins DEF IsLastInList
  <1>4. IsDummiedOut(e) => x.short # name
    <2>1. IsValidFatChar(name[1])
      <3>1. Len(name) \in 1..(NameLen + 1 + ExtLen)
          BY DEF IsShortName
      <3>2. 1 \in 1..Len(name)
          BY <3>1
      <3> QED
          BY <3>2 DEF IsShortName
    <2>2. name[1] # Deleted
        BY <2>1 DEF IsValidFatChar, Deleted
    <2> QED
        BY <1>3, <2>2 DEF IsDummiedOut
  <1>5. Named(x, name) <=> x.short = name
      BY DEF Named, EntryApart
  <1>6. IsHit("fatedit", e, name) <=> ~IsDummiedOut(e) /\ x.short = name
      BY <1>1 DEF IsHit
  <1> QED
      BY <1>2, <1>4, <1>5, <1>6

\* A list with one entry more.
Adds(more, list, x) == more = Append(list, x)
IsLonger(more, list, x) ==
    /\ Len(list) \in Nat /\ Len(more) = Len(list) + 1
    /\ \A i \in 1..Len(list) : more[i] = list[i]
    /\ more[Len(more)] = x

LEMMA ListedMore ==
    ASSUME NEW S, NEW list \in Seq(S), NEW x, NEW more, Adds(more, list, x)
    PROVE  /\ IsLonger(more, list, x)
           /\ more \in Seq(S \cup {x})
           /\ Apart(more) => Apart(list) /\ EntryApart(x)
  <1>1. PICK T : T = S \cup {x}
      OBVIOUS
  <1>2. list \in Seq(T) /\ x \in T
      BY <1>1
  <1>3. /\ more \in Seq(T) /\ Len(more) = Len(list) + 1 /\ Len(list) \in Nat
        /\ \A i \in 1..Len(list) : more[i] = list[i]
        /\ more[Len(more)] = x
      BY <1>2 DEF Adds
  <1>4. ASSUME Apart(more) PROVE Apart(list) /\ EntryApart(x)
    <2>1. \A i \in 1..Len(more) : EntryApart(more[i])
        BY <1>4 DEF Apart, EntryApart
    <2>2. \A i \in 1..Len(list) : EntryApart(list[i])
        BY <1>3, <2>1
    <2>3. EntryApart(x)
        BY <1>3, <2>1
    <2> QED
        BY <2>2, <2>3 DEF Apart, EntryApart
  <1> QED
      BY <1>1, <1>3, <1>4 DEF IsLonger

LEMMA ListedNames ==
    ASSUME NEW list, NEW more, NEW n \in Nat, Len(list) = n, Len(more) = n + 1,
           \A i \in 1..n : more[i] = list[i], NEW name
    PROVE  /\ \A i : i \in Listed(list, name) <=> (i \in Listed(more, name) /\ i # n + 1)
           /\ n + 1 \in Listed(more, name) <=> Named(more[n + 1], name)
  <1>1. \A i : i \in Listed(list, name) <=> (i \in Listed(more, name) /\ i # n + 1)
    <2> TAKE i
    <2>1. i \in 1..n <=> i \in 1..(n + 1) /\ i # n + 1
        OBVIOUS
    <2> QED
        BY <2>1 DEF Listed
  <1>2. n + 1 \in Listed(more, name) <=> Named(more[n + 1], name)
      BY DEF Listed, Named
  <1> QED
      BY <1>1, <1>2

\* Up to an entry there is neither an end nor a name that cannot be read.
Clean(slots, k) ==
    \A i \in 1..k : ~IsLastInList(slots[i]) /\ Good("fatedit", slots[i])

\* No entry has the name, and none is listed with it.
NoneNamed(slots, k, list, name) ==
    /\ \A i \in 1..k : ~IsHit("fatedit", slots[i], name)
    /\ Listed(list, name) = {}

\* The first that has it and the first listed with it are the same.
SameNamed(slots, k, list, name) ==
    \E u \in 1..k, v \in 1..Len(list) :
        /\ IsHit("fatedit", slots[u], name)
        /\ \A i \in 1..k : i < u => ~IsHit("fatedit", slots[i], name)
        /\ v \in Listed(list, name) /\ \A i \in Listed(list, name) : v <= i
        /\ AsFile(slots[u]) = AsFile(list[v])

Matched(slots, k, list, name) ==
    NoneNamed(slots, k, list, name) \/ SameNamed(slots, k, list, name)

\* One entry more that does not have the name.
LEMMA MatchedPass ==
    ASSUME NEW slots, NEW k \in Nat, NEW list, NEW name, Matched(slots, k, list, name),
           ~IsHit("fatedit", slots[k + 1], name)
    PROVE  Matched(slots, k + 1, list, name)
  <1>1. \A i \in 1..(k + 1) : i \in 1..k \/ i = k + 1
      OBVIOUS
  <1>2. CASE NoneNamed(slots, k, list, name)
      BY <1>1, <1>2 DEF Matched, NoneNamed
  <1>3. CASE SameNamed(slots, k, list, name)
    <2>1. PICK u \in 1..k, v \in 1..Len(list) :
            /\ IsHit("fatedit", slots[u], name)
            /\ \A i \in 1..k : i < u => ~IsHit("fatedit", slots[i], name)
            /\ v \in Listed(list, name) /\ \A i \in Listed(list, name) : v <= i
            /\ AsFile(slots[u]) = AsFile(list[v])
        BY <1>3 DEF SameNamed
    <2>2. u \in 1..(k + 1) /\ \A i \in 1..(k + 1) : i < u => ~IsHit("fatedit", slots[i], name)
        BY <1>1, <2>1
    <2>3. SameNamed(slots, k + 1, list, name)
        BY <2>1, <2>2 DEF SameNamed
    <2> QED
        BY <2>3 DEF Matched
  <1> QED
      BY <1>2, <1>3 DEF Matched

\* One entry more that is listed.
LEMMA MatchedList ==
    ASSUME NEW slots, NEW k \in Nat, NEW S, NEW list \in Seq(S), NEW name,
           Matched(slots, k, list, name), NEW x, NEW more, Adds(more, list, x),
           Named(x, name) <=> IsHit("fatedit", slots[k + 1], name),
           AsFile(x) = AsFile(slots[k + 1])
    PROVE  Matched(slots, k + 1, more, name)
  <1>1. \A i \in 1..(k + 1) : i \in 1..k \/ i = k + 1
      OBVIOUS
  <1>2. /\ Len(list) \in Nat /\ Len(more) = Len(list) + 1
        /\ \A i \in 1..Len(list) : more[i] = list[i]
        /\ more[Len(more)] = x
        /\ \A i : i \in Listed(list, name) <=> i \in Listed(more, name) /\ i # Len(more)
        /\ Len(more) \in Listed(more, name) <=> Named(x, name)
    <2>1. /\ Len(list) \in Nat /\ Len(more) = Len(list) + 1
          /\ \A i \in 1..Len(list) : more[i] = list[i]
          /\ more[Len(more)] = x
      <3>1. IsLonger(more, list, x)
          BY ListedMore
      <3> QED
          BY <3>1 DEF IsLonger
    <2>2. PICK m \in Nat : m = Len(list)
        BY <2>1
    <2>3. /\ \A i : i \in Listed(list, name) <=> (i \in Listed(more, name) /\ i # m + 1)
          /\ m + 1 \in Listed(more, name) <=> Named(more[m + 1], name)
        BY <2>1, <2>2, ListedNames
    <2> QED
        BY <2>1, <2>2, <2>3
  <1>3. Listed(more, name) \subseteq 1..Len(more)
      BY DEF Listed
  <1>4. CASE NoneNamed(slots, k, list, name) /\ ~Named(x, name)
    <2>1. Listed(more, name) = {}
        BY <1>2, <1>4 DEF NoneNamed
    <2> QED
        BY <1>1, <1>4, <2>1 DEF Matched, NoneNamed
  <1>5. CASE NoneNamed(slots, k, list, name) /\ Named(x, name)
    <2>1. \A i \in Listed(more, name) : i = Len(more)
        BY <1>2, <1>5 DEF NoneNamed
    <2>2. Len(more) \in 1..Len(more) /\ Len(more) \in Listed(more, name) /\ k + 1 \in 1..(k + 1)
        BY <1>2, <1>5
    <2>3. \A i \in 1..(k + 1) : i < k + 1 => ~IsHit("fatedit", slots[i], name)
        BY <1>1, <1>5 DEF NoneNamed
    <2>4. \A i \in Listed(more, name) : Len(more) <= i
        BY <1>2, <2>1
    <2>5. IsHit("fatedit", slots[k + 1], name) /\ AsFile(slots[k + 1]) = AsFile(more[Len(more)])
        BY <1>2, <1>5
    <2>6. SameNamed(slots, k + 1, more, name)
        BY <2>2, <2>3, <2>4, <2>5 DEF SameNamed
    <2> QED
        BY <2>6 DEF Matched
  <1>6. CASE SameNamed(slots, k, list, name)
    <2>1. PICK u \in 1..k, v \in 1..Len(list) :
            /\ IsHit("fatedit", slots[u], name)
            /\ \A i \in 1..k : i < u => ~IsHit("fatedit", slots[i], name)
            /\ v \in Listed(list, name) /\ \A i \in Listed(list, name) : v <= i
            /\ AsFile(slots[u]) = AsFile(list[v])
        BY <1>6 DEF SameNamed
    <2>2. u \in 1..(k + 1) /\ \A i \in 1..(k + 1) : i < u => ~IsHit("fatedit", slots[i], name)
        BY <1>1, <2>1
    <2>3. v \in 1..Len(more) /\ v # Len(more) /\ more[v] = list[v]
        BY <1>2, <2>1
    <2>4. v \in Listed(more, name) /\ \A i \in Listed(more, name) : v <= i
      <3>1. v \in Listed(more, name)
          BY <1>2, <2>1
      <3>2. ASSUME NEW i \in Listed(more, name) PROVE v <= i
        <4>1. CASE i = Len(more)
            BY <2>3, <1>2, <4>1
        <4>2. CASE i # Len(more)
            BY <1>2, <2>1, <3>2, <4>2
        <4> QED
            BY <4>1, <4>2
      <3> QED
          BY <3>1, <3>2
    <2>5. AsFile(slots[u]) = AsFile(more[v])
        BY <2>1, <2>3
    <2>6. SameNamed(slots, k + 1, more, name)
        BY <2>1, <2>2, <2>3, <2>4, <2>5 DEF SameNamed
    <2> QED
        BY <2>6 DEF Matched
  <1> QED
      BY <1>4, <1>5, <1>6 DEF Matched

\* What is true of the loop after n entries.
ScanInv(s, slots, n, name) ==
    /\ IsState(s) /\ \E S : s.list \in Seq(S)
    /\ s.at \in {"entry", "part", "short", "end", "broken"}
    /\ s.at = "part" => s.seq \in Nat \ {0}
    /\ s.at # "broken" /\ Apart(s.list) =>
        \E k \in 0..n :
            /\ Clean(slots, k) /\ Matched(slots, k, s.list, name)
            /\ s.at = "end" => k < n /\ IsLastInList(slots[k + 1])
            /\ s.at # "end" => k = n

LEMMA ScanBegins ==
    ASSUME NEW slots, NEW name
    PROVE  ScanInv(Fresh(<<>>), slots, 0, name)
  <1>1. PICK s : s = Fresh(<<>>)
      OBVIOUS
  <1>2. IsState(s) /\ s.at = "entry" /\ s.list = <<>>
      BY <1>1 DEF Fresh, Scan, IsState
  <1>3. s.list \in Seq({})
      BY <1>2
  <1>4. Clean(slots, 0)
      BY DEF Clean
  <1>5. Listed(s.list, name) = {}
      BY <1>2 DEF Listed
  <1>6. Matched(slots, 0, s.list, name)
      BY <1>5 DEF Matched, NoneNamed
  <1> QED
      BY <1>1, <1>2, <1>3, <1>4, <1>6 DEF ScanInv

LEMMA CleanMore ==
    ASSUME NEW slots, NEW k \in Nat, Clean(slots, k), ~IsLastInList(slots[k + 1]),
           Good("fatedit", slots[k + 1])
    PROVE  Clean(slots, k + 1)
  <1>1. \A i \in 1..(k + 1) : i \in 1..k \/ i = k + 1
      OBVIOUS
  <1> QED
      BY <1>1 DEF Clean

LEMMA ScanKeeps ==
    ASSUME NEW slots, NEW n \in Nat, NEW s, NEW name, IsShortName(name),
           ScanInv(s, slots, n, name), NEW e, e = slots[n + 1], IsEntry(e),
           NEW t, t = ScanSlot(s, e)
    PROVE  ScanInv(t, slots, n + 1, name)
  <1>1. CASE s.at \in {"end", "broken"}
    <2>1. t = s
        BY <1>1, ScanRests
    <2>2. ASSUME NEW k \in 0..n PROVE k \in 0..(n + 1) /\ (k < n => k < n + 1)
        OBVIOUS
    <2> QED
        BY <1>1, <2>1, <2>2 DEF ScanInv
  <1>2. CASE s.at \in {"entry", "part", "short"}
    <2>1. IsState(t) /\ (GivesUp(s, t) \/ Passes(s, t, e) \/ Ends(s, t, e) \/ Lists(s, t, e))
        BY <1>2, ScanTurn DEF ScanInv
    <2>2. PICK S : s.list \in Seq(S)
        BY DEF ScanInv
    <2>3. ASSUME Apart(s.list) PROVE Clean(slots, n) /\ Matched(slots, n, s.list, name)
        BY <1>2, <2>3 DEF ScanInv
    <2>4. n + 1 \in 0..(n + 1) /\ n \in 0..(n + 1) /\ n < n + 1
        OBVIOUS
    <2>5. CASE GivesUp(s, t)
        BY <2>1, <2>2, <2>5 DEF GivesUp, ScanInv
    <2>6. CASE Passes(s, t, e)
      <3>1. t.at \in {"entry", "part", "short"} /\ (t.at = "part" => t.seq \in Nat \ {0})
            /\ t.list = s.list
          BY <2>6 DEF Passes
      <3>2. ASSUME Apart(t.list)
            PROVE  Clean(slots, n + 1) /\ Matched(slots, n + 1, t.list, name)
        <4>1. ~IsLastInList(e) /\ Good("fatedit", e) /\ ~IsHit("fatedit", e, name)
            BY <2>6 DEF Passes, Good, IsHit
        <4> QED
            BY <2>3, <3>1, <3>2, <4>1, CleanMore, MatchedPass
      <3> QED
          BY <2>1, <2>2, <2>4, <3>1, <3>2 DEF ScanInv
    <2>7. CASE Ends(s, t, e)
      <3>1. t.at = "end" /\ t.list = s.list /\ IsLastInList(slots[n + 1])
          BY <2>7 DEF Ends
      <3> QED
          BY <2>1, <2>2, <2>3, <2>4, <3>1 DEF ScanInv
    <2>8. CASE Lists(s, t, e)
      <3>1. PICK x : t.list = Append(s.list, x) /\ ListedAs(x, e)
          BY <2>8 DEF Lists
      <3>2. t.at = "entry" /\ HasName(e) /\ ~IsLong(e)
          BY <2>8 DEF Lists
      <3>3. PICK list : list = s.list
          OBVIOUS
      <3>4. PICK more : more = t.list
          OBVIOUS
      <3>5. list \in Seq(S) /\ Adds(more, list, x)
          BY <2>2, <3>1, <3>3, <3>4 DEF Adds
      <3>6. more \in Seq(S \cup {x}) /\ (Apart(more) => Apart(list) /\ EntryApart(x))
          BY <3>5, ListedMore, Zenon
      <3>7. ASSUME Apart(more) PROVE Clean(slots, n + 1) /\ Matched(slots, n + 1, more, name)
        <4>1. Apart(s.list) /\ EntryApart(x)
            BY <3>3, <3>6, <3>7
        <4>2. ~IsLastInList(e) /\ (Named(x, name) <=> IsHit("fatedit", e, name))
            BY <3>1, <3>2, <4>1, NamedIsHit
        <4>3. Good("fatedit", e)
            BY <3>2 DEF Good
        <4>4. AsFile(x) = AsFile(slots[n + 1])
            BY <3>1 DEF AsFile, ListedAs
        <4>5. Matched(slots, n, list, name) /\ Clean(slots, n)
            BY <2>3, <3>3, <4>1
        <4>6. Matched(slots, n + 1, more, name)
            BY <3>5, <4>2, <4>4, <4>5, MatchedList
        <4> QED
            BY <4>2, <4>3, <4>5, <4>6, CleanMore
      <3>8. t.list \in Seq(S \cup {x})
          BY <3>4, <3>6
      <3>9. t.at = "entry" /\ (Apart(t.list) =>
                Clean(slots, n + 1) /\ Matched(slots, n + 1, t.list, name))
          BY <3>2, <3>4, <3>7
      <3> QED
          BY <2>1, <2>4, <3>8, <3>9 DEF ScanInv
    <2> QED
        BY <2>1, <2>5, <2>6, <2>7, <2>8
  <1> QED
      BY <1>1, <1>2 DEF ScanInv

\* Every entry up to the end can be read.
GoodFrom(r, slots) ==
    \A i \in 1..Len(slots) :
        (\A j \in 1..i : ~IsLastInList(slots[j])) => Good(r, slots[i])

\* Where fatedit can read a directory it finds what has the name.
LEMMA ScanFinds ==
    ASSUME NEW slots, Len(slots) \in Nat, \A i \in 1..Len(slots) : IsEntry(slots[i]),
           NEW name, IsShortName(name), NEW scan, scan = ScanDirectory(slots),
           scan.ok, Apart(scan.list)
    PROVE  /\ FirstListed(scan.list, name) = FirstIn("fatedit", slots, name)
           /\ GoodFrom("fatedit", slots)
  <1>1. PICK n \in Nat : n = Len(slots)
      OBVIOUS
  <1>2. PICK s : /\ IsScan(s, slots, n)
                 /\ scan = [ok |-> s[n].at \in {"entry", "end"}, list |-> s[n].list]
      BY <1>1, ScanExists
  <1> DEFINE T == {i \in 0..n : ScanInv(s[i], slots, i, name)}
  <1>3. 0 \in T
      BY <1>2, ScanBegins DEF IsScan
  <1>4. ASSUME NEW i \in 0..(n - 1), i \in T PROVE i + 1 \in T
    <2>1. i + 1 \in 1..n /\ i + 1 \in 0..n /\ i \in Nat /\ (i + 1) - 1 = i
        OBVIOUS
    <2>2. s[i + 1] = ScanSlot(s[i], slots[i + 1])
        BY <1>2, <2>1 DEF IsScan
    <2>3. IsEntry(slots[i + 1])
        BY <1>1, <2>1
    <2>4. ScanInv(s[i], slots, i, name)
        BY <1>4
    <2>5. ScanInv(s[i + 1], slots, i + 1, name)
        BY <2>1, <2>2, <2>3, <2>4, ScanKeeps
    <2> QED
        BY <2>1, <2>5
  <1>5. n \in T
    <2> HIDE DEF T
    <2>1. \A i \in 0..n : i \in T
        BY <1>3, <1>4, UpTo
    <2> QED
        BY <2>1
  <1>6. PICK list : list = s[n].list
      OBVIOUS
  <1>7. s[n].at \in {"entry", "end"} /\ scan.list = list /\ Apart(list)
    <2>1. scan.list = s[n].list
        BY <1>2
    <2>2. scan.ok = (s[n].at \in {"entry", "end"})
      <3>1. PICK b : b = (s[n].at \in {"entry", "end"})
          OBVIOUS
      <3>2. scan = [ok |-> b, list |-> s[n].list]
          BY <1>2, <3>1, Zenon
      <3>3. scan.ok = b
          BY <3>2, SMT
      <3> QED
          BY <3>1, <3>3, Zenon
    <2>3. s[n].at \in {"entry", "end"}
        BY <2>2, Zenon
    <2> QED
        BY <1>6, <2>1, <2>3
  <1>8. PICK k \in 0..n :
            /\ Clean(slots, k) /\ Matched(slots, k, list, name)
            /\ k < n => IsLastInList(slots[k + 1])
    <2>1. ScanInv(s[n], slots, n, name)
        BY <1>5
    <2>2. s[n].at # "broken"
        BY <1>7
    <2> QED
        BY <1>6, <1>7, <2>1, <2>2 DEF ScanInv
  <1>9. GoodFrom("fatedit", slots)
    <2>1. ASSUME NEW i \in 1..n, \A j \in 1..i : ~IsLastInList(slots[j])
          PROVE  Good("fatedit", slots[i])
      <3>1. i <= k
        <4>1. SUFFICES ASSUME i > k PROVE FALSE
            OBVIOUS
        <4>2. k < n /\ k + 1 \in 1..i
            BY <4>1
        <4> QED
            BY <1>8, <2>1, <4>2
      <3> QED
          BY <1>8, <3>1 DEF Clean
    <2> QED
        BY <1>1, <2>1 DEF GoodFrom
  <1>10. CASE NoneNamed(slots, k, list, name)
    <2>1. FirstListed(list, name) = NoFile
        BY <1>10 DEF FirstListed, NoneNamed
    <2>2. CASE k = n
      <3>1. Hits("fatedit", slots, name) = {}
          BY <1>1, <1>10, <2>2 DEF Hits, NoneNamed
      <3> QED
          BY <1>7, <1>9, <2>1, <3>1 DEF FirstIn
    <2>3. CASE k < n
      <3>1. k + 1 \in 1..Len(slots) /\ IsLastInList(slots[k + 1])
          BY <1>1, <1>8, <2>3
      <3>2. \A i \in 1..Len(slots) : i < k + 1 => ~IsHit("fatedit", slots[i], name)
          BY <1>1, <1>10 DEF NoneNamed
      <3>3. FirstIn("fatedit", slots, name) = NoFile
          BY <3>1, <3>2, FirstEnd
      <3> QED
          BY <1>7, <1>9, <2>1, <3>3
    <2> QED
        BY <2>2, <2>3
  <1>11. CASE SameNamed(slots, k, list, name)
    <2>1. PICK u \in 1..k, v \in 1..Len(list) :
            /\ IsHit("fatedit", slots[u], name)
            /\ \A i \in 1..k : i < u => ~IsHit("fatedit", slots[i], name)
            /\ v \in Listed(list, name) /\ \A i \in Listed(list, name) : v <= i
            /\ AsFile(slots[u]) = AsFile(list[v])
        BY <1>11 DEF SameNamed
    <2>2. u \in 1..Len(slots) /\ \A i \in 1..Len(slots) : i <= u => i \in 1..k
        BY <1>1
    <2>3. \A i \in 1..Len(slots) : i <= u => ~IsLastInList(slots[i])
        BY <1>8, <2>2 DEF Clean
    <2>4. \A i \in 1..Len(slots) : i < u => ~IsHit("fatedit", slots[i], name)
        BY <2>1, <2>2
    <2>5. FirstIn("fatedit", slots, name) = AsFile(slots[u])
        BY <2>1, <2>2, <2>3, <2>4, FirstHit
    <2>6. PICK H : H = Listed(list, name)
        OBVIOUS
    <2>7. H \subseteq Nat
        BY <2>6 DEF Listed
    <2>8. PICK m \in H : m = Min(H) /\ \A y \in H : m <= y
        BY <2>1, <2>6, <2>7, MinIsIn
    <2>9. m = v
        BY <2>1, <2>6, <2>7, <2>8
    <2>10. FirstListed(list, name) = AsFile(list[v])
        BY <2>1, <2>6, <2>8, <2>9 DEF FirstListed, AsFile
    <2> QED
        BY <1>7, <1>9, <2>1, <2>5, <2>10
  <1> QED
      BY <1>8, <1>10, <1>11 DEF Matched

-----------------------------------------------------------------------------
(***************************************************************************)
(* Paths.                                                                  *)
(***************************************************************************)
\* A path is a sequence of names.
Names == Seq(Seq(Nat))

\* Its first name, and the path under it.
LEMMA HeadOfPath ==
    ASSUME NEW path \in Names, path # <<>> PROVE Head(path) \in Seq(Nat) /\ Tail(path) \in Names
  <1>1. PICK S : S = Seq(Nat)
      OBVIOUS
  <1>2. path \in Seq(S)
      BY <1>1 DEF Names
  <1> QED
      BY <1>1, <1>2, HeadTailProperties DEF Names

\* What the fields of a FatFile can hold.
Files(im) == [cluster : Numbers(im) \cup {-1}, size : Nat, dir : BOOLEAN]

\* What a reader can answer.
Found(im) == Files(im) \cup {Unread}

\* No file is one of them.
LEMMA NoFileIs == \A im \in Images : NoFile \in Files(im) /\ NoFile.dir = FALSE
  BY DEF NoFile, FatFile, Files

\* No answer is no file.
LEMMA UnreadIs ==
    \A im \in Images : Unread \notin Files(im) /\ Unread.dir = FALSE /\ Unread # NoFile
  <1> TAKE im \in Images
  <1>1. Unread.cluster = -2 /\ Unread.dir = FALSE /\ NoFile.cluster = -1
      BY DEF Unread, NoFile, FatFile
  <1>2. -2 \notin Numbers(im)
      BY ClusterRange DEF Numbers
  <1>3. ASSUME Unread \in Files(im) PROVE FALSE
    <2>1. Unread.cluster \in Numbers(im) \cup {-1}
        BY <1>3 DEF Files
    <2> QED
        BY <1>1, <1>2, <2>1
  <1> QED
      BY <1>1, <1>3

\* What a reader finds in a directory from cluster c on.
Looking(r, im, dir, c, name) ==
    IF dir.dir /\ dir.cluster \in ClustersOf(im)
    THEN FirstIn(r, SlotsFrom(im, c), name) ELSE NoFile

\* What it has to be able to read for that.
Readable(r, im, dir, c) ==
    r = "fatedit" /\ dir.dir /\ dir.cluster \in ClustersOf(im) => GoodFrom(r, SlotsFrom(im, c))

\* It is a file or none.
LEMMA LookingTyped ==
    ASSUME NEW r \in Readers, NEW im \in Images, NEW dir, NEW name
    PROVE  Looking(r, im, dir, dir.cluster, name) \in Files(im)
  <1>1. CASE ~(dir.dir /\ dir.cluster \in ClustersOf(im))
      BY <1>1, NoFileIs DEF Looking
  <1>2. CASE dir.dir /\ dir.cluster \in ClustersOf(im)
    <2>1. PICK s : s = SlotsFrom(im, dir.cluster)
        OBVIOUS
    <2>2. Len(s) \in Nat /\ \A i \in 1..Len(s) : Entry(im, s[i])
        BY <1>2, <2>1, SlotsAre
    <2>3. PICK H : H = Hits(r, s, name)
        OBVIOUS
    <2>4. Looking(r, im, dir, dir.cluster, name) = IF H = {} THEN NoFile ELSE AsFile(s[Min(H)])
        BY <1>2, <2>1, <2>3 DEF Looking, FirstIn
    <2>5. CASE H = {}
        BY <2>4, <2>5, NoFileIs
    <2>6. CASE H # {}
      <3>1. H \subseteq 1..Len(s) /\ H \subseteq Nat
          BY <2>2, <2>3 DEF Hits
      <3>2. PICK m \in 1..Len(s) : m = Min(H)
          BY <2>6, <3>1, MinIsIn
      <3>3. Entry(im, s[m])
          BY <2>2
      <3>4. AsFile(s[m]) \in Files(im)
          BY <3>3 DEF Entry, AsFile, FatFile, Files
      <3> QED
          BY <2>4, <2>6, <3>2, <3>4
    <2> QED
        BY <2>5, <2>6
  <1> QED
      BY <1>1, <1>2

\* That is the answer of a reader, unless it has none.
LEMMA EntryIs ==
    ASSUME NEW r \in Readers, NEW im \in Images, NEW dir, NEW name
    PROVE  \/ r = "fatedit" /\ EntryIn(r, im, dir, name) = Unread
           \/ /\ EntryIn(r, im, dir, name) = Looking(r, im, dir, dir.cluster, name)
              /\ Readable(r, im, dir, dir.cluster)
  <1>1. CASE r = "disk"
    <2>1. EntryIn(r, im, dir, name) = WantEntry(im, dir, name)
        BY <1>1 DEF EntryIn
    <2>2. CASE dir.dir /\ dir.cluster \in ClustersOf(im)
      <3>1. PICK s : s = SlotsFrom(im, dir.cluster) /\ s = SlotsOf(im, dir.cluster)
          BY <2>2, SlotsAre
      <3>2. FirstIn("disk", s, name) = IF Canonical(name) THEN WantIn(s, name) ELSE NoFile
          BY WantIs
      <3> QED
          BY <1>1, <2>1, <2>2, <3>1, <3>2 DEF Looking, Readable, WantEntry
    <2>3. CASE ~(dir.dir /\ dir.cluster \in ClustersOf(im))
        BY <1>1, <2>1, <2>3 DEF Looking, Readable, WantEntry
    <2> QED
        BY <2>2, <2>3
  <1>2. CASE r = "fatedit"
    <2>1. EntryIn(r, im, dir, name) = EditorEntry(im, dir, name)
        BY <1>2 DEF EntryIn
    <2>2. CASE dir.dir /\ dir.cluster \in ClustersOf(im)
      <3>1. PICK s : s = SlotsFrom(im, dir.cluster) /\ s = SlotsOf(im, dir.cluster)
          BY <2>2, SlotsAre
      <3>2. Len(s) \in Nat /\ \A i \in 1..Len(s) : IsEntry(s[i])
          BY <2>2, <3>1, SlotsAre DEF Entry
      <3>3. PICK scan : scan = ScanDirectory(s)
          OBVIOUS
      <3>4. EditorEntry(im, dir, name) = IF scan.ok /\ Apart(scan.list) /\ IsShortName(name)
                                         THEN FirstListed(scan.list, name) ELSE Unread
          BY <2>2, <3>1, <3>3 DEF EditorEntry, EditorFinds
      <3>5. CASE scan.ok /\ Apart(scan.list) /\ IsShortName(name)
        <4>1. FirstListed(scan.list, name) = FirstIn("fatedit", s, name)
              /\ GoodFrom("fatedit", s)
            BY <3>2, <3>3, <3>5, ScanFinds
        <4> QED
            BY <1>2, <2>1, <2>2, <3>1, <3>4, <3>5, <4>1 DEF Looking, Readable
      <3>6. CASE ~(scan.ok /\ Apart(scan.list) /\ IsShortName(name))
          BY <1>2, <2>1, <3>4, <3>6
      <3> QED
          BY <3>5, <3>6
    <2>3. CASE ~(dir.dir /\ dir.cluster \in ClustersOf(im))
        BY <1>2, <2>1, <2>3 DEF Looking, Readable, EditorEntry
    <2> QED
        BY <2>2, <2>3
  <1> QED
      BY <1>1, <1>2 DEF Readers

LEMMA EntryTyped ==
    ASSUME NEW r \in Readers, NEW im \in Images, NEW dir, NEW name
    PROVE  EntryIn(r, im, dir, name) \in Found(im)
  BY EntryIs, LookingTyped DEF Found

\* The files on the way.
IsWay(r, f, im, dir, path) ==
    /\ f \in [0..Len(path) -> Found(im)] /\ f[0] = dir
    /\ \A i \in 1..Len(path) : f[i] = EntryIn(r, im, f[i - 1], path[i])

\* Find is the last file on the way.
LEMMA FindWay ==
    ASSUME NEW r \in Readers, NEW im \in Images, NEW dir \in Found(im), NEW path \in Names
    PROVE  \E f : IsWay(r, f, im, dir, path) /\ Find(r, im, dir, path) = f[Len(path)]
  <1> DEFINE n == Len(path)
             F == [p \in Found(im) \X (1..n) |-> EntryIn(r, im, p[1], path[p[2]])]
             E(g) == [i \in 0..n |-> IF i = 0 THEN dir ELSE EntryIn(r, im, g[i - 1], path[i])]
             u == CHOOSE g : g = E(g)
  <1>1. n \in Nat
      BY LenProperties DEF Names
  <1>2. Keeps(F, n, Found(im))
      BY EntryTyped DEF Keeps
  <1>3. PICK f \in [0..n -> Found(im)] : IsHistory(f, n, dir, F)
    <2> HIDE DEF F, n
    <2> QED
        BY <1>1, <1>2, HistoryExists
  <1>4. f[0] = dir /\ \A i \in 1..n : f[i] = EntryIn(r, im, f[i - 1], path[i])
    <2>1. ASSUME NEW i \in 1..n PROVE F[<<f[i - 1], i>>] = EntryIn(r, im, f[i - 1], path[i])
      <3>1. f[i - 1] \in Found(im)
          BY <1>1
      <3> QED
          BY <3>1
    <2> QED
        BY <1>3, <2>1 DEF IsHistory
  <1>5. f = E(f)
    <2>1. ASSUME NEW i \in 0..n PROVE f[i] = E(f)[i]
      <3>1. CASE i = 0
          BY <1>4, <3>1
      <3>2. CASE i # 0
        <4>1. i \in 1..n
            BY <1>1, <3>2
        <4> QED
            BY <1>4, <3>2, <4>1
      <3> QED
          BY <3>1, <3>2
    <2>2. DOMAIN f = 0..n /\ DOMAIN E(f) = 0..n
        OBVIOUS
    <2> QED
        BY <2>1, <2>2
  <1>6. u = E(u)
    <2> HIDE DEF E
    <2> QED
        BY <1>5, Zenon
  <1>7. Find(r, im, dir, path) = u[n]
      BY DEF Find
  <1> HIDE DEF u
  <1>8. u[0] = dir /\ \A i \in 1..n : u[i] = EntryIn(r, im, u[i - 1], path[i])
      BY <1>1, <1>6
  <1>9. \A i \in 0..n : u[i] \in Found(im)
    <2>1. ASSUME NEW i \in 1..n, u[i - 1] \in Found(im) PROVE u[i] \in Found(im)
        BY <1>8, <2>1, EntryTyped
    <2>2. Stays(u, n, Found(im))
        BY <1>8, <2>1 DEF Stays
    <2> HIDE DEF n
    <2> QED
        BY <1>1, <2>2, HistoryType
  <1>10. u \in [0..n -> Found(im)]
      BY <1>6, <1>9
  <1>11. IsWay(r, u, im, dir, path)
      BY <1>8, <1>10 DEF IsWay
  <1> QED
      BY <1>7, <1>11

\* Nothing to look for: the directory itself.
LEMMA FindEmpty ==
    ASSUME NEW r \in Readers, NEW im \in Images, NEW dir \in Found(im)
    PROVE  Find(r, im, dir, <<>>) = dir
  <1>1. <<>> \in Names /\ Len(<<>>) = 0
    <2>1. PICK S : S = Seq(Nat)
        OBVIOUS
    <2> QED
        BY <2>1 DEF Names
  <1>2. PICK f : IsWay(r, f, im, dir, <<>>) /\ Find(r, im, dir, <<>>) = f[Len(<<>>)]
      BY <1>1, FindWay
  <1> QED
      BY <1>1, <1>2 DEF IsWay

\* The first name, and then the others.
LEMMA FindDown ==
    ASSUME NEW r \in Readers, NEW im \in Images, NEW dir \in Found(im), NEW path \in Names,
           path # <<>>
    PROVE  /\ Tail(path) \in Names /\ Head(path) \in Seq(Nat)
           /\ Find(r, im, dir, path) = Find(r, im, EntryIn(r, im, dir, Head(path)), Tail(path))
  <1>1. PICK tail \in Names : tail = Tail(path)
    <2>1. PICK S : S = Seq(Nat)
        OBVIOUS
    <2>2. path \in Seq(S)
        BY <2>1 DEF Names
    <2>3. Tail(path) \in Seq(S)
        BY <2>2, HeadTailProperties
    <2> QED
        BY <2>1, <2>3 DEF Names
  <1>2. PICK n \in Nat : n + 1 = Len(path) /\ n = Len(tail)
    <2>1. PICK S : S = Seq(Nat)
        OBVIOUS
    <2>2. path \in Seq(S)
        BY <2>1 DEF Names
    <2>3. Len(path) \in Nat \ {0} /\ Len(Tail(path)) = Len(path) - 1
        BY <2>2, EmptySeq, HeadTailProperties
    <2>4. Len(path) - 1 \in Nat /\ (Len(path) - 1) + 1 = Len(path)
        BY <2>3
    <2> QED
        BY <1>1, <2>3, <2>4
  <1>3. Head(path) = path[1] /\ Head(path) \in Seq(Nat)
    <2>1. PICK S : S = Seq(Nat)
        OBVIOUS
    <2>2. path \in Seq(S)
        BY <2>1 DEF Names
    <2>3. Head(path) \in S
        BY <2>2, HeadTailProperties
    <2> QED
        BY <2>1, <2>2, <2>3
  <1>4. \A i \in 1..n : tail[i] = path[i + 1]
    <2>1. PICK S : S = Seq(Nat)
        OBVIOUS
    <2>2. path \in Seq(S)
        BY <2>1 DEF Names
    <2> QED
        BY <1>1, <1>2, <2>2
  <1>5. PICK e \in Found(im) : e = EntryIn(r, im, dir, Head(path))
      BY EntryTyped
  <1>6. PICK f : IsWay(r, f, im, dir, path) /\ Find(r, im, dir, path) = f[Len(path)]
      BY FindWay
  <1>7. PICK g : IsWay(r, g, im, e, tail) /\ Find(r, im, e, tail) = g[Len(tail)]
      BY FindWay
  <1>8. f[0] = dir /\ \A i \in 1..(n + 1) : f[i] = EntryIn(r, im, f[i - 1], path[i])
      BY <1>2, <1>6 DEF IsWay
  <1>9. g[0] = e /\ \A i \in 1..n : g[i] = EntryIn(r, im, g[i - 1], tail[i])
      BY <1>2, <1>7 DEF IsWay
  <1> DEFINE T == {i \in 0..n : f[i + 1] = g[i]}
  <1>10. 0 \in T
    <2>1. 1 \in 1..(n + 1) /\ 1 - 1 = 0 /\ 0 + 1 = 1 /\ 0 \in 0..n
        OBVIOUS
    <2>2. f[1] = EntryIn(r, im, f[0], path[1])
        BY <1>8, <2>1
    <2> QED
        BY <1>3, <1>5, <1>8, <1>9, <2>1, <2>2
  <1>11. ASSUME NEW i \in 0..(n - 1), i \in T PROVE i + 1 \in T
    <2>1. i + 1 \in 1..n /\ i + 2 \in 1..(n + 1) /\ (i + 2) - 1 = i + 1 /\ (i + 1) - 1 = i
          /\ (i + 1) + 1 = i + 2 /\ i + 1 \in 0..n
        OBVIOUS
    <2>2. f[i + 2] = EntryIn(r, im, f[i + 1], path[i + 2])
        BY <1>8, <2>1
    <2>3. g[i + 1] = EntryIn(r, im, g[i], tail[i + 1])
        BY <1>9, <2>1
    <2>4. tail[i + 1] = path[i + 2]
        BY <1>4, <2>1
    <2>5. f[i + 2] = g[i + 1]
        BY <1>11, <2>2, <2>3, <2>4
    <2> QED
        BY <2>1, <2>5
  <1> HIDE DEF T
  <1>12. n \in T
    <2>1. \A i \in 0..n : i \in T
        BY <1>10, <1>11, UpTo
    <2> QED
        BY <2>1
  <1>13. f[n + 1] = g[n]
      BY <1>12 DEF T
  <1>14. Find(r, im, dir, path) = Find(r, im, e, tail)
      BY <1>2, <1>6, <1>7, <1>13
  <1> QED
      BY <1>1, <1>3, <1>5, <1>14

\* Under no file there is none, and where a directory was not read nothing is
\* known.
LEMMA FindNowhere ==
    ASSUME NEW r \in Readers, NEW im \in Images, NEW dir, dir \in {NoFile, Unread},
           r = "disk" => dir = NoFile, NEW path \in Names
    PROVE  Find(r, im, dir, path) = dir
  <1>0. dir \in Found(im)
      BY NoFileIs DEF Found
  <1>1. PICK f : IsWay(r, f, im, dir, path) /\ Find(r, im, dir, path) = f[Len(path)]
      BY <1>0, FindWay
  <1>2. PICK n \in Nat : n = Len(path)
      BY LenProperties DEF Names
  <1>3. \A name : EntryIn(r, im, dir, name) = dir
      BY NoFileIs, UnreadIs DEF EntryIn, WantEntry, EditorEntry
  <1> DEFINE T == {i \in 0..n : f[i] = dir}
  <1>4. 0 \in T
      BY <1>1 DEF IsWay
  <1>5. ASSUME NEW i \in 0..(n - 1), i \in T PROVE i + 1 \in T
    <2>1. i + 1 \in 1..n /\ (i + 1) - 1 = i /\ i + 1 \in 0..n
        OBVIOUS
    <2>2. f[i + 1] = EntryIn(r, im, f[i], path[i + 1])
        BY <1>1, <1>2, <2>1 DEF IsWay
    <2>3. f[i + 1] = dir
        BY <1>3, <1>5, <2>2
    <2> QED
        BY <2>1, <2>3
  <1> HIDE DEF T
  <1>6. n \in T
      BY <1>4, <1>5, UpTo
  <1> QED
      BY <1>1, <1>2, <1>6 DEF T

-----------------------------------------------------------------------------
(***************************************************************************)
(* FindByPath.                                                             *)
(***************************************************************************)

\* What a reader finds under the names that are left when FindInDirectory got
\* to cluster c of a directory.
Ahead(r, im, dir, c, path) ==
    IF path = <<>> THEN dir ELSE Find(r, im, Looking(r, im, dir, c, Head(path)), Tail(path))

\* Its answer to the call, and whether the call has to give the same.
Result(r) == IF r = "disk" THEN want.file ELSE want.listed
Speaks(r) == UpperBitsClear /\ (r = "disk" => KeptNames) /\ (r = "fatedit" => want.listed # Unread)

\* What is still to be found is what the reader answers.
Answers(r) ==
    /\ req.op # "find" /\ pc # "failed" => file = Result(r)
    /\ req.op = "find" =>
        /\ Result(r) = Ahead(r, image, file, req.cluster, req.path)
        /\ req.path # <<>> => Readable(r, image, file, req.cluster)
        /\ file.cluster \in ClustersOf(image) \/ req.cluster = file.cluster
    /\ pc = "scan" => req.next = LinkOf(image, req.cluster)

\* The invariant of FindByPath: together with Inv it is inductive.
FindInv ==
    /\ file \in Files(image)
    /\ \A r \in Readers : Speaks(r) => Answers(r)

\* At the beginning of a directory.
LEMMA AheadStart ==
    ASSUME NEW r \in Readers, NEW im \in Images, NEW dir \in Files(im), NEW path \in Names
    PROVE  \/ r = "fatedit" /\ Find(r, im, dir, path) = Unread
           \/ /\ Find(r, im, dir, path) = Ahead(r, im, dir, dir.cluster, path)
              /\ path # <<>> => Readable(r, im, dir, dir.cluster)
  <1>0. dir \in Found(im)
      BY DEF Found
  <1>1. CASE path = <<>>
      BY <1>0, <1>1, FindEmpty DEF Ahead
  <1>2. CASE path # <<>>
    <2>1. Tail(path) \in Names
          /\ Find(r, im, dir, path) = Find(r, im, EntryIn(r, im, dir, Head(path)), Tail(path))
        BY <1>0, <1>2, FindDown
    <2>2. CASE r = "fatedit" /\ EntryIn(r, im, dir, Head(path)) = Unread
      <3>1. Find(r, im, Unread, Tail(path)) = Unread
          BY <2>1, <2>2, FindNowhere
      <3> QED
          BY <2>1, <2>2, <3>1
    <2>3. CASE /\ EntryIn(r, im, dir, Head(path)) = Looking(r, im, dir, dir.cluster, Head(path))
               /\ Readable(r, im, dir, dir.cluster)
        BY <1>2, <2>1, <2>3 DEF Ahead
    <2> QED
        BY <2>2, <2>3, EntryIs
  <1> QED
      BY <1>1, <1>2

\* Behind the end of a directory.
LEMMA AheadEnd ==
    ASSUME NEW r \in Readers, NEW im \in Images, NEW dir, NEW c, NEW path \in Names, path # <<>>,
           ~IsShortName(Head(path)) \/ ~dir.dir \/ c >= EndMark
    PROVE  Ahead(r, im, dir, c, path) = NoFile
  <1>1. Looking(r, im, dir, c, Head(path)) = NoFile
    <2>1. CASE c >= EndMark
      <3>1. UnitsFrom(im, c) = <<>>
          BY <2>1 DEF UnitsFrom
      <3>2. PICK s : s = SlotsFrom(im, c)
          OBVIOUS
      <3>3. s = [i \in 1..0 |-> SlotAt(im, UnitsFrom(im, c)[i])]
        <4>1. Len(UnitsFrom(im, c)) = 0
            BY <3>1
        <4> QED
            BY <3>2, <4>1 DEF SlotsFrom
      <3>4. Len(s) = 0
          BY <3>3, TableLen
      <3> QED
          BY <3>2, <3>4, FirstNone DEF Looking
    <2>2. CASE ~IsShortName(Head(path))
      <3>1. PICK s : s = SlotsFrom(im, c)
          OBVIOUS
      <3>2. Hits(r, s, Head(path)) = {}
          BY <2>2 DEF Hits, IsHit, Canonical, Readers
      <3> QED
          BY <3>1, <3>2 DEF Looking, FirstIn
    <2>3. CASE ~dir.dir
        BY <2>3 DEF Looking
    <2> QED
        BY <2>1, <2>2, <2>3
  <1>2. Tail(path) \in Names
      BY HeadOfPath
  <1>3. Find(r, im, NoFile, Tail(path)) = NoFile
      BY <1>2, FindNowhere
  <1> QED
      BY <1>1, <1>3 DEF Ahead

\* What the loop sees of the cluster it searches.
LEMMA ScanSees ==
    ASSUME Inv, pc = "scan", NEW v \in 0..(ClusterUnits - 1)
    PROVE  /\ req.cluster \in ClustersOf(image)
           /\ SlotInWindow(v) = image.slots[req.cluster][v]
  <1>1. dataCluster = req.cluster
      BY DEF Inv, WindowInv
  <1>2. req.cluster \in ClustersOf(image) /\ req.cluster # 0
    <2>1. req.cluster \in ClustersOf(image) /\ image \in Images
        BY <1>1, Windowed DEF Inv, TypeOK
    <2> QED
        BY <2>1, ClusterRange
  <1>3. v \div UnitsPerSector \in SectorIdx
    <2>1. SectorsPerCluster \in Nat \ {0} /\ UnitsPerSector \in Nat \ {0}
        BY FatFsAssumption
    <2>2. v \in Nat /\ v < SectorsPerCluster * UnitsPerSector
        BY ClusterUnitsPositive DEF ClusterUnits
    <2>3. v \div UnitsPerSector < SectorsPerCluster
        BY <2>1, <2>2, DivBelow
    <2>4. v \div UnitsPerSector \in Nat
        BY <2>1, <2>2, Places
    <2> QED
        BY <2>1, <2>3, <2>4 DEF SectorIdx
  <1>4. dataWindow[v \div UnitsPerSector] = req.cluster
    <2>1. sector = 0 /\ dataCluster # -1
      <3>1. dataCluster \in Nat
          BY <1>1, <1>2, ClusterRange DEF Inv, TypeOK
      <3>2. sector \in Nat /\ ~(sector > 0)
          BY DEF Inv, WindowInv, TypeOK, SectorIdx
      <3> QED
          BY <3>1, <3>2
    <2> QED
        BY <1>1, <1>3, <2>1 DEF Inv, WindowInv
  <1> QED
      BY <1>2, <1>4 DEF SlotInWindow, UnitInWindow, Nothing

\* The reader can read the directory that the loop searches.
Reads(r) ==
    /\ r = "disk" => KeptNames
    /\ r = "fatedit" => GoodFrom(r, SlotsFrom(image, req.cluster))

\* The list it is in begins with the entries of the cluster.
LEMMA ScanList ==
    ASSUME Inv, pc = "scan"
    PROVE  LET a == SlotsFrom(image, req.cluster)
               b == SlotsFrom(image, LinkOf(image, req.cluster))
           IN  /\ Len(b) \in Nat /\ Len(a) = ClusterUnits + Len(b)
               /\ \A i \in 1..ClusterUnits : a[i] = image.slots[req.cluster][i - 1]
               /\ \A j \in 1..Len(b) : a[ClusterUnits + j] = b[j]
  <1>1. PICK w \in Nat \ {0} : w = ClusterUnits
      BY ClusterUnitsPositive
  <1>2. PICK c \in ClustersOf(image) : c = req.cluster
    <2>1. 0 \in 0..(ClusterUnits - 1)
        BY <1>1
    <2> QED
        BY <2>1, ScanSees
  <1>3. image \in Images
      BY DEF Inv, TypeOK
  <1> QED
      BY <1>1, <1>2, <1>3, SlotsStep

\* An entry before the end is Good for a reader of the directory.
LEMMA ScanGood ==
    ASSUME Inv, pc = "scan", NEW r \in Readers, Reads(r), NEW v \in 0..(ClusterUnits - 1),
           \A x \in 0..v : ~IsLastInList(image.slots[req.cluster][x])
    PROVE  Good(r, image.slots[req.cluster][v])
  <1>1. PICK w \in Nat \ {0} : w = ClusterUnits
      BY ClusterUnitsPositive
  <1>2. req.cluster \in ClustersOf(image)
      BY ScanSees
  <1>3. CASE r = "disk"
      BY <1>2, <1>3, Zenon DEF Reads, KeptNames, Good
  <1>4. CASE r = "fatedit"
    <2>1. PICK a : a = SlotsFrom(image, req.cluster)
        OBVIOUS
    <2>2. PICK n \in Nat : n = Len(SlotsFrom(image, LinkOf(image, req.cluster)))
        BY ScanList
    <2>3. Len(a) = w + n /\ \A i \in 1..w : a[i] = image.slots[req.cluster][i - 1]
        BY <1>1, <2>1, <2>2, ScanList
    <2>4. v + 1 \in 1..Len(a) /\ v + 1 \in 1..w /\ (v + 1) - 1 = v
        BY <1>1, <2>2, <2>3
    <2>5. ASSUME NEW j \in 1..(v + 1) PROVE ~IsLastInList(a[j])
      <3>1. j - 1 \in 0..v /\ j \in 1..w
          BY <1>1, <2>4
      <3> QED
          BY <2>3, <3>1
    <2>6. GoodFrom(r, a)
        BY <1>4, <2>1 DEF Reads
    <2>7. Good(r, a[v + 1])
        BY <2>4, <2>5, <2>6 DEF GoodFrom
    <2> QED
        BY <2>3, <2>4, <2>7
  <1> QED
      BY <1>3, <1>4 DEF Readers

\* The name that is looked for.
LEMMA ScanName ==
    ASSUME Inv, pc = "scan"
    PROVE  Head(req.path) \in Seq(Nat) /\ IsShortName(Head(req.path)) /\ file.dir
  <1>1. Searches /\ req.path \in Names
      BY DEF Inv, ReqInv, Requests, Names
  <1> QED
      BY <1>1, HeadOfPath DEF Searches

\* What the loop makes of an entry before the end.
LEMMA ScanMatches ==
    ASSUME Inv, pc = "scan", NEW r \in Readers, Reads(r), NEW junk \in BOOLEAN,
           NEW v \in 0..(ClusterUnits - 1),
           \A x \in 0..v : ~IsLastInList(image.slots[req.cluster][x])
    PROVE  Matches(SlotInWindow(v), Head(req.path), junk)
                <=> IsHit(r, image.slots[req.cluster][v], Head(req.path))
  <1>1. PICK e : e = image.slots[req.cluster][v]
      OBVIOUS
  <1>2. SlotInWindow(v) = e /\ req.cluster \in ClustersOf(image) /\ image \in Images
      BY <1>1, ScanSees DEF Inv, TypeOK
  <1>3. ~IsLastInList(e)
    <2>1. v \in 0..v
        BY ClusterUnitsPositive
    <2> QED
        BY <1>1, <2>1
  <1>4. IsEntry(e)
      BY <1>1, <1>2, EntryOfImage DEF Entry
  <1>5. Good(r, e)
      BY <1>1, ScanGood
  <1> QED
      BY <1>1, <1>2, <1>3, <1>4, <1>5, ScanName, EntryMatches

\* Where the loop has not stopped there is no end and nothing to find.
LEMMA ScanPasses ==
    ASSUME Inv, pc = "scan", NEW r \in Readers, Reads(r), NEW junk \in BOOLEAN,
           NEW v \in 0..(ClusterUnits - 1), \A x \in 0..v : x \notin Stops(junk)
    PROVE  /\ ~IsLastInList(image.slots[req.cluster][v])
           /\ ~IsHit(r, image.slots[req.cluster][v], Head(req.path))
  <1>1. v \in Nat /\ v \in 0..v
      BY ClusterUnitsPositive
  <1>2. ASSUME NEW x \in 0..v PROVE ~IsLastInList(image.slots[req.cluster][x])
    <2>1. x \in 0..(ClusterUnits - 1)
        BY <1>1, ClusterUnitsPositive
    <2>2. SlotInWindow(x) = image.slots[req.cluster][x]
        BY <2>1, ScanSees
    <2> QED
        BY <2>1, <2>2 DEF Stops
  <1>3. ~Matches(SlotInWindow(v), Head(req.path), junk)
      BY <1>1 DEF Stops
  <1> QED
      BY <1>1, <1>2, <1>3, ScanMatches

\* The loop finds the entry that a reader finds.
LEMMA HitIsWanted ==
    ASSUME Inv, file.cluster \in ClustersOf(image), pc = "scan",
           NEW r \in Readers, Reads(r), NEW junk \in BOOLEAN, Stops(junk) # {},
           NEW e, e = SlotInWindow(Min(Stops(junk)))
    PROVE  Looking(r, image, file, req.cluster, Head(req.path))
                = IF IsLastInList(e) THEN NoFile ELSE AsFile(e)
  <1>1. PICK u \in 0..(ClusterUnits - 1) :
            /\ u = Min(Stops(junk)) /\ u \in Stops(junk) /\ \A v \in Stops(junk) : u <= v
            /\ e = image.slots[req.cluster][u]
      BY SlotFound
  <1>2. PICK name : name = Head(req.path)
      OBVIOUS
  <1>3. PICK w \in Nat \ {0} : w = ClusterUnits
      BY ClusterUnitsPositive
  <1>4. PICK a : a = SlotsFrom(image, req.cluster)
      OBVIOUS
  <1>5. /\ Len(a) \in Nat /\ Len(a) >= w
        /\ \A i \in 1..w : a[i] = image.slots[req.cluster][i - 1]
    <2>1. PICK n \in Nat : n = Len(SlotsFrom(image, LinkOf(image, req.cluster)))
        BY ScanList
    <2>2. Len(a) = w + n /\ \A i \in 1..w : a[i] = image.slots[req.cluster][i - 1]
        BY <1>3, <1>4, <2>1, ScanList
    <2> QED
        BY <2>2
  <1>6. u + 1 \in 1..w /\ u + 1 \in 1..Len(a) /\ a[u + 1] = e
    <2>1. u + 1 \in 1..w /\ (u + 1) - 1 = u
        BY <1>3
    <2>2. u + 1 \in 1..Len(a)
        BY <1>3, <1>5, <2>1
    <2> QED
        BY <1>1, <1>5, <2>1, <2>2
  <1>7. ASSUME NEW i \in 1..Len(a), i < u + 1
        PROVE  ~IsLastInList(a[i]) /\ ~IsHit(r, a[i], name)
    <2>1. i \in 1..w /\ i - 1 \in 0..(ClusterUnits - 1) /\ i - 1 < u /\ i - 1 \in Nat
        BY <1>3, <1>5, <1>6, <1>7
    <2>2. \A x \in 0..(i - 1) : x \notin Stops(junk)
        BY <1>1, <2>1
    <2>3. a[i] = image.slots[req.cluster][i - 1]
        BY <1>5, <2>1
    <2> QED
        BY <1>2, <2>1, <2>2, <2>3, ScanPasses
  <1>8. Looking(r, image, file, req.cluster, name) = FirstIn(r, a, name)
      BY <1>4, ScanName DEF Looking
  <1>9. CASE IsLastInList(e)
    <2>1. FirstIn(r, a, name) = NoFile
        BY <1>5, <1>6, <1>7, <1>9, FirstEnd
    <2> QED
        BY <1>2, <1>8, <1>9, <2>1
  <1>10. CASE ~IsLastInList(e)
    <2>1. \A i \in 1..Len(a) : i <= u + 1 => ~IsLastInList(a[i])
      <3> TAKE i \in 1..Len(a)
      <3> HAVE i <= u + 1
      <3>1. i < u + 1 \/ i = u + 1
          BY <1>5, <1>6
      <3> QED
          BY <1>6, <1>7, <1>10, <3>1
    <2>2. \A x \in 0..u : ~IsLastInList(image.slots[req.cluster][x])
      <3> TAKE x \in 0..u
      <3>1. x + 1 \in 1..w /\ x + 1 \in 1..Len(a) /\ x + 1 <= u + 1 /\ (x + 1) - 1 = x
          BY <1>3, <1>5, <1>6
      <3> QED
          BY <1>5, <2>1, <3>1
    <2>3. Matches(SlotInWindow(u), name, junk)
      <3>1. SlotInWindow(u) = e
          BY <1>1, ScanSees
      <3> QED
          BY <1>1, <1>2, <1>10, <3>1 DEF Stops
    <2>4. IsHit(r, a[u + 1], name)
        BY <1>1, <1>2, <1>6, <2>2, <2>3, ScanMatches
    <2>5. \A i \in 1..Len(a) : i < u + 1 => ~IsHit(r, a[i], name)
        BY <1>7
    <2>6. FirstIn(r, a, name) = AsFile(a[u + 1])
        BY <1>5, <1>6, <2>1, <2>4, <2>5, FirstHit
    <2> QED
        BY <1>2, <1>6, <1>8, <1>10, <2>6
  <1> QED
      BY <1>9, <1>10

\* Where the loop finds nothing, a reader finds what is in the clusters behind,
\* which it can read.
LEMMA MissIsBehind ==
    ASSUME Inv, pc = "scan", NEW r \in Readers, Reads(r), NEW junk \in BOOLEAN,
           Stops(junk) = {}
    PROVE  /\ Looking(r, image, file, req.cluster, Head(req.path))
                = Looking(r, image, file, LinkOf(image, req.cluster), Head(req.path))
           /\ Readable(r, image, file, LinkOf(image, req.cluster))
  <1>1. PICK w \in Nat \ {0} : w = ClusterUnits
      BY ClusterUnitsPositive
  <1>2. PICK name : name = Head(req.path)
      OBVIOUS
  <1>3. PICK a : a = SlotsFrom(image, req.cluster)
      OBVIOUS
  <1>4. PICK b : b = SlotsFrom(image, LinkOf(image, req.cluster))
      OBVIOUS
  <1>5. PICK n \in Nat : n = Len(b)
      BY <1>4, ScanList
  <1>6. /\ Len(a) = w + n
        /\ \A i \in 1..w : a[i] = image.slots[req.cluster][i - 1]
        /\ \A j \in 1..n : a[w + j] = b[j]
      BY <1>1, <1>3, <1>4, <1>5, ScanList
  <1>7. ASSUME NEW i \in 1..w PROVE ~IsHit(r, a[i], name) /\ ~IsLastInList(a[i])
    <2>1. i - 1 \in 0..(ClusterUnits - 1) /\ a[i] = image.slots[req.cluster][i - 1]
        BY <1>1, <1>6
    <2>2. \A x \in 0..(i - 1) : x \notin Stops(junk)
        OBVIOUS
    <2> QED
        BY <1>2, <2>1, <2>2, ScanPasses
  <1>8. FirstIn(r, a, name) = FirstIn(r, b, name)
    <2>1. w \in Nat /\ Len(b) \in Nat /\ Len(a) = w + Len(b)
        BY <1>5, <1>6
    <2>2. \A j \in 1..Len(b) : a[w + j] = b[j]
        BY <1>5, <1>6
    <2> QED
        BY <1>7, <2>1, <2>2, FirstBehind, SMTT(30)
  <1>9. ASSUME GoodFrom(r, a) PROVE GoodFrom(r, b)
    <2>1. SUFFICES ASSUME NEW i \in 1..n, \A j \in 1..i : ~IsLastInList(b[j])
                   PROVE  Good(r, b[i])
        BY <1>5 DEF GoodFrom
    <2>2. w + i \in 1..Len(a) /\ a[w + i] = b[i]
        BY <1>1, <1>6
    <2>3. ASSUME NEW j \in 1..(w + i) PROVE ~IsLastInList(a[j])
      <3>1. CASE j \in 1..w
          BY <1>7, <3>1
      <3>2. CASE j \notin 1..w
        <4>1. j - w \in 1..i /\ j - w \in 1..n /\ j = w + (j - w)
            BY <1>1, <3>2
        <4>2. a[j] = b[j - w]
            BY <1>6, <4>1
        <4> QED
            BY <2>1, <4>1, <4>2
      <3> QED
          BY <3>1, <3>2
    <2>4. Good(r, a[w + i])
        BY <1>9, <2>2, <2>3 DEF GoodFrom
    <2> QED
        BY <2>2, <2>4
  <1> QED
      BY <1>2, <1>3, <1>4, <1>8, <1>9 DEF Looking, Readable, Reads

\* It holds at first.
LEMMA FindInit == Init => FindInv
  <1> SUFFICES ASSUME Init PROVE FindInv
      OBVIOUS
  <1>1. image \in Images /\ file = NoFile /\ pc = "ready" /\ req = Idle
         /\ want.file = NoFile /\ want.listed = NoFile
      BY DEF Init
  <1>2. req.op # "find"
      BY <1>1 DEF Idle
  <1>3. \A r \in Readers : Result(r) = NoFile
      BY <1>1 DEF Result
  <1> QED
      BY <1>1, <1>2, <1>3, NoFileIs DEF FindInv, Answers

\* Every step keeps it.
LEMMA FindStep == ASSUME Inv, FindInv, [Next]_vars PROVE FindInv'
  <1>1. /\ image' = image /\ ClustersOf(image)' = ClustersOf(image)
        /\ (UpperBitsClear' <=> UpperBitsClear) /\ (KeptNames' <=> KeptNames)
        /\ Files(image)' = Files(image)
      BY ImageStays DEF UpperBitsClear, KeptNames, ClustersOf, Files, Numbers
  <1>2. image \in Images /\ file \in Files(image)
      BY DEF Inv, TypeOK, FindInv
  <1>3. req \in Requests /\ req.path \in Names
      BY DEF Inv, ReqInv, Requests, Names
  <1>4. ASSUME want'.file = want.file, want'.listed = want.listed
         PROVE  \A r \in Readers : Result(r)' = Result(r) /\ (Speaks(r)' <=> Speaks(r))
      BY <1>1, <1>4 DEF Result, Speaks
  <1>5. ASSUME \A r \in Readers : Speaks(r)' => Answers(r)', file' \in Files(image)
         PROVE  FindInv'
      BY <1>1, <1>5 DEF FindInv
  <1>6. ASSUME pc' = "failed", req' = Idle, file' = file PROVE FindInv'
    <2>1. \A r \in Readers : Answers(r)'
        BY <1>6 DEF Answers, Idle
    <2> QED
        BY <1>2, <1>6, <1>5, <2>1
  <1>7. ASSUME file' = file, want'.file = want.file, want'.listed = want.listed,
               req.op # "find", req'.op # "find", pc # "failed", pc' # "scan"
        PROVE  FindInv'
    <2>1. ASSUME NEW r \in Readers, Speaks(r)' PROVE Answers(r)'
      <3>1. Answers(r) /\ Result(r)' = Result(r)
          BY <1>7, <1>4, <2>1 DEF FindInv
      <3> QED
          BY <1>7, <3>1 DEF Answers
    <2> QED
        BY <1>2, <1>7, <1>5, <2>1
  <1>8. ASSUME file' = file, want' = want, req' = req, pc # "failed", pc' # "scan"
        PROVE  FindInv'
    <2>1. ASSUME NEW r \in Readers, Speaks(r)' PROVE Answers(r)'
      <3>1. Answers(r) /\ Result(r)' = Result(r)
          BY <1>8, <1>4, <2>1 DEF FindInv
      <3>2. /\ Ahead(r, image, file, req.cluster, req.path)'
                    = Ahead(r, image, file, req.cluster, req.path)
            /\ Readable(r, image, file, req.cluster)' <=> Readable(r, image, file, req.cluster)
          BY <1>1, <1>8
      <3> QED
          BY <1>1, <1>8, <3>1, <3>2 DEF Answers
    <2> QED
        BY <1>2, <1>8, <1>5, <2>1
  <1>9. ASSUME UNCHANGED vars PROVE FindInv'
    <2>1. file' = file /\ want' = want /\ req' = req /\ pc' = pc
        BY <1>9 DEF vars
    <2>2. ASSUME NEW r \in Readers, Speaks(r)' PROVE Answers(r)'
      <3>1. Answers(r) /\ Result(r)' = Result(r)
          BY <1>4, <2>1, <2>2 DEF FindInv
      <3>2. /\ Ahead(r, image, file, req.cluster, req.path)'
                    = Ahead(r, image, file, req.cluster, req.path)
            /\ Readable(r, image, file, req.cluster)' <=> Readable(r, image, file, req.cluster)
            /\ LinkOf(image, req.cluster)' = LinkOf(image, req.cluster)
          BY <1>1, <2>1
      <3> QED
          BY <1>1, <2>1, <3>1, <3>2 DEF Answers
    <2> QED
        BY <1>2, <1>5, <2>1, <2>2
  <1>10. ASSUME NEW path \in Paths, CallFindByPath(path) PROVE FindInv'
    <2>1. path \in Names
        BY FatFsAssumption DEF Names
    <2>2. req' = [Idle EXCEPT !.op = "find", !.cluster = Root, !.path = path] /\ pc' = "loop"
          /\ file' = RootDir
          BY <1>10 DEF CallFindByPath
    <2>3. req'.op = "find" /\ req'.cluster = Root /\ req'.path = path
        BY <2>2 DEF Idle
    <2>4. RootDir \in Files(image) /\ RootDir.cluster = Root
      <3>1. Root \in ClustersOf(image)
          BY <1>2, FatFsAssumption DEF ImageOK
      <3> QED
          BY <3>1 DEF RootDir, FatFile, Files, Numbers
    <2>5. \A r \in Readers : Result(r)' = Find(r, image, RootDir, path)
      <3>1. want' = [file |-> WantPath(image, path), data |-> <<>>,
                     listed |-> FindFile(image, path)]
          BY <1>10 DEF CallFindByPath
      <3>2. want'.file = WantPath(image, path) /\ want'.listed = FindFile(image, path)
          BY <3>1
      <3> QED
          BY <3>2 DEF Result, WantPath, FindFile, Readers
    <2>6. ASSUME NEW r \in Readers, Speaks(r)' PROVE Answers(r)'
      <3>1. ~(r = "fatedit" /\ Result(r)' = Unread)
          BY <2>6 DEF Speaks, Result
      <3>2. /\ Find(r, image, RootDir, path) = Ahead(r, image, RootDir, Root, path)
            /\ path # <<>> => Readable(r, image, RootDir, Root)
          BY <1>2, <2>1, <2>4, <2>5, <3>1, AheadStart
      <3>3. /\ Ahead(r, image, file, req.cluster, req.path)' = Result(r)'
            /\ req'.path # <<>> => Readable(r, image, file, req.cluster)'
          BY <1>1, <2>2, <2>3, <2>5, <3>2
      <3> QED
          BY <2>2, <2>3, <2>4, <3>3 DEF Answers
    <2> QED
        BY <1>5, <2>2, <2>4, <2>6
  <1>11. ASSUME NEW offset \in Offsets, NEW size \in Sizes, CallReadAt(offset, size) PROVE FindInv'
    <2>1. pc = "ready" /\ file' = file
        BY <1>11 DEF CallReadAt, MayCall
    <2>2. req = Idle
        BY <2>1 DEF Inv, ReqInv
    <2>3. want'.file = want.file /\ want'.listed = want.listed
      <3>1. want' = [want EXCEPT !.data = WantRead(image, file, offset, size)]
          BY <1>11 DEF CallReadAt
      <3> QED
          BY <3>1 DEF Inv, ReqInv
    <2>4. req'.op # "find" /\ (pc' = "ready" \/ pc' = "loop")
      <3>1. CASE file.size > 0 /\ offset >= file.size
        <4>1. pc' = pc /\ req' = req
            BY <1>11, <3>1 DEF CallReadAt
        <4> QED
            BY <2>1, <2>2, <4>1 DEF Idle
      <3>2. CASE ~(file.size > 0 /\ offset >= file.size)
        <4>1. pc' = "loop" /\ req'.op = "read"
            BY <1>11, <3>2 DEF CallReadAt, Idle
        <4> QED
            BY <4>1
      <3> QED
          BY <3>1, <3>2
    <2>5. req.op # "find"
        BY <2>2 DEF Idle
    <2> QED
        BY <1>7, <2>1, <2>3, <2>4, <2>5
  <1>12. ASSUME ReadEnds PROVE FindInv'
    <2>1. file' = file /\ want' = want /\ req.op = "read" /\ req' = Idle /\ pc = "loop" /\ pc' = "ready"
        BY <1>12 DEF ReadEnds, Return
    <2> QED
        BY <1>7, <2>1 DEF Idle
  <1>13. ASSUME SkipCluster PROVE FindInv'
    <2>1. /\ file' = file /\ want' = want /\ req.op = "read" /\ pc = "loop" /\ pc' = "fat"
          /\ req'.op = req.op
        BY <1>3, <1>13 DEF SkipCluster, Skips, Requests
    <2> QED
        BY <1>7, <2>1
  <1>14. ASSUME NeedCluster PROVE FindInv'
      BY <1>8, <1>14 DEF NeedCluster
  <1>15. ASSUME FindEnds PROVE FindInv'
    <2>1. /\ pc' = "ready" /\ req' = Idle /\ want' = want /\ req.op = "find" /\ ~Searches
          /\ file' = IF req.path = <<>> THEN file ELSE NoFile
        BY <1>15 DEF FindEnds, Return
    <2>2. ASSUME NEW r \in Readers PROVE file' = Ahead(r, image, file, req.cluster, req.path)
      <3>1. CASE req.path = <<>>
          BY <2>1, <3>1 DEF Ahead
      <3>2. CASE req.path # <<>>
        <4>1. req.cluster \in Nat
            BY <1>3 DEF Requests
        <4>2. ~IsShortName(Head(req.path)) \/ ~file.dir \/ req.cluster >= EndMark
            BY <2>1, <3>2, <4>1, Marks DEF Searches
        <4> QED
            BY <1>2, <1>3, <2>1, <3>2, <4>2, AheadEnd
      <3> QED
          BY <3>1, <3>2
    <2>3. file' \in Files(image)
        BY <1>2, <2>1, NoFileIs
    <2>4. req'.op # "find"
        BY <2>1 DEF Idle
    <2>5. ASSUME NEW r \in Readers, Speaks(r)' PROVE Answers(r)'
      <3>1. Answers(r) /\ Result(r)' = Result(r)
          BY <1>4, <2>1, <2>5 DEF FindInv
      <3>2. file' = Result(r)'
          BY <2>1, <2>2, <3>1 DEF Answers
      <3> QED
          BY <2>1, <2>4, <3>2 DEF Answers
    <2> QED
        BY <1>5, <2>3, <2>5
  <1>16. ASSUME DataCached PROVE FindInv'
      BY <1>8, <1>16 DEF DataCached, DataReady
  <1>17. ASSUME LoadSector PROVE FindInv'
      BY <1>8, <1>17 DEF LoadSector, DataReady, Loading
  <1>18. ASSUME NoCluster PROVE FindInv'
      BY <1>6, <1>18 DEF NoCluster, Fail
  <1>19. ASSUME ReadFatIndex PROVE FindInv'
    <2> DEFINE n == Value(image.fat[req.cluster])
    <2>1. req.cluster \in Numbers(image) /\ GotNext(n) /\ pc = "fat" /\ want' = want /\ file' = file
        BY <1>19, NextRead DEF ReadFatIndex
    <2>2. UpperBitsClear => n = LinkOf(image, req.cluster)
        BY <1>2, <2>1, NextIs, Links DEF UpperBitsClear
    <2> HIDE DEF n
    <2>3. CASE req.op = "read"
      <3>1. req' = [req EXCEPT !.cluster = n] /\ pc' = "loop"
          BY <2>1, <2>3 DEF GotNext
      <3>2. req'.op = req.op
          BY <1>3, <3>1 DEF Requests
      <3> QED
          BY <1>7, <2>1, <2>3, <3>1, <3>2
    <2>4. CASE req.op # "read"
      <3>1. req' = [req EXCEPT !.next = n] /\ pc' = "scan" /\ req.op = "find"
          BY <2>1, <2>4 DEF GotNext, Inv, ReqInv
      <3>2. /\ req'.op = "find" /\ req'.cluster = req.cluster /\ req'.next = n
            /\ req'.path = req.path
          BY <1>3, <3>1 DEF Requests
      <3>3. ASSUME NEW r \in Readers, Speaks(r)' PROVE Answers(r)'
        <4>1. Answers(r) /\ Result(r)' = Result(r) /\ UpperBitsClear
            BY <1>4, <2>1, <3>3 DEF FindInv, Speaks
        <4>2. /\ Ahead(r, image, file, req.cluster, req.path)'
                    = Ahead(r, image, file, req.cluster, req.path)
              /\ Readable(r, image, file, req.cluster)' <=> Readable(r, image, file, req.cluster)
              /\ LinkOf(image, req.cluster)' = LinkOf(image, req.cluster)
            BY <1>1, <2>1, <3>2
        <4> QED
            BY <1>1, <2>1, <2>2, <3>1, <3>2, <4>1, <4>2 DEF Answers
      <3> QED
          BY <1>2, <1>5, <2>1, <3>3
    <2> QED
        BY <2>3, <2>4
  <1>20. ASSUME Copy PROVE FindInv'
    <2>1. PICK diff : req' = [req EXCEPT !.offset = 0, !.size = @ - diff]
        BY <1>20 DEF Copy
    <2>2. file' = file /\ want' = want /\ pc = "copy" /\ pc' # "scan" /\ req.op = "read"
        BY <1>20 DEF Copy, Inv, ReqInv
    <2>3. req'.op = req.op
        BY <1>3, <2>1 DEF Requests
    <2> QED
        BY <1>7, <2>2, <2>3
  <1>21. ASSUME ScanHit PROVE FindInv'
    <2>1. PICK junk \in BOOLEAN : Stops(junk) # {} /\ StopAt(SlotInWindow(Min(Stops(junk))))
        BY <1>21 DEF ScanHit
    <2>2. PICK e : e = SlotInWindow(Min(Stops(junk)))
        OBVIOUS
    <2>3. e.cluster \in Numbers(image) /\ e.size \in Nat /\ req.cluster \in ClustersOf(image)
          /\ pc = "scan" /\ want' = want
        BY <1>21, <2>1, <2>2, SlotFound, ScanSees DEF ScanHit
    <2>4. StopAt(e)
        BY <2>1, <2>2
    <2>5. req.op = "find" /\ req.path # <<>>
        BY <2>3 DEF Inv, ReqInv, Searches
    <2>6. ASSUME NEW r \in Readers, Speaks(r)
          PROVE  Result(r) = Find(r, image, IF IsLastInList(e) THEN NoFile ELSE AsFile(e),
                                  Tail(req.path))
      <3>1. Answers(r)
          BY <2>6 DEF FindInv
      <3>2. file.cluster \in ClustersOf(image)
          BY <2>3, <2>5, <3>1 DEF Answers
      <3>3. Reads(r)
          BY <2>3, <2>5, <2>6, <3>1, <3>2, ScanName DEF Reads, Speaks, Answers, Readable
      <3>4. Looking(r, image, file, req.cluster, Head(req.path))
                = IF IsLastInList(e) THEN NoFile ELSE AsFile(e)
          BY <2>1, <2>2, <2>3, <3>2, <3>3, HitIsWanted
      <3>5. Result(r) = Find(r, image, Looking(r, image, file, req.cluster, Head(req.path)),
                             Tail(req.path))
          BY <2>5, <3>1 DEF Answers, Ahead
      <3> QED
          BY <3>4, <3>5
    <2>7. Tail(req.path) \in Names
        BY <1>3, <2>5, HeadOfPath
    <2>8. \A r \in Readers : Result(r)' = Result(r) /\ (Speaks(r)' <=> Speaks(r))
        BY <1>4, <2>3
    <2>9. CASE IsLastInList(e)
      <3>1. file' = NoFile /\ pc' = "ready" /\ req' = Idle
          BY <2>4, <2>9 DEF StopAt, Return
      <3>2. req'.op # "find"
          BY <3>1 DEF Idle
      <3>3. ASSUME NEW r \in Readers, Speaks(r)' PROVE Answers(r)'
        <4>1. Result(r)' = Find(r, image, NoFile, Tail(req.path))
            BY <2>6, <2>8, <2>9, <3>3
        <4>2. Result(r)' = NoFile
            BY <1>2, <2>7, <4>1, FindNowhere
        <4> QED
            BY <3>1, <3>2, <4>2 DEF Answers
      <3> QED
          BY <1>2, <1>5, <3>1, <3>3, NoFileIs
    <2>10. CASE ~IsLastInList(e)
      <3>1. /\ file' = AsFile(e) /\ pc' = "loop"
            /\ req' = [req EXCEPT !.cluster = e.cluster, !.path = Tail(@)]
          BY <2>4, <2>10 DEF StopAt, AsFile
      <3>2. req'.op = "find" /\ req'.cluster = e.cluster /\ req'.path = Tail(req.path)
          BY <1>3, <2>5, <3>1 DEF Requests
      <3>3. file' \in Files(image) /\ file'.cluster = e.cluster
          BY <2>3, <3>1 DEF AsFile, FatFile, Files
      <3>4. ASSUME NEW r \in Readers, Speaks(r)' PROVE Answers(r)'
        <4>1. Result(r) = Find(r, image, file', Tail(req.path))
            BY <2>6, <2>8, <2>10, <3>1, <3>4
        <4>2. ~(r = "fatedit" /\ Result(r) = Unread)
            BY <2>8, <3>4 DEF Speaks, Result
        <4>3. /\ Result(r) = Ahead(r, image, file', e.cluster, Tail(req.path))
              /\ Tail(req.path) # <<>> => Readable(r, image, file', e.cluster)
            BY <1>2, <2>7, <3>3, <4>1, <4>2, AheadStart
        <4>4. /\ Result(r)' = Ahead(r, image, file, req.cluster, req.path)'
              /\ req'.path # <<>> => Readable(r, image, file, req.cluster)'
            BY <1>1, <2>8, <3>2, <4>3
        <4> QED
            BY <3>1, <3>2, <3>3, <4>4 DEF Answers
      <3> QED
          BY <1>5, <3>3, <3>4
    <2> QED
        BY <2>9, <2>10
  <1>22. ASSUME ScanNext PROVE FindInv'
    <2>1. PICK junk \in BOOLEAN : Stops(junk) = {}
        BY <1>22 DEF ScanNext
    <2>2. /\ req' = [req EXCEPT !.cluster = req.next] /\ pc' = "loop" /\ pc = "scan"
          /\ want' = want /\ file' = file
        BY <1>22 DEF ScanNext
    <2>3. req'.op = req.op /\ req'.cluster = req.next /\ req'.path = req.path
        BY <1>3, <2>2 DEF Requests
    <2>4. req.op = "find" /\ req.path # <<>>
        BY <2>2 DEF Inv, ReqInv, Searches
    <2>5. req.cluster \in ClustersOf(image)
      <3>1. 0 \in 0..(ClusterUnits - 1)
          BY ClusterUnitsPositive
      <3> QED
          BY <2>2, <3>1, ScanSees
    <2>6. ASSUME NEW r \in Readers, Speaks(r)'
          PROVE  Answers(r)'
      <3>1. Answers(r) /\ Result(r)' = Result(r) /\ Speaks(r)
          BY <1>4, <2>2, <2>6 DEF FindInv
      <3>2. req.next = LinkOf(image, req.cluster)
          BY <2>2, <3>1 DEF Answers
      <3>3. file.cluster \in ClustersOf(image)
          BY <2>4, <2>5, <3>1 DEF Answers
      <3>4. Reads(r)
          BY <2>2, <2>4, <3>1, <3>3, ScanName DEF Reads, Speaks, Answers, Readable
      <3>5. /\ Looking(r, image, file, req.cluster, Head(req.path))
                    = Looking(r, image, file, req.next, Head(req.path))
            /\ Readable(r, image, file, req.next)
          BY <2>1, <2>2, <3>2, <3>4, MissIsBehind
      <3>6. Result(r) = Ahead(r, image, file, req.next, req.path)
          BY <2>4, <3>1, <3>5 DEF Answers, Ahead
      <3>7. /\ Ahead(r, image, file, req.cluster, req.path)'
                    = Ahead(r, image, file, req.next, req.path)
            /\ Readable(r, image, file, req.cluster)' <=> Readable(r, image, file, req.next)
          BY <1>1, <2>2, <2>3
      <3> QED
          BY <1>1, <2>2, <2>3, <2>4, <3>1, <3>3, <3>5, <3>6, <3>7 DEF Answers
    <2> QED
        BY <1>2, <1>5, <2>2, <2>6
  <1>23. ASSUME LoadSectorFails PROVE FindInv'
      BY <1>6, <1>23 DEF LoadSectorFails, Fail
  <1>24. ASSUME LoadFatSectorFails PROVE FindInv'
      BY <1>6, <1>24 DEF LoadFatSectorFails, Fail
  <1> QED
      BY <1>9, <1>10, <1>11, <1>12, <1>13, <1>14, <1>15, <1>16, <1>17, <1>18, <1>19, <1>20, <1>21,
         <1>22, <1>23, <1>24 DEF Next, Proceed

-----------------------------------------------------------------------------
(***************************************************************************)
(* The theorems.                                                           *)
(***************************************************************************)

\* Requests, windows and answers stay as Inv says, whatever fails on the way.
THEOREM Invariance == Spec => []Inv
  <1>1. Inv /\ [Next]_vars => Inv'
      BY TypeStep, ReqStep, WindowStep, ReadStep DEF Inv
  <1> QED
      BY <1>1, InitInv, PTL DEF Spec

\* The types, and with them: only clusters and table sectors that exist are
\* ever loaded by LoadDataCluster and LoadFatSector, ReadAt begins to copy within
\* the window, and what it copies are units of clusters that exist.
THEOREM TypeCorrect == Spec => []TypeOK
  BY Invariance, PTL DEF Inv

\* Whenever a call can be made or a window is used, currentDataCluster and
\* currentFatSector do not vouch for other data.
THEOREM WindowsAreTrue == Spec => []WindowsMatch
  <1>1. Inv => WindowsMatch
      BY DEF Inv, TypeOK, WindowInv, WindowsMatch, SectorIdx
  <1> QED
      BY <1>1, Invariance, PTL

\* ReadAt returns exactly the units of the file that were asked for, or the
\* first of them where the upper bits of a table entry are set.
THEOREM ReadsMatchDisk == Spec => [](pc = "ready" => ReadMatches)
  <1>1. Inv => (pc = "ready" => ReadMatches)
      BY DEF Inv, ReadInv
  <1> QED
      BY <1>1, Invariance, PTL

\* The answers of the disk and of fatedit stay what is still to be found.
LEMMA FindInvariance == Spec => [](Inv /\ FindInv)
  <1>1. Inv /\ FindInv /\ [Next]_vars => Inv' /\ FindInv'
      BY TypeStep, ReqStep, WindowStep, ReadStep, FindStep DEF Inv
  <1>2. Init => Inv /\ FindInv
      BY InitInv, FindInit
  <1> QED
      BY <1>1, <1>2, PTL DEF Spec

\* A call that reports success has produced what is on the disk: the bytes of
\* the file (the first of them where the upper bits of a table entry are set), or
\* the file stored under the path, if no other entry has a string for its name.
THEOREM AnswersAreTrue == Spec => []AnswersMatchDisk
  <1>1. Inv /\ FindInv => AnswersMatchDisk
    <2> SUFFICES ASSUME Inv, FindInv, pc = "ready" PROVE ReadMatches /\ FindMatches
        BY DEF AnswersMatchDisk
    <2>1. req.op # "find" /\ pc # "failed"
        BY DEF Inv, ReqInv, Idle
    <2>2. ASSUME UpperBitsClear, KeptNames PROVE file = want.file
      <3>1. Speaks("disk") /\ "disk" \in Readers
          BY <2>2 DEF Speaks, Readers
      <3>2. Answers("disk")
          BY <3>1 DEF FindInv
      <3> QED
          BY <2>1, <3>2 DEF Answers, Result
    <2> QED
        BY <2>2 DEF Inv, ReadInv, FindMatches
  <1> QED
      BY <1>1, FindInvariance, PTL

\* The loader finds under a path what fatedit finds there, where that can read
\* the directories on the way.
THEOREM ReadersAgree == Spec => []EditorAgrees
  <1>1. Inv /\ FindInv => EditorAgrees
    <2> SUFFICES ASSUME Inv, FindInv, pc = "ready", UpperBitsClear, want.listed # Unread
                 PROVE  want.listed = file
        BY DEF EditorAgrees
    <2>1. req.op # "find"
        BY DEF Inv, ReqInv, Idle
    <2>2. Speaks("fatedit") /\ "fatedit" \in Readers
        BY DEF Speaks, Readers
    <2>3. Answers("fatedit")
        BY <2>2 DEF FindInv
    <2> QED
        BY <2>1, <2>3 DEF Answers, Result
  <1> QED
      BY <1>1, FindInvariance, PTL
=============================================================================
