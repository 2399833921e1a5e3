----------------------------- MODULE VideoProofs -----------------------------
(***************************************************************************)
(* Proofs about VideoMemory, for all sizes of the screen and of the tabs   *)
(* and all texts: no character is put outside of the screen, and the       *)
(* screen shows the text until it has to scroll.                           *)
(***************************************************************************)
EXTENDS VideoMemory, Induction, TLAPS

(***************************************************************************)
(* Rows and columns.                                                       *)
(***************************************************************************)

\* A number is divided in one way only.
LEMMA DivUnique ==
    ASSUME NEW b \in Nat \ {0}, NEW q \in Nat, NEW r \in Nat, r < b, NEW a \in Nat, a = q * b + r
    PROVE  a \div b = q /\ a % b = r
  OBVIOUS

\* Multiples of b that are below another one.
LEMMA NextMultiple ==
    ASSUME NEW b \in Nat, NEW q \in Nat, NEW r \in Nat, q * b < r * b
    PROVE  q * b + b <= r * b /\ q < r
  <1>1. q + 1 <= r
      OBVIOUS
  <1>2. (q + 1) * b <= r * b
      BY <1>1
  <1> QED
      BY <1>1, <1>2

\* The cell in row v and column u.
LEMMA CellInside ==
    ASSUME NEW u \in 0..(Width - 1), NEW v \in 0..(Height - 1)
    PROVE  v * Width + u \in 0..(Area - 1) /\ v * Width + Width <= Area
  <1>1. Width \in Nat \ {0} /\ Height \in Nat \ {0} /\ u \in Nat /\ v \in Nat
      BY VideoAssumption
  <1>2. PICK w \in Nat : w = Width
      BY <1>1
  <1>3. PICK h \in Nat : h = Height /\ v + 1 <= h
      BY <1>1
  <1>4. (v + 1) * w <= h * w
      BY <1>3
  <1>5. v * w + w <= h * w /\ v * w \in Nat
      BY <1>4
  <1>6. w * h = h * w
      OBVIOUS
  <1>7. Area = h * w
      BY <1>2, <1>3, <1>6 DEF Area
  <1>8. u < w
      BY <1>1, <1>2
  <1>9. PICK a \in Nat : a = v * w
      BY <1>5
  <1>10. PICK c \in Nat : c = h * w /\ a + w <= c
      BY <1>5, <1>9
  <1>11. a + u \in 0..(c - 1)
      BY <1>1, <1>8, <1>10
  <1> QED
      BY <1>2, <1>7, <1>9, <1>10, <1>11

\* The screen has at least one row.
LEMMA AreaIs == Area \in Nat /\ Width \in Nat /\ Width <= Area /\ Width > 0
                /\ TabWidth \in Nat /\ TabWidth > 0 /\ Height \in Nat /\ Height > 0
  <1>1. Width \in Nat \ {0} /\ Height \in Nat \ {0} /\ TabWidth \in Nat \ {0}
      BY VideoAssumption
  <1>2. 0 \in 0..(Width - 1) /\ 0 \in 0..(Height - 1)
      BY <1>1
  <1>3. 0 * Width + Width <= Area
      BY <1>2, CellInside
  <1>4. Area \in Nat
      BY <1>1 DEF Area
  <1> QED
      BY <1>1, <1>3, <1>4

\* A row is a whole number of tabs.
LEMMA TabsInRow == \E w \in Nat : Width = w * TabWidth
  <1>1. Width \in Nat /\ TabWidth \in Nat \ {0} /\ Width % TabWidth = 0
      BY VideoAssumption
  <1>2. PICK a \in Nat, b \in Nat \ {0} : a = Width /\ b = TabWidth
      BY <1>1
  <1>3. PICK q : q = a \div b
      OBVIOUS
  <1>4. PICK r : r = a % b
      OBVIOUS
  <1>5. q \in Nat /\ a = q * b + r
      BY <1>3, <1>4, DivMod
  <1>6. r = 0
      BY <1>1, <1>2, <1>4
  <1>7. a = q * b
      BY <1>5, <1>6
  <1> QED
      BY <1>2, <1>5, <1>7

\* Where a tab ends: within the row.
LEMMA TabStop ==
    ASSUME NEW u \in 0..(Width - 1), NEW v \in Nat
    PROVE  LET s == TabWidth - (u % TabWidth)
               p == v * Width + u
           IN  /\ s \in 1..TabWidth /\ u + s <= Width
               /\ p + s = ((p \div TabWidth) + 1) * TabWidth
  <1>1. Width \in Nat \ {0} /\ TabWidth \in Nat \ {0} /\ u \in Nat /\ u < Width
      BY VideoAssumption
  <1>2. PICK w \in Nat : Width = w * TabWidth
      BY TabsInRow
  <1>3. PICK b \in Nat \ {0} : b = TabWidth
      BY <1>1
  <1>4. PICK q : q = u \div b
      OBVIOUS
  <1>5. PICK r : r = u % b
      OBVIOUS
  <1>6. q \in Nat /\ r \in 0..(b - 1) /\ u = q * b + r
      BY <1>1, <1>4, <1>5, DivMod
  <1>7. b - r \in 1..b
      BY <1>6
  <1>8. q * b < w * b
      BY <1>1, <1>2, <1>3, <1>6
  <1>9. u + (b - r) <= w * b
    <2>1. q * b + b <= w * b
        BY <1>6, <1>8, NextMultiple
    <2> QED
        BY <1>6, <2>1
  <1>10. PICK g \in Nat : g = v * w + q
      BY <1>6
  <1>11. v * (w * b) + u = g * b + r
    <2>1. v * (w * b) = (v * w) * b
        OBVIOUS
    <2>2. (v * w + q) * b = (v * w) * b + q * b
        BY <1>6
    <2> QED
        BY <1>6, <1>10, <2>1, <2>2
  <1>12. PICK p \in Nat : p = v * Width + u
      BY <1>1
  <1>13. p = g * b + r
      BY <1>2, <1>3, <1>11, <1>12
  <1>14. p \div b = g
      BY <1>6, <1>13, DivUnique
  <1>15. p + (b - r) = (g + 1) * b
      BY <1>6, <1>13
  <1> QED
      BY <1>2, <1>3, <1>5, <1>7, <1>9, <1>12, <1>14, <1>15

-----------------------------------------------------------------------------
(***************************************************************************)
(* Where the characters of a text go.                                      *)
(***************************************************************************)

\* Positions are natural numbers.
LEMMA BehindNat ==
    ASSUME NEW p \in Nat, NEW class \in Chars
    PROVE  Behind(p, class) \in Nat
  <1>1. Width \in Nat \ {0} /\ TabWidth \in Nat \ {0}
      BY VideoAssumption
  <1>2. PICK q : q = p \div TabWidth
      OBVIOUS
  <1>3. PICK r : r = p \div Width
      OBVIOUS
  <1>4. q \in Nat /\ r \in Nat
      BY <1>1, <1>2, <1>3
  <1>5. (q + 1) * TabWidth \in Nat /\ r * Width \in Nat
      BY <1>1, <1>4
  <1>6. ((p \div TabWidth) + 1) * TabWidth \in Nat /\ (p \div Width) * Width \in Nat
      BY <1>2, <1>3, <1>5
  <1>7. p + 1 \in Nat /\ p + Width \in Nat
      BY <1>1
  <1> HIDE DEF Chars
  <1> QED
      BY <1>6, <1>7, Zenon DEF Behind, Chars

\* The positions after the first characters.
Trail(u, t, m) ==
    /\ u[0] = 0
    /\ \A i \in 1..m : u[i] = Behind(u[i - 1], t[i])
    /\ \A i \in 0..m : u[i] \in Nat

\* After gives the last one of them.
LEMMA AfterTrail ==
    ASSUME NEW t \in Seq(Chars), NEW m \in 0..Len(t)
    PROVE  \E u : Trail(u, t, m) /\ After(t, m) = u[m]
  <1> DEFINE F == [p \in Nat \X (1..m) |-> Behind(p[1], t[p[2]])]
             E(g) == [k \in 0..m |-> IF k = 0 THEN 0 ELSE Behind(g[k - 1], t[k])]
             u == CHOOSE g : g = E(g)
  <1>1. m \in Nat /\ \A i \in 1..m : t[i] \in Chars
      OBVIOUS
  <1>2. \A v \in Nat, i \in 1..m : Behind(v, t[i]) \in Nat
      BY <1>1, BehindNat
  <1>3. Keeps(F, m, Nat)
      BY <1>2 DEF Keeps
  <1>4. PICK f \in [0..m -> Nat] : IsHistory(f, m, 0, F)
    <2> HIDE DEF F
    <2> QED
        BY <1>1, <1>3, HistoryExists
  <1>5. f[0] = 0 /\ \A i \in 1..m : f[i] = Behind(f[i - 1], t[i])
    <2>1. ASSUME NEW i \in 1..m PROVE F[<<f[i - 1], i>>] = Behind(f[i - 1], t[i])
        BY <1>1
    <2> HIDE DEF F
    <2> QED
        BY <1>4, <2>1 DEF IsHistory
  <1>6. f = E(f)
    <2>1. \A i \in 0..m : f[i] = E(f)[i]
        BY <1>5
    <2> QED
        BY <2>1
  <1>7. u = E(u)
    <2> HIDE DEF E
    <2> QED
        BY <1>6, Zenon
  <1>8. After(t, m) = u[m]
      BY DEF After
  <1> HIDE DEF u
  <1>9. u[0] = 0 /\ \A i \in 1..m : u[i] = Behind(u[i - 1], t[i])
      BY <1>1, <1>7
  <1>10. \A i \in 0..m : u[i] \in Nat
    <2>1. ASSUME NEW i \in 1..m, u[i - 1] \in Nat PROVE u[i] \in Nat
        BY <1>2, <1>9, <2>1
    <2>2. Stays(u, m, Nat)
        BY <1>9, <2>1 DEF Stays
    <2> QED
        BY <1>1, <2>2, HistoryType
  <1>11. Trail(u, t, m)
      BY <1>9, <1>10 DEF Trail
  <1> QED
      BY <1>8, <1>11

\* Each character moves the position on from where the last one left it.
LEMMA AfterStep ==
    ASSUME NEW t \in Seq(Chars)
    PROVE  /\ After(t, 0) = 0
           /\ \A m \in 0..Len(t) : After(t, m) \in Nat
           /\ \A m \in 1..Len(t) : After(t, m) = Behind(After(t, m - 1), t[m])
  <1>1. \A m \in 0..Len(t) : After(t, m) \in Nat
    <2> TAKE m \in 0..Len(t)
    <2>1. PICK u : Trail(u, t, m) /\ After(t, m) = u[m]
        BY AfterTrail
    <2> QED
        BY <2>1 DEF Trail
  <1>2. After(t, 0) = 0
    <2>1. PICK u : Trail(u, t, 0) /\ After(t, 0) = u[0]
        BY AfterTrail
    <2> QED
        BY <2>1 DEF Trail
  <1>3. ASSUME NEW m \in 1..Len(t) PROVE After(t, m) = Behind(After(t, m - 1), t[m])
    <2>1. PICK u : Trail(u, t, m) /\ After(t, m) = u[m]
        BY AfterTrail
    <2>2. PICK l \in Nat : l = m - 1 /\ l \in 0..Len(t) /\ l \in 0..m /\ m \in Nat
        OBVIOUS
    <2>3. PICK v : Trail(v, t, l) /\ After(t, l) = v[l]
        BY <2>2, AfterTrail
    <2> DEFINE F == [p \in Nat \X (1..m) |-> Behind(p[1], t[p[2]])]
    <2>4. IsHistory(u, m, 0, F)
      <3>1. ASSUME NEW i \in 1..m PROVE u[i] = F[<<u[i - 1], i>>]
        <4>1. u[i - 1] \in Nat /\ u[i] = Behind(u[i - 1], t[i])
            BY <2>1 DEF Trail
        <4>2. <<u[i - 1], i>> \in Nat \X (1..m)
            BY <4>1
        <4> QED
            BY <4>1, <4>2
      <3> HIDE DEF F
      <3> QED
          BY <2>1, <3>1 DEF IsHistory, Trail
    <2>5. IsHistory(v, l, 0, F)
      <3>1. ASSUME NEW i \in 1..l PROVE v[i] = F[<<v[i - 1], i>>]
        <4>1. v[i - 1] \in Nat /\ v[i] = Behind(v[i - 1], t[i])
            BY <2>3 DEF Trail
        <4>2. <<v[i - 1], i>> \in Nat \X (1..m)
            BY <2>2, <4>1
        <4> QED
            BY <4>1, <4>2
      <3> HIDE DEF F
      <3> QED
          BY <2>3, <3>1 DEF IsHistory, Trail
    <2> HIDE DEF F
    <2>6. \A i \in 0..l : u[i] = v[i]
        BY <2>2, <2>4, <2>5, HistoryUnique
    <2>7. u[l] = After(t, l)
        BY <2>2, <2>3, <2>6
    <2>8. u[m] = Behind(u[m - 1], t[m])
        BY <2>1 DEF Trail
    <2> QED
        BY <2>1, <2>2, <2>7, <2>8
  <1> QED
      BY <1>1, <1>2, <1>3

-----------------------------------------------------------------------------
(***************************************************************************)
(* What the cells show.                                                    *)
(***************************************************************************)

\* A largest element is the maximum.
LEMMA MaxIs ==
    ASSUME NEW S, S \subseteq Int, NEW a \in S, \A b \in S : a >= b
    PROVE  Max(S) = a
  <1>1. \A c \in S : (\A b \in S : c >= b) => c = a
      OBVIOUS
  <1> QED
      BY <1>1 DEF Max

\* A bounded set has one.
LEMMA MaxExists ==
    ASSUME NEW m \in Nat, NEW S, S \subseteq 1..m, S # {}
    PROVE  Max(S) \in S
  <1> DEFINE T == {m - a : a \in S}
  <1>1. T \subseteq Nat
      OBVIOUS
  <1>5. T # {}
      OBVIOUS
  <1>2. PICK d \in T : \A e \in T : d <= e
    <2> HIDE DEF T
    <2> QED
        BY <1>1, <1>5, LeastNatural
  <1>3. PICK a \in S : d = m - a
      OBVIOUS
  <1>4. \A b \in S : a >= b
      BY <1>2, <1>3
  <1>6. S \subseteq Int
      OBVIOUS
  <1>7. Max(S) = a
      BY <1>3, <1>4, <1>6, MaxIs
  <1> QED
      BY <1>3, <1>7

\* The characters that were put into cell p.
There(t, p, m) ==
    {k \in 1..m : t[k] \in {"glyph", "\t"} /\ After(t, k - 1) <= p /\ p < After(t, k)}

\* What the cell shows is the last one of them.
LEMMA ShownIs ==
    ASSUME NEW t, NEW p, NEW m
    PROVE  /\ There(t, p, m) = {} => Shown(t, p, m) = Blank
           /\ There(t, p, m) # {} =>
                Shown(t, p, m) = IF t[Max(There(t, p, m))] = "\t" THEN Blank ELSE Max(There(t, p, m))
  BY DEF There, Shown

\* Nothing at the start.
LEMMA ShownFirst ==
    ASSUME NEW t, NEW p
    PROVE  Shown(t, p, 0) = Blank
  <1>1. There(t, p, 0) = {}
      BY DEF There
  <1> QED
      BY <1>1, ShownIs

\* It is a space or one of the characters.
LEMMA ShownType ==
    ASSUME NEW t, NEW p, NEW m \in Nat
    PROVE  Shown(t, p, m) \in 0..m
  <1>1. There(t, p, m) \subseteq 1..m
      BY DEF There
  <1>2. There(t, p, m) # {} => Max(There(t, p, m)) \in 1..m
      BY <1>1, MaxExists
  <1> QED
      BY <1>2, ShownIs DEF Blank

\* A character changes the cells it is put into and no others.
LEMMA ShownStep ==
    ASSUME NEW t \in Seq(Chars), NEW m \in 1..Len(t), NEW p \in Nat
    PROVE  /\ t[m] = "glyph" => Shown(t, p, m) = IF p = After(t, m - 1) THEN m ELSE Shown(t, p, m - 1)
           /\ t[m] = "\t" => Shown(t, p, m) = IF After(t, m - 1) <= p /\ p < After(t, m)
                                              THEN Blank ELSE Shown(t, p, m - 1)
           /\ t[m] \notin {"glyph", "\t"} => Shown(t, p, m) = Shown(t, p, m - 1)
  <1>1. PICK l \in Nat : l = m - 1
      OBVIOUS
  <1> DEFINE H(i) == t[i] \in {"glyph", "\t"} /\ After(t, i - 1) <= p /\ p < After(t, i)
  <1>2. ASSUME ~H(m) PROVE Shown(t, p, m) = Shown(t, p, m - 1)
    <2> HIDE DEF H
    <2>1. There(t, p, m) = {i \in 1..m : H(i)} /\ There(t, p, l) = {i \in 1..l : H(i)}
        BY DEF There, H
    <2>2. There(t, p, m) = There(t, p, l)
        BY <1>1, <1>2, <2>1
    <2> QED
        BY <1>1, <2>2, ShownIs
  <1>3. ASSUME H(m) PROVE Shown(t, p, m) = IF t[m] = "\t" THEN Blank ELSE m
    <2>1. m \in There(t, p, m) /\ There(t, p, m) \subseteq 1..m
        BY <1>3 DEF There
    <2>2. Max(There(t, p, m)) = m
        BY <2>1, MaxIs
    <2> QED
        BY <2>1, <2>2, ShownIs
  <1>4. After(t, m) = Behind(After(t, m - 1), t[m]) /\ After(t, l) \in Nat
      BY <1>1, AfterStep
  <1>5. t[m] = "glyph" => (H(m) <=> p = After(t, m - 1))
    <2>1. t[m] = "glyph" => After(t, m) = After(t, m - 1) + 1
        BY <1>4 DEF Behind
    <2> QED
        BY <1>1, <1>4, <2>1
  <1> QED
      BY <1>2, <1>3, <1>5

-----------------------------------------------------------------------------
(***************************************************************************)
(* The inductive invariant.                                                *)
(***************************************************************************)

\* The cells c show the first m characters of t; they show them moved up by a
\* row up to cell d.
ShowsText(c, t, m) == \A p \in 0..(Area - 1) : c[p] = Shown(t, p, m)
ShowsMoved(c, t, m, d) ==
    \A p \in 0..(Area - 1) : c[p] = Shown(t, IF p < d THEN p + Width ELSE p, m)

\* They show them without the m-th, a tab, of which the spaces in front of q
\* are there.
ShowsTab(c, t, m, q) ==
    \A p \in 0..(Area - 1) :
        c[p] = IF After(t, m - 1) <= p /\ p < q THEN Blank ELSE Shown(t, p, m - 1)

CursorAt(c, p) == c = p \/ (c = -1 /\ p = 0)

StartInv ==
    pc = "reset" => n = 0 /\ spaces = 0 /\ x = 0 /\ y = 0 /\ cursor = -1 /\ dst = 0

TextInv ==
    pc \in {"print", "halt"} /\ spaces = 0 =>
        /\ y * Width + x = After(text, n)
        /\ CursorAt(cursor, After(text, n))
        /\ ShowsText(cells, text, n)

TabInv ==
    pc = "print" /\ spaces > 0 =>
        /\ n > 0 /\ text[n] = "\t" /\ x + spaces <= Width
        /\ After(text, n - 1) <= y * Width + x
        /\ y * Width + x + spaces = After(text, n)
        /\ CursorAt(cursor, y * Width + x)
        /\ ShowsTab(cells, text, n, y * Width + x)

ScrollInv ==
    /\ pc = "move" => ShowsMoved(cells, text, n, dst)
    /\ pc = "fill" => dst = Area - Width /\ \A p \in 0..(Area - Width - 1) :
                                                cells[p] = Shown(text, p + Width, n)
    /\ pc # "print" => spaces = 0

Inv == TypeOK /\ StartInv /\ TextInv /\ TabInv /\ ScrollInv

\* The types, with what they say of the sizes.
LEMMA Types ==
    ASSUME TypeOK
    PROVE  /\ text \in Texts /\ text \in Seq(Chars) /\ n \in Nat /\ n \in 0..Len(text)
           /\ spaces \in Nat /\ spaces \in 0..TabWidth
           /\ x \in Nat /\ x \in 0..(Width - 1) /\ y \in Nat /\ y \in 0..Height
           /\ pc = "print" => y \in 0..(Height - 1)
           /\ cells \in [0..(Area - 1) -> -1..Len(text)]
           /\ cursor \in -1..(Area - 1) /\ dst \in Nat /\ dst \in 0..(Area - Width)
  <1>1. Height \in Nat /\ TabWidth \in Nat /\ Width \in Nat /\ Area \in Nat
      BY AreaIs
  <1>2. text \in Texts /\ n \in 0..Len(text) /\ text \in Seq(Chars)
      BY VideoAssumption DEF TypeOK
  <1>3. /\ spaces \in 0..TabWidth /\ x \in 0..(Width - 1) /\ y \in 0..Height
        /\ dst \in 0..(Area - Width)
        /\ pc = "print" => y < Height
        /\ cells \in [0..(Area - 1) -> -1..Len(text)] /\ cursor \in -1..(Area - 1)
      BY DEF TypeOK
  <1>4. n \in Nat
    <2>1. Len(text) \in Nat
        BY <1>2
    <2> QED
        BY <1>2, <2>1
  <1>5. spaces \in Nat /\ x \in Nat /\ y \in Nat /\ dst \in Nat
      BY <1>1, <1>3
  <1>6. pc = "print" => y \in 0..(Height - 1)
      BY <1>1, <1>3, <1>5
  <1> QED
      BY <1>2, <1>3, <1>4, <1>5, <1>6

\* The initial states.
LEMMA InitInv == Init => Inv
  <1> SUFFICES ASSUME Init PROVE Inv
      OBVIOUS
  <1>1. /\ 0 \in 0..Len(text) /\ 0 \in 0..TabWidth /\ 0 \in 0..(Width - 1) /\ 0 \in 0..Height
        /\ 0 \in 0..(Area - Width) /\ -1 \in -1..(Area - 1)
    <2>1. Len(text) \in Nat
        BY VideoAssumption DEF Init
    <2> QED
        BY <2>1, AreaIs
  <1>2. cells \in [0..(Area - 1) -> -1..Len(text)]
    <2>1. Stale \in -1..Len(text)
        BY <1>1 DEF Stale
    <2> QED
        BY <2>1 DEF Init
  <1>3. TypeOK
      BY <1>1, <1>2 DEF Init, TypeOK
  <1>4. StartInv /\ TextInv /\ TabInv /\ ScrollInv
      BY DEF Init, StartInv, TextInv, TabInv, ScrollInv
  <1> QED
      BY <1>3, <1>4 DEF Inv

\* What a line feed does.
LineFeedDone(p) ==
    \/ y' < Height /\ pc' = pc /\ dst' = dst /\ cursor' = p
    \/ y' = Height /\ pc' = "move" /\ dst' = 0 /\ cursor' = cursor

\* A row further down.
LEMMA LineFeeds ==
    ASSUME TypeOK, pc = "print", LineFeed
    PROVE  /\ y' \in 0..Height /\ y' = y + 1
           /\ LineFeedDone(y' * Width + x')
  <1>1. y \in Nat /\ y < Height /\ Height \in Nat
      BY AreaIs DEF TypeOK
  <1>2. y' = y + 1
      BY DEF LineFeed
  <1>3. y + 1 \in 0..Height
      BY <1>1
  <1>4. CASE y + 1 >= Height
    <2>1. pc' = "move" /\ dst' = 0 /\ cursor' = cursor
        BY <1>4 DEF LineFeed
    <2>2. y' = Height
        BY <1>1, <1>2, <1>4
    <2> QED
        BY <1>2, <1>3, <2>1, <2>2 DEF LineFeedDone
  <1>5. CASE ~(y + 1 >= Height)
    <2>1. pc' = pc /\ dst' = dst /\ cursor' = y' * Width + x'
        BY <1>5 DEF LineFeed, SyncCursor
    <2>2. y' < Height
        BY <1>1, <1>2, <1>5
    <2> QED
        BY <1>2, <1>3, <2>1, <2>2 DEF LineFeedDone
  <1> QED
      BY <1>4, <1>5

\* A printable character moves on by one cell.
LEMMA PutGlyphMoves ==
    ASSUME TypeOK, pc = "print", NEW c, PutGlyph(c), NEW p, p = y * Width + x
    PROVE  /\ p \in 0..(Area - 1) /\ cells' = [cells EXCEPT ![p] = c] /\ text' = text
           /\ x' \in 0..(Width - 1) /\ y' \in 0..Height
           /\ y' * Width + x' = p + 1 /\ LineFeedDone(p + 1)
           /\ x + 1 < Width => x' = x + 1 /\ y' = y /\ pc' = "print"
  <1>1. /\ x \in Nat /\ y \in Nat /\ x \in 0..(Width - 1) /\ y \in 0..(Height - 1)
        /\ Width \in Nat \ {0} /\ Height \in Nat /\ y \in 0..Height
      BY Types, AreaIs
  <1>2. p \in 0..(Area - 1)
      BY <1>1, CellInside
  <1>3. cells' = [cells EXCEPT ![p] = c] /\ text' = text
      BY DEF PutGlyph
  <1>4. PICK w \in Nat \ {0} : w = Width
      BY <1>1
  <1>5. PICK v \in Nat : v = y
      BY <1>1
  <1>6. PICK u \in Nat : u = x /\ u < w
      BY <1>1, <1>4
  <1>7. CASE x + 1 >= Width
    <2>1. x' = 0 /\ LineFeed
        BY <1>7 DEF PutGlyph
    <2>2. y' \in 0..Height /\ y' = v + 1 /\ LineFeedDone(y' * Width + x')
        BY <1>5, <2>1, LineFeeds
    <2>3. (v + 1) * w + 0 = v * w + u + 1
        BY <1>4, <1>6, <1>7
    <2>4. y' * Width + x' = p + 1
        BY <1>4, <1>5, <1>6, <2>1, <2>2, <2>3
    <2>5. 0 \in 0..(Width - 1) /\ ~(x + 1 < Width)
        BY <1>1, <1>7
    <2> QED
        BY <1>2, <1>3, <2>1, <2>2, <2>4, <2>5
  <1>8. CASE ~(x + 1 >= Width)
    <2>1. x' = x + 1 /\ y' = y /\ pc' = pc /\ dst' = dst /\ cursor' = y' * Width + x'
        BY <1>8 DEF PutGlyph, SyncCursor
    <2>2. v * w + (u + 1) = v * w + u + 1
        OBVIOUS
    <2>3. y' * Width + x' = p + 1
        BY <1>4, <1>5, <1>6, <2>1, <2>2
    <2>4. x' \in 0..(Width - 1) /\ y' < Height
        BY <1>1, <1>8, <2>1
    <2> QED
        BY <1>1, <1>2, <1>3, <2>1, <2>3, <2>4 DEF LineFeedDone
  <1> QED
      BY <1>7, <1>8

-----------------------------------------------------------------------------
(***************************************************************************)
(* Every step preserves it.                                                *)
(***************************************************************************)

\* After a character was put into a cell, the types are right.
LEMMA PutGlyphTypes ==
    ASSUME TypeOK, pc = "print", NEW c \in -1..Len(text), PutGlyph(c),
           n' \in 0..Len(text), spaces' \in 0..TabWidth
    PROVE  TypeOK'
  <1>1. PICK p : p = y * Width + x
      OBVIOUS
  <1>2. /\ p \in 0..(Area - 1) /\ cells' = [cells EXCEPT ![p] = c] /\ text' = text
        /\ x' \in 0..(Width - 1) /\ y' \in 0..Height
        /\ y' * Width + x' = p + 1 /\ LineFeedDone(p + 1)
      BY <1>1, PutGlyphMoves
  <1>3. cells' \in [0..(Area - 1) -> -1..Len(text)]
      BY <1>2, Types
  <1>4. /\ pc' \in {"print", "move"} /\ dst' \in 0..(Area - Width)
        /\ pc' = "print" => y' < Height
    <2>1. dst \in 0..(Area - Width) /\ 0 \in 0..(Area - Width)
        BY Types, AreaIs
    <2>2. y' \in Nat /\ Height \in Nat
        BY <1>2, AreaIs
    <2>3. CASE y' < Height /\ pc' = pc /\ dst' = dst
        BY <2>1, <2>3
    <2>4. CASE y' = Height /\ pc' = "move" /\ dst' = 0
        BY <2>1, <2>4
    <2> QED
        BY <1>2, <2>3, <2>4 DEF LineFeedDone
  <1>5. cursor' \in -1..(Area - 1)
    <2>1. CASE y' < Height /\ cursor' = p + 1
      <3>1. y' \in 0..(Height - 1)
          BY <1>2, <2>1, AreaIs
      <3>2. y' * Width + x' \in 0..(Area - 1)
          BY <1>2, <3>1, CellInside
      <3>3. p + 1 \in 0..(Area - 1)
          BY <1>2, <3>2
      <3> QED
          BY <1>2, <2>1, <3>3, AreaIs
    <2>2. CASE cursor' = cursor
        BY <2>2, Types
    <2> QED
        BY <1>2, <2>1, <2>2 DEF LineFeedDone
  <1>6. text' \in Texts /\ n' \in 0..Len(text')
      BY <1>2, Types
  <1> QED
      BY <1>2, <1>3, <1>4, <1>5, <1>6 DEF TypeOK

\* The types.
LEMMA TypeStep == TypeOK /\ ScrollInv /\ TabInv /\ [Next]_vars => TypeOK'
  <1> SUFFICES ASSUME TypeOK, ScrollInv, TabInv, [Next]_vars PROVE TypeOK'
      OBVIOUS
  <1>1. /\ n \in 0..Len(text) /\ n \in Nat /\ spaces \in 0..TabWidth /\ spaces \in Nat
        /\ text \in Seq(Chars) /\ Len(text) \in Nat
      BY Types
  <1>2. CASE UNCHANGED vars
      BY <1>2 DEF TypeOK, vars
  <1>3. ASSUME Reset PROVE TypeOK'
    <2>1. 0 \in 0..(Width - 1) /\ 0 \in 0..Height /\ 0 < Height
        BY AreaIs
    <2>2. cells' \in [0..(Area - 1) -> -1..Len(text)]
        BY <1>1, <1>3 DEF Reset, Blank
    <2> QED
        BY <1>3, <2>1, <2>2 DEF TypeOK, Reset
  <1>4. ASSUME NEW class, NextChar(class)
        PROVE  pc = "print" /\ spaces = 0 /\ n' = n + 1 /\ n' \in 0..Len(text) /\ n + 1 \in 1..Len(text)
      BY <1>1, <1>4 DEF NextChar
  <1>5. ASSUME Glyph PROVE TypeOK'
    <2>1. pc = "print" /\ n' \in 0..Len(text) /\ n + 1 \in -1..Len(text) /\ spaces' \in 0..TabWidth
        BY <1>1, <1>4, <1>5 DEF Glyph
    <2> QED
        BY <1>5, <2>1, PutGlyphTypes DEF Glyph
  <1>6. ASSUME CarriageReturn PROVE TypeOK'
    <2>1. pc = "print" /\ n' \in 0..Len(text) /\ x' = 0 /\ y' = y /\ cursor' = y' * Width + x'
        BY <1>4, <1>6 DEF CarriageReturn, SyncCursor
    <2>2. x' \in 0..(Width - 1) /\ y' \in 0..(Height - 1)
        BY <2>1, Types, AreaIs
    <2>3. cursor' \in 0..(Area - 1)
        BY <2>1, <2>2, CellInside
    <2>4. cursor' \in -1..(Area - 1)
        BY <2>3, AreaIs
    <2> QED
        BY <1>6, <2>1, <2>2, <2>4 DEF TypeOK, CarriageReturn
  <1>7. ASSUME NewLine PROVE TypeOK'
    <2>1. pc = "print" /\ n' \in 0..Len(text) /\ x' = x /\ LineFeed
          /\ UNCHANGED <<text, spaces, cells>>
        BY <1>4, <1>7 DEF NewLine
    <2>2. y' \in 0..Height /\ y' = y + 1 /\ LineFeedDone(y' * Width + x')
        BY <2>1, LineFeeds
    <2>3. pc' \in {"print", "move"} /\ dst' \in 0..(Area - Width) /\ (pc' = "print" => y' < Height)
      <3>1. dst \in 0..(Area - Width) /\ 0 \in 0..(Area - Width)
          BY Types, AreaIs
      <3>2. CASE y' < Height /\ pc' = pc /\ dst' = dst
          BY <2>1, <3>1, <3>2
      <3>3. CASE y' = Height /\ pc' = "move" /\ dst' = 0
          BY <3>1, <3>3
      <3> QED
          BY <2>2, <3>2, <3>3 DEF LineFeedDone
    <2>4. cursor' \in -1..(Area - 1)
      <3>1. CASE y' < Height /\ cursor' = y' * Width + x'
        <4>1. y' \in 0..(Height - 1) /\ x' \in 0..(Width - 1)
            BY <2>1, <2>2, <3>1, Types, AreaIs
        <4>2. cursor' \in 0..(Area - 1)
            BY <3>1, <4>1, CellInside
        <4> QED
            BY <4>2, AreaIs
      <3>2. CASE cursor' = cursor
          BY <3>2, Types
      <3> QED
          BY <2>2, <3>1, <3>2 DEF LineFeedDone
    <2> QED
        BY <2>1, <2>2, <2>3, <2>4 DEF TypeOK
  <1>8. ASSUME Tab PROVE TypeOK'
    <2>1. /\ pc = "print" /\ n' \in 0..Len(text) /\ spaces' = TabWidth - (x % TabWidth)
          /\ UNCHANGED <<text, x, y, cells, cursor, pc, dst>>
        BY <1>4, <1>8 DEF Tab
    <2>2. spaces' \in 0..TabWidth
      <3>1. TabWidth - (x % TabWidth) \in 1..TabWidth
          BY Types, TabStop
      <3> QED
          BY <2>1, <3>1, AreaIs
    <2> QED
        BY <2>1, <2>2 DEF TypeOK
  <1>9. ASSUME TabSpace PROVE TypeOK'
    <2>1. pc = "print" /\ spaces > 0 /\ spaces' = spaces - 1 /\ PutGlyph(Blank) /\ n' = n
        BY <1>9 DEF TabSpace
    <2>2. spaces' \in 0..TabWidth /\ n' \in 0..Len(text) /\ Blank \in -1..Len(text)
        BY <1>1, <2>1, AreaIs DEF Blank
    <2> QED
        BY <2>1, <2>2, PutGlyphTypes
  <1>10. ASSUME Ignored PROVE TypeOK'
      BY <1>4, <1>10 DEF TypeOK, Ignored
  <1>11. ASSUME MoveCell PROVE TypeOK'
    <2>1. /\ dst + Width # Area /\ cells' = [cells EXCEPT ![dst] = cells[dst + Width]]
          /\ dst' = dst + 1 /\ UNCHANGED <<text, n, spaces, x, y, cursor, pc>>
        BY <1>11 DEF MoveCell
    <2>2. dst' \in 0..(Area - Width) /\ dst + Width \in 0..(Area - 1)
      <3>1. PICK a \in Nat, w \in Nat : a = Area /\ w = Width
          BY AreaIs
      <3>2. PICK d \in Nat : d = dst /\ d <= a - w
          BY <3>1, Types
      <3>3. d + w # a
          BY <2>1, <3>1, <3>2
      <3>4. d + 1 \in 0..(a - w) /\ d + w \in 0..(a - 1)
          BY <3>2, <3>3
      <3> QED
          BY <2>1, <3>1, <3>2, <3>4
    <2>3. cells' \in [0..(Area - 1) -> -1..Len(text)]
        BY <2>1, <2>2, Types
    <2> QED
        BY <2>1, <2>2, <2>3 DEF TypeOK
  <1>12. ASSUME MovedAll PROVE TypeOK'
      BY <1>12 DEF TypeOK, MovedAll
  <1>13. ASSUME FillCell PROVE TypeOK'
    <2>1. /\ cells' = [cells EXCEPT ![dst] = Blank]
          /\ UNCHANGED <<text, n, spaces, x, y, cursor, pc, dst>>
        BY <1>13 DEF FillCell
    <2>2. cells' \in [0..(Area - 1) -> -1..Len(text)]
      <3>1. Blank \in -1..Len(text)
          BY <1>1 DEF Blank
      <3> QED
          BY <2>1, <3>1, Types
    <2> QED
        BY <2>1, <2>2 DEF TypeOK
  <1>14. ASSUME Halt PROVE TypeOK'
      BY <1>14 DEF TypeOK, Halt
  <1> QED
      BY <1>2, <1>3, <1>5, <1>6, <1>7, <1>8, <1>9, <1>10, <1>11, <1>12, <1>13, <1>14
         DEF Next, PutChar, ScrollUp

\* The next character, and where it goes.
LEMMA NextAt ==
    ASSUME Inv, NEW class, NextChar(class), NEW m, m = n + 1
    PROVE  /\ pc = "print" /\ spaces = 0 /\ n' = m /\ m \in 1..Len(text) /\ m - 1 = n /\ m \in Nat
           /\ text[m] = class
           /\ After(text, m) = Behind(y * Width + x, class)
           /\ y * Width + x = After(text, n) /\ CursorAt(cursor, After(text, n))
           /\ ShowsText(cells, text, n)
  <1>1. n \in 0..Len(text) /\ n \in Nat /\ text \in Seq(Chars) /\ Len(text) \in Nat
      BY Types DEF Inv
  <1>2. pc = "print" /\ spaces = 0 /\ n' = m /\ n < Len(text) /\ text[m] = class
      BY DEF NextChar
  <1>3. m \in 1..Len(text) /\ m - 1 = n /\ m \in Nat
      BY <1>1, <1>2
  <1>4. /\ y * Width + x = After(text, n) /\ CursorAt(cursor, After(text, n))
        /\ ShowsText(cells, text, n)
      BY <1>2 DEF Inv, TextInv
  <1>5. After(text, m) = Behind(After(text, m - 1), text[m])
      BY <1>1, <1>3, AfterStep
  <1> QED
      BY <1>2, <1>3, <1>4, <1>5

\* Cells that show the text are not moved yet.
LEMMA MovedNone ==
    ASSUME NEW c, NEW t, NEW m, ShowsText(c, t, m)
    PROVE  ShowsMoved(c, t, m, 0)
  <1>1. \A p \in 0..(Area - 1) : ~(p < 0)
      BY AreaIs
  <1> QED
      BY <1>1 DEF ShowsText, ShowsMoved

\* Once the cells and the position are right, so is everything.
LEMMA Finished ==
    ASSUME NEW m, n' = m, spaces' = 0, text' = text, ShowsText(cells', text, m), pc = "print",
           NEW p, y' * Width + x' = p, p = After(text, m), LineFeedDone(p)
    PROVE  StartInv' /\ TextInv' /\ TabInv' /\ ScrollInv'
  <1>1. CASE y' < Height /\ pc' = pc /\ dst' = dst /\ cursor' = p
    <2>1. pc' = "print" /\ CursorAt(cursor', p)
        BY <1>1 DEF CursorAt
    <2> QED
        BY <1>1, <2>1 DEF StartInv, TextInv, TabInv, ScrollInv
  <1>2. CASE y' = Height /\ pc' = "move" /\ dst' = 0 /\ cursor' = cursor
    <2>1. ShowsMoved(cells', text', n', dst')
        BY <1>2, MovedNone
    <2> QED
        BY <1>2, <2>1 DEF StartInv, TextInv, TabInv, ScrollInv
  <1> QED
      BY <1>1, <1>2 DEF LineFeedDone

\* A glyph is shown where the last character ended.
LEMMA GlyphStep ==
    ASSUME Inv, Glyph
    PROVE  StartInv' /\ TextInv' /\ TabInv' /\ ScrollInv'
  <1>1. PICK m : m = n + 1
      OBVIOUS
  <1>2. PICK p : p = y * Width + x
      OBVIOUS
  <1>3. /\ pc = "print" /\ n' = m /\ m \in 1..Len(text) /\ m - 1 = n /\ text[m] = "glyph"
        /\ After(text, m) = Behind(p, "glyph") /\ p = After(text, n) /\ ShowsText(cells, text, n)
        /\ spaces' = 0 /\ PutGlyph(m)
      BY <1>1, <1>2, NextAt DEF Glyph
  <1>4. /\ p \in 0..(Area - 1) /\ cells' = [cells EXCEPT ![p] = m] /\ text' = text
        /\ y' * Width + x' = p + 1 /\ LineFeedDone(p + 1)
      BY <1>2, <1>3, PutGlyphMoves DEF Inv
  <1>5. After(text, m) = p + 1
      BY <1>3 DEF Behind
  <1>6. ShowsText(cells', text, m)
    <2>1. ASSUME NEW q \in 0..(Area - 1) PROVE cells'[q] = Shown(text, q, m)
      <3>1. Shown(text, q, m) = IF q = p THEN m ELSE Shown(text, q, n)
        <4>1. text \in Seq(Chars) /\ q \in Nat
            BY Types, AreaIs DEF Inv
        <4> QED
            BY <1>3, <4>1, ShownStep
      <3>2. cells'[q] = IF q = p THEN m ELSE cells[q]
        <4>1. DOMAIN cells = 0..(Area - 1)
            BY Types DEF Inv
        <4> QED
            BY <1>4, <4>1
      <3> QED
          BY <1>3, <3>1, <3>2 DEF ShowsText
    <2> QED
        BY <2>1 DEF ShowsText
  <1> QED
      BY <1>3, <1>4, <1>5, <1>6, Finished

\* What is not shown leaves the cells as they are.
LEMMA NotShown ==
    ASSUME TypeOK, NEW m \in 1..Len(text), text[m] \notin {"glyph", "\t"},
           ShowsText(cells, text, m - 1)
    PROVE  ShowsText(cells, text, m)
  <1>1. text \in Seq(Chars) /\ \A q \in 0..(Area - 1) : q \in Nat
      BY Types, AreaIs
  <1>2. \A q \in 0..(Area - 1) : Shown(text, q, m) = Shown(text, q, m - 1)
      BY <1>1, ShownStep
  <1> QED
      BY <1>2 DEF ShowsText

\* The other characters that move the position or do nothing.
LEMMA ControlStep ==
    ASSUME Inv, CarriageReturn \/ NewLine \/ Ignored
    PROVE  StartInv' /\ TextInv' /\ TabInv' /\ ScrollInv'
  <1>1. PICK m : m = n + 1
      OBVIOUS
  <1>2. PICK p : p = y * Width + x
      OBVIOUS
  <1>3. PICK class \in {"\r", "\n", "other"} : NextChar(class)
      BY Zenon DEF CarriageReturn, NewLine, Ignored
  <1>4. /\ pc = "print" /\ spaces = 0 /\ n' = m /\ m \in 1..Len(text) /\ m - 1 = n
        /\ text[m] = class /\ After(text, m) = Behind(p, class)
        /\ p = After(text, n) /\ CursorAt(cursor, p) /\ ShowsText(cells, text, n)
      BY <1>1, <1>2, <1>3, NextAt
  <1>5. ShowsText(cells, text, m)
      BY <1>3, <1>4, NotShown DEF Inv
  <1>6. text' = text /\ cells' = cells /\ spaces' = 0
    <2>1. UNCHANGED <<text, spaces, cells>>
        BY DEF CarriageReturn, NewLine, Ignored
    <2> QED
        BY <1>4, <2>1
  <1>7. /\ x \in Nat /\ x < Width /\ y \in Nat /\ y < Height
        /\ Width \in Nat \ {0} /\ Height \in Nat
    <2>1. Width \in Nat /\ Width > 0 /\ Height \in Nat
        BY AreaIs
    <2>2. pc = "print" /\ TypeOK
        BY <1>4 DEF Inv
    <2>3. x \in 0..(Width - 1) /\ x \in Nat /\ y \in Nat /\ y \in 0..(Height - 1)
        BY <2>2, Types, Zenon
    <2> QED
        BY <2>1, <2>3
  <1>8. CASE CarriageReturn
    <2>1. text[m] = "\r" /\ x' = 0 /\ y' = y /\ cursor' = y' * Width + x' /\ pc' = pc /\ dst' = dst
        BY <1>1, <1>8 DEF CarriageReturn, NextChar, SyncCursor
    <2>2. PICK b \in Nat \ {0} : b = Width
        BY <1>7
    <2>3. PICK v \in Nat : v = y
        BY <1>7
    <2>4. PICK u \in Nat : u = x /\ u < b
        BY <1>7, <2>2
    <2>5. PICK a \in Nat : a = v * b + u
        OBVIOUS
    <2>6. a \div b = v
        BY <2>4, <2>5, DivUnique
    <2>7. Behind(p, "\r") = v * b
        BY <1>2, <2>2, <2>3, <2>4, <2>5, <2>6 DEF Behind
    <2>8. v * b + 0 = v * b
        OBVIOUS
    <2>9. y' * Width + x' = After(text, m)
        BY <1>4, <2>1, <2>2, <2>3, <2>7, <2>8
    <2>10. LineFeedDone(After(text, m))
        BY <1>7, <2>1, <2>9 DEF LineFeedDone
    <2> QED
        BY <1>4, <1>5, <1>6, <2>9, <2>10, Finished
  <1>9. CASE NewLine
    <2>1. text[m] = "\n" /\ x' = x /\ LineFeed
        BY <1>1, <1>9 DEF NewLine, NextChar
    <2>2. y' = y + 1 /\ LineFeedDone(y' * Width + x')
        BY <1>4, <2>1, LineFeeds DEF Inv
    <2>3. PICK b \in Nat, v \in Nat, u \in Nat : b = Width /\ v = y /\ u = x
        BY <1>7
    <2>4. (v + 1) * b + u = (v * b + u) + b
        OBVIOUS
    <2>5. y' * Width + x' = p + Width
        BY <1>2, <2>1, <2>2, <2>3, <2>4
    <2>6. y' * Width + x' = After(text, m)
        BY <1>4, <2>1, <2>5 DEF Behind
    <2> QED
        BY <1>4, <1>5, <1>6, <2>2, <2>6, Finished
  <1>10. CASE Ignored
    <2>1. text[m] = "other" /\ UNCHANGED <<x, y, cursor, pc, dst>>
        BY <1>1, <1>10 DEF Ignored, NextChar
    <2>2. After(text, m) = p
        BY <1>4, <2>1 DEF Behind
    <2> QED
        BY <1>2, <1>4, <1>5, <1>6, <2>1, <2>2 DEF StartInv, TextInv, TabInv, ScrollInv
  <1> QED
      BY <1>8, <1>9, <1>10

\* A tab: none of its spaces is there yet.
LEMMA TabStep ==
    ASSUME Inv, Tab
    PROVE  StartInv' /\ TextInv' /\ TabInv' /\ ScrollInv'
  <1>1. PICK m : m = n + 1
      OBVIOUS
  <1>2. PICK p : p = y * Width + x
      OBVIOUS
  <1>3. /\ pc = "print" /\ n' = m /\ m \in 1..Len(text) /\ m - 1 = n /\ m \in Nat
        /\ text[m] = "\t" /\ After(text, m) = Behind(p, "\t")
        /\ p = After(text, n) /\ CursorAt(cursor, p) /\ ShowsText(cells, text, n)
      BY <1>1, <1>2, NextAt DEF Tab
  <1>4. /\ spaces' = TabWidth - (x % TabWidth)
        /\ UNCHANGED <<text, x, y, cells, cursor, pc, dst>>
      BY DEF Tab
  <1>5. /\ spaces' \in 1..TabWidth /\ x + spaces' <= Width
        /\ p + spaces' = ((p \div TabWidth) + 1) * TabWidth
      BY <1>2, <1>4, TabStop, Types DEF Inv
  <1>6. spaces' > 0 /\ m > 0 /\ p \in Nat
    <2>1. p \in 0..(Area - 1)
        BY <1>2, <1>3, Types, CellInside DEF Inv
    <2> QED
        BY <1>3, <1>5, <2>1, AreaIs
  <1>7. p + spaces' = After(text, m)
      BY <1>3, <1>5 DEF Behind
  <1>8. ShowsTab(cells, text, m, p)
    <2>1. \A q \in 0..(Area - 1) : ~(p <= q /\ q < p)
        BY <1>6, AreaIs
    <2> QED
        BY <1>3, <2>1 DEF ShowsTab, ShowsText
  <1>9. p <= p
      BY <1>6
  <1>10. TabInv'
      BY <1>2, <1>3, <1>4, <1>5, <1>6, <1>7, <1>8, <1>9 DEF TabInv
  <1> QED
      BY <1>3, <1>4, <1>6, <1>10 DEF StartInv, TextInv, ScrollInv

\* A space of a tab.
LEMMA TabSpaceStep ==
    ASSUME Inv, TabSpace
    PROVE  StartInv' /\ TextInv' /\ TabInv' /\ ScrollInv'
  <1>1. PICK m : m = n
      OBVIOUS
  <1>2. PICK p : p = y * Width + x
      OBVIOUS
  <1>3. pc = "print" /\ spaces > 0 /\ spaces' = spaces - 1 /\ PutGlyph(Blank) /\ n' = n
      BY DEF TabSpace
  <1>4. /\ m > 0 /\ text[m] = "\t" /\ x + spaces <= Width
        /\ After(text, m - 1) <= p /\ p + spaces = After(text, m)
        /\ ShowsTab(cells, text, m, p)
      BY <1>1, <1>2, <1>3 DEF Inv, TabInv
  <1>5. /\ p \in 0..(Area - 1) /\ cells' = [cells EXCEPT ![p] = Blank] /\ text' = text
        /\ y' * Width + x' = p + 1 /\ LineFeedDone(p + 1)
        /\ x + 1 < Width => x' = x + 1 /\ y' = y /\ pc' = "print"
      BY <1>2, <1>3, PutGlyphMoves DEF Inv
  <1>6. /\ m \in 1..Len(text) /\ text \in Seq(Chars) /\ spaces \in Nat /\ x \in Nat /\ p \in Nat
        /\ Width \in Nat /\ \A q \in 0..(Area - 1) : q \in Nat
    <2>1. m \in 0..Len(text) /\ m \in Nat /\ Len(text) \in Nat /\ text \in Seq(Chars)
          /\ spaces \in Nat /\ x \in Nat
        BY <1>1, Types DEF Inv
    <2> QED
        BY <1>4, <1>5, <2>1, AreaIs
  <1>7. After(text, m - 1) \in Nat
    <2>1. PICK l \in 0..Len(text) : l = m - 1
        BY <1>6
    <2> QED
        BY <1>6, <2>1, AfterStep
  <1>8. ShowsTab(cells', text, m, p + 1)
    <2>1. ASSUME NEW q \in 0..(Area - 1)
          PROVE  cells'[q] = IF After(text, m - 1) <= q /\ q < p + 1
                             THEN Blank ELSE Shown(text, q, m - 1)
      <3>1. cells[q] = IF After(text, m - 1) <= q /\ q < p THEN Blank ELSE Shown(text, q, m - 1)
          BY <1>4 DEF ShowsTab
      <3>2. cells'[q] = IF q = p THEN Blank ELSE cells[q]
        <4>1. DOMAIN cells = 0..(Area - 1)
            BY Types DEF Inv
        <4> QED
            BY <1>5, <4>1
      <3>3. q \in Nat
          BY <1>6
      <3>4. q < p + 1 <=> q < p \/ q = p
          BY <1>6, <3>3
      <3> QED
          BY <1>4, <3>1, <3>2, <3>4
    <2> QED
        BY <2>1 DEF ShowsTab
  <1>9. CASE spaces = 1
    <2>1. p + 1 = After(text, m) /\ spaces' = 0
        BY <1>3, <1>4, <1>9
    <2>2. ShowsText(cells', text, m)
      <3>1. ASSUME NEW q \in 0..(Area - 1) PROVE cells'[q] = Shown(text, q, m)
        <4>1. Shown(text, q, m) = IF After(text, m - 1) <= q /\ q < After(text, m)
                                  THEN Blank ELSE Shown(text, q, m - 1)
            BY <1>4, <1>6, ShownStep
        <4>2. cells'[q] = IF After(text, m - 1) <= q /\ q < p + 1
                          THEN Blank ELSE Shown(text, q, m - 1)
            BY <1>8 DEF ShowsTab
        <4> QED
            BY <2>1, <4>1, <4>2
      <3> QED
          BY <3>1 DEF ShowsText
    <2> QED
        BY <1>1, <1>3, <1>5, <2>1, <2>2, Finished
  <1>10. CASE spaces # 1
    <2>1. x + 1 < Width /\ spaces' > 0 /\ (x + 1) + (spaces - 1) <= Width
        BY <1>3, <1>4, <1>6, <1>10
    <2>2. x' = x + 1 /\ y' = y /\ pc' = "print"
        BY <1>5, <2>1
    <2>3. After(text, m - 1) <= p + 1 /\ (p + 1) + (spaces - 1) = After(text, m)
        BY <1>4, <1>6, <1>7
    <2>4. CursorAt(cursor', p + 1)
      <3>1. pc' # "move"
          BY <2>2, Zenon
      <3>2. LineFeedDone(p + 1)
          BY <1>5
      <3>3. cursor' = p + 1
          BY <3>1, <3>2, Zenon DEF LineFeedDone
      <3> QED
          BY <3>3 DEF CursorAt
    <2>5. TabInv'
        BY <1>1, <1>3, <1>4, <1>5, <1>8, <2>1, <2>2, <2>3, <2>4 DEF TabInv
    <2> QED
        BY <2>1, <2>2, <2>5 DEF StartInv, TextInv, ScrollInv
  <1> QED
      BY <1>9, <1>10

\* ScrollUp moves the rows up.
LEMMA ScrollStep ==
    ASSUME Inv, ScrollUp
    PROVE  StartInv' /\ TextInv' /\ TabInv' /\ ScrollInv'
  <1>1. /\ spaces = 0 /\ cells \in [0..(Area - 1) -> -1..Len(text)]
        /\ dst \in 0..(Area - Width) /\ dst \in Nat
      BY Types DEF ScrollUp, MoveCell, MovedAll, FillCell, Inv, ScrollInv
  <1>2. PICK a \in Nat, w \in Nat : a = Area /\ w = Width /\ w <= a /\ w > 0
      BY AreaIs
  <1>3. PICK d \in Nat : d = dst /\ d <= a - w
      BY <1>1, <1>2
  <1>4. CASE MoveCell
    <2>1. /\ pc = "move" /\ pc' = "move" /\ d + w # a /\ cells' = [cells EXCEPT ![d] = cells[d + w]]
          /\ dst' = d + 1 /\ UNCHANGED <<text, n, spaces>>
        BY <1>2, <1>3, <1>4 DEF MoveCell
    <2>2. d + w \in 0..(a - 1) /\ d \in 0..(a - 1) /\ ~(d + w < d)
        BY <1>2, <1>3, <2>1
    <2>3. ASSUME NEW q \in 0..(a - 1)
          PROVE  cells'[q] = Shown(text, IF q < d + 1 THEN q + w ELSE q, n)
      <3>1. \A r \in 0..(a - 1) : cells[r] = Shown(text, IF r < d THEN r + w ELSE r, n)
          BY <1>2, <1>3, <2>1 DEF Inv, ScrollInv, ShowsMoved
      <3>2. CASE q = d
        <4>1. cells'[q] = cells[d + w]
            BY <1>1, <1>2, <2>1, <2>2, <3>2
        <4>2. cells[d + w] = Shown(text, d + w, n)
            BY <2>2, <3>1
        <4>3. d < d + 1
            OBVIOUS
        <4> QED
            BY <3>2, <4>1, <4>2, <4>3
      <3>3. CASE q # d
        <4>1. cells'[q] = cells[q]
            BY <1>1, <1>2, <2>1, <3>3
        <4>2. q < d + 1 <=> q < d
            BY <3>3
        <4> QED
            BY <3>1, <4>1, <4>2
      <3> QED
          BY <3>2, <3>3
    <2>4. ShowsMoved(cells', text, n, d + 1)
        BY <1>2, <2>3 DEF ShowsMoved
    <2> QED
        BY <1>1, <2>1, <2>4 DEF StartInv, TextInv, TabInv, ScrollInv
  <1>5. CASE MovedAll
    <2>1. /\ pc = "move" /\ pc' = "fill" /\ d + w = a /\ UNCHANGED <<text, n, spaces, cells, dst>>
        BY <1>2, <1>3, <1>5 DEF MovedAll
    <2>2. d = a - w
        BY <1>2, <1>3, <2>1
    <2>3. ASSUME NEW q \in 0..(a - w - 1) PROVE cells[q] = Shown(text, q + w, n)
      <3>1. q \in 0..(a - 1) /\ q < d
          BY <1>2, <2>2
      <3> QED
          BY <1>2, <1>3, <2>1, <3>1 DEF Inv, ScrollInv, ShowsMoved
    <2> QED
        BY <1>1, <1>2, <1>3, <2>1, <2>2, <2>3 DEF StartInv, TextInv, TabInv, ScrollInv
  <1>6. CASE FillCell
    <2>1. /\ pc = "fill" /\ pc' = "fill" /\ cells' = [cells EXCEPT ![d] = Blank]
          /\ UNCHANGED <<text, n, spaces, dst>>
        BY <1>3, <1>6 DEF FillCell
    <2>2. d = a - w /\ \A q \in 0..(a - w - 1) : cells[q] = Shown(text, q + w, n)
        BY <1>2, <1>3, <2>1 DEF Inv, ScrollInv
    <2>3. ASSUME NEW q \in 0..(a - w - 1) PROVE cells'[q] = Shown(text, q + w, n)
      <3>1. q # d
          BY <1>2, <2>2
      <3>2. cells'[q] = cells[q]
          BY <1>1, <2>1, <3>1
      <3> QED
          BY <2>2, <3>2
    <2> QED
        BY <1>1, <1>2, <1>3, <2>1, <2>2, <2>3 DEF StartInv, TextInv, TabInv, ScrollInv
  <1> QED
      BY <1>4, <1>5, <1>6 DEF ScrollUp

\* Reset blanks the screen; Halt changes nothing on it.
LEMMA ResetStep ==
    ASSUME Inv, Reset \/ Halt
    PROVE  StartInv' /\ TextInv' /\ TabInv' /\ ScrollInv'
  <1>1. text \in Seq(Chars)
      BY Types DEF Inv
  <1>2. CASE Reset
    <2>1. /\ n' = 0 /\ spaces' = 0 /\ x' = 0 /\ y' = 0 /\ cursor' = -1 /\ pc' = "print"
          /\ cells' = [p \in 0..(Area - 1) |-> Blank] /\ text' = text
        BY <1>2 DEF Reset, Inv, StartInv
    <2>2. y' * Width + x' = 0
      <3>1. 0 * Width + 0 = 0
          BY AreaIs
      <3> QED
          BY <2>1, <3>1
    <2>3. After(text, 0) = 0
        BY <1>1, AfterStep
    <2>4. ShowsText(cells', text, 0)
        BY <2>1, ShownFirst DEF ShowsText
    <2>5. CursorAt(cursor', 0)
        BY <2>1 DEF CursorAt
    <2> QED
        BY <2>1, <2>2, <2>3, <2>4, <2>5 DEF StartInv, TextInv, TabInv, ScrollInv
  <1>3. CASE Halt
    <2>1. /\ pc = "print" /\ spaces = 0 /\ pc' = "halt"
          /\ UNCHANGED <<text, n, spaces, x, y, cells, cursor, dst>>
        BY <1>3 DEF Halt
    <2> QED
        BY <2>1 DEF Inv, StartInv, TextInv, TabInv, ScrollInv
  <1> QED
      BY <1>2, <1>3

-----------------------------------------------------------------------------
(***************************************************************************)
(* The theorems.                                                           *)
(***************************************************************************)

\* The position, the cells and the cursor stay as Inv says.
THEOREM Invariance == Spec => []Inv
  <1>1. Inv /\ [Next]_vars => Inv'
    <2> SUFFICES ASSUME Inv, [Next]_vars PROVE Inv'
        OBVIOUS
    <2>1. TypeOK'
        BY TypeStep DEF Inv
    <2>2. CASE UNCHANGED vars
      <3>1. StartInv' /\ TextInv' /\ TabInv' /\ ScrollInv'
          BY <2>2 DEF Inv, StartInv, TextInv, TabInv, ScrollInv, vars
      <3> QED
          BY <2>1, <3>1 DEF Inv
    <2>3. CASE Next
      <3>1. StartInv' /\ TextInv' /\ TabInv' /\ ScrollInv'
          BY <2>3, GlyphStep, ControlStep, TabStep, TabSpaceStep, ScrollStep, ResetStep
             DEF Next, PutChar
      <3> QED
          BY <2>1, <3>1 DEF Inv
    <2> QED
        BY <2>2, <2>3
  <1> QED
      BY <1>1, InitInv, PTL DEF Spec

\* PutChar and ScrollUp stay within the video memory.
THEOREM TypeCorrect == Spec => []TypeOK
  BY Invariance, PTL DEF Inv

\* The screen shows the text: wrapping, tabs and carriage returns put every
\* character where it belongs, and ScrollUp has moved the rows up by one when it
\* begins to fill the last one.
THEOREM ScreenIsRight == Spec => []ScreenShowsText
  <1>1. Inv => ScreenShowsText
      BY DEF Inv, TextInv, ScrollInv, ShowsText, CursorAt, ScreenShowsText
  <1> QED
      BY <1>1, Invariance, PTL
=============================================================================
