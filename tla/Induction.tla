------------------------------ MODULE Induction ------------------------------
(***************************************************************************)
(* Induction over natural numbers in the form the proofs of the other      *)
(* modules use it.  The sets stand for predicates: a set that holds 0 and  *)
(* with every number the next one holds all of them.  The other lemmas are *)
(* about functions that are defined by recursion over 0..n, which is how   *)
(* the models write the loops of the code.                                 *)
(***************************************************************************)
EXTENDS Arithmetic, WellFoundedInduction, TLAPS

\* Every set of natural numbers that is not empty has a least element.
LEMMA LeastNatural ==
    ASSUME NEW T, T \subseteq Nat, T # {}
    PROVE  \E x \in T : \A y \in T : x <= y
  <1> DEFINE R == {ss \in Nat \X Nat : ss[1] < ss[2]}
  <1>1. IsWellFoundedOn(R, Nat)
      BY NatLessThanWellFounded DEF OpToRel
  <1>2. \E x \in T : \A y \in T : ~ (<<y, x>> \in R)
    <2> HIDE DEF R
    <2> QED
        BY <1>1, WFMin, Zenon
  <1>3. PICK x \in T : \A y \in T : ~ (<<y, x>> \in R)
      BY <1>2, Zenon
  <1>4. \A y \in T : x <= y
    <2> TAKE y \in T
    <2>1. <<y, x>> \notin R
        BY <1>3
    <2>2. x \in Nat /\ y \in Nat
        OBVIOUS
    <2> QED
        BY <2>1, <2>2
  <1> QED
      BY <1>4

\* Induction: a set that holds 0 and is closed under successor up to n holds
\* 0..n.
LEMMA UpTo ==
    ASSUME NEW n \in Nat, NEW S, 0 \in S,
           \A i \in 0..(n - 1) : i \in S => i + 1 \in S
    PROVE  \A i \in 0..n : i \in S
  <1> DEFINE T == {i \in 0..n : i \notin S}
  <1>1. SUFFICES ASSUME T # {} PROVE FALSE
      OBVIOUS
  <1>2. PICK x \in T : \A y \in T : x <= y
    <2> HIDE DEF T
    <2>1. T \subseteq Nat
        BY DEF T
    <2> QED
        BY <1>1, <2>1, LeastNatural
  <1>3. x \in 0..n /\ x \notin S /\ x # 0
      BY <1>2
  <1>4. x - 1 \in 0..(n - 1) /\ x - 1 \in S
      BY <1>2, <1>3
  <1> QED
      BY <1>3, <1>4

\* Induction over all natural numbers.
LEMMA AllNaturals ==
    ASSUME NEW S, 0 \in S, \A i \in Nat : i \in S => i + 1 \in S
    PROVE  \A i \in Nat : i \in S
  <1> TAKE n \in Nat
  <1>1. \A i \in 0..n : i \in S
      BY UpTo
  <1> QED
      BY <1>1

\* A loop that starts with a and applies F n times: the values it goes through.
IsHistory(f, n, a, F) == f[0] = a /\ \A i \in 1..n : f[i] = F[<<f[i - 1], i>>]

\* F stays within V.
Keeps(F, n, V) == \A v \in V, i \in 1..n : F[<<v, i>>] \in V

\* Such a loop has a history.
LEMMA HistoryExists ==
    ASSUME NEW n \in Nat, NEW V, NEW a \in V, NEW F, Keeps(F, n, V)
    PROVE  \E f \in [0..n -> V] : IsHistory(f, n, a, F)
  <1> DEFINE S == {m \in 0..n : \E f \in [0..m -> V] : IsHistory(f, m, a, F)}
  <1>1. 0 \in S
    <2> DEFINE g == [i \in 0..0 |-> a]
    <2>1. g \in [0..0 -> V] /\ IsHistory(g, 0, a, F)
        BY DEF IsHistory
    <2>2. 0 \in 0..n
        OBVIOUS
    <2> HIDE DEF g
    <2> QED
        BY <2>1, <2>2
  <1>2. ASSUME NEW m \in 0..(n - 1), m \in S PROVE m + 1 \in S
    <2>1. PICK f \in [0..m -> V] : IsHistory(f, m, a, F)
        BY <1>2
    <2> DEFINE g == [i \in 0..(m + 1) |-> IF i = m + 1 THEN F[<<f[m], m + 1>>] ELSE f[i]]
    <2>2. F[<<f[m], m + 1>>] \in V
        BY DEF Keeps
    <2>3. g \in [0..(m + 1) -> V]
        BY <2>2
    <2>4. \A i \in 0..m : g[i] = f[i]
        OBVIOUS
    <2>5. g[m + 1] = F[<<g[m], m + 1>>]
      <3>1. g[m] = f[m] /\ m + 1 \in 0..(m + 1)
          OBVIOUS
      <3> QED
          BY <3>1
    <2>6. \A i \in 1..(m + 1) : g[i] = F[<<g[i - 1], i>>]
      <3> TAKE i \in 1..(m + 1)
      <3>1. CASE i = m + 1
          BY <3>1, <2>5
      <3>2. CASE i # m + 1
        <4>1. i \in 1..m /\ i - 1 \in 0..m /\ i \in 0..m
            BY <3>2
        <4> QED
            BY <4>1, <2>1, <2>4 DEF IsHistory
      <3> QED
          BY <3>1, <3>2
    <2>7. g[0] = a
        BY <2>1, <2>4 DEF IsHistory
    <2>8. m + 1 \in 0..n
        OBVIOUS
    <2> HIDE DEF g
    <2>9. IsHistory(g, m + 1, a, F)
        BY <2>6, <2>7 DEF IsHistory
    <2> QED
        BY <2>3, <2>8, <2>9
  <1> HIDE DEF S
  <1>3. n \in S
      BY <1>1, <1>2, UpTo
  <1> QED
      BY <1>3 DEF S

\* Two histories of the same loop agree as far as both go.
LEMMA HistoryUnique ==
    ASSUME NEW n \in Nat, NEW m \in 0..n, NEW a, NEW F, NEW f, NEW g,
           IsHistory(f, n, a, F), IsHistory(g, m, a, F)
    PROVE  \A i \in 0..m : f[i] = g[i]
  <1> DEFINE S == {i \in 0..m : f[i] = g[i]}
  <1>1. 0 \in S
      BY DEF IsHistory
  <1>2. \A i \in 0..(m - 1) : i \in S => i + 1 \in S
    <2> TAKE i \in 0..(m - 1)
    <2> HAVE i \in S
    <2>1. i + 1 \in 1..m /\ i + 1 \in 1..n /\ (i + 1) - 1 = i
        OBVIOUS
    <2>2. f[i + 1] = F[<<f[i], i + 1>>] /\ g[i + 1] = F[<<g[i], i + 1>>]
        BY <2>1 DEF IsHistory
    <2> QED
        BY <2>1, <2>2
  <1> HIDE DEF S
  <1>3. \A i \in 0..m : i \in S
      BY <1>1, <1>2, UpTo
  <1> QED
      BY <1>3 DEF S

\* V holds the first value of u and, with a value, the next one.
Stays(u, n, V) == u[0] \in V /\ \A i \in 1..n : u[i - 1] \in V => u[i] \in V

\* What every turn of a loop keeps holds all along.
LEMMA HistoryType ==
    ASSUME NEW n \in Nat, NEW V, NEW u, Stays(u, n, V)
    PROVE  \A i \in 0..n : u[i] \in V
  <1> DEFINE S == {i \in 0..n : u[i] \in V}
  <1>1. 0 \in S
      BY DEF Stays
  <1>2. \A i \in 0..(n - 1) : i \in S => i + 1 \in S
    <2> TAKE i \in 0..(n - 1)
    <2> HAVE i \in S
    <2>1. i + 1 \in 1..n /\ (i + 1) - 1 = i
        OBVIOUS
    <2> QED
        BY <2>1 DEF Stays
  <1> HIDE DEF S
  <1>3. \A i \in 0..n : i \in S
      BY <1>1, <1>2, UpTo
  <1> QED
      BY <1>3 DEF S

\* The recursion from x to h[x], which is smaller, up to n.
IsDescent(f, n, a, h, F) == f[0] = a /\ \A x \in 1..n : f[x] = F[<<f[h[x]], x>>]

\* h falls, and F stays within V.
Falls(h) == \A x \in Nat \ {0} : h[x] \in 0..(x - 1)
KeepsAll(F, V) == \A v \in V, x \in Nat \ {0} : F[<<v, x>>] \in V

\* What such a recursion computes does not depend on how far it is followed.
LEMMA DescentUnique ==
    ASSUME NEW n \in Nat, NEW m \in Nat, NEW a, NEW h, Falls(h), NEW F, NEW f, NEW g,
           IsDescent(f, n, a, h, F), IsDescent(g, m, a, h, F)
    PROVE  \A x \in Nat : x <= n /\ x <= m => f[x] = g[x]
  <1> DEFINE T == {x \in Nat : x <= n /\ x <= m /\ f[x] # g[x]}
  <1>1. SUFFICES ASSUME T # {} PROVE FALSE
      OBVIOUS
  <1>2. PICK x \in T : \A y \in T : x <= y
    <2> HIDE DEF T
    <2>1. T \subseteq Nat
        BY DEF T
    <2> QED
        BY <1>1, <2>1, LeastNatural
  <1>3. x \in Nat /\ x <= n /\ x <= m /\ f[x] # g[x]
      BY <1>2
  <1>4. x # 0
      BY <1>3 DEF IsDescent
  <1>5. h[x] \in 0..(x - 1)
      BY <1>3, <1>4 DEF Falls
  <1>6. f[h[x]] = g[h[x]]
      BY <1>2, <1>3, <1>5
  <1>7. x \in 1..n /\ x \in 1..m
      BY <1>3, <1>4
  <1> QED
      BY <1>3, <1>6, <1>7 DEF IsDescent

\* Such a recursion has a result for every number.
LEMMA DescentExists ==
    ASSUME NEW V, NEW a \in V, NEW h, Falls(h), NEW F, KeepsAll(F, V)
    PROVE  \E f \in [Nat -> V] : \A n \in Nat : IsDescent(f, n, a, h, F)
  <1> DEFINE S == {n \in Nat : \E f \in [0..n -> V] : IsDescent(f, n, a, h, F)}
  <1>1. 0 \in S
    <2> DEFINE g == [i \in 0..0 |-> a]
    <2>1. g \in [0..0 -> V] /\ IsDescent(g, 0, a, h, F)
        BY DEF IsDescent
    <2> HIDE DEF g
    <2> QED
        BY <2>1
  <1>2. ASSUME NEW m \in Nat, m \in S PROVE m + 1 \in S
    <2>1. PICK f \in [0..m -> V] : IsDescent(f, m, a, h, F)
        BY <1>2
    <2> DEFINE k == m + 1
               g == [i \in 0..k |-> IF i = k THEN F[<<f[h[k]], k>>] ELSE f[i]]
    <2>2. k \in Nat /\ k # 0 /\ h[k] \in 0..m
        BY DEF Falls
    <2>3. F[<<f[h[k]], k>>] \in V
        BY <2>2 DEF KeepsAll
    <2>4. g \in [0..k -> V]
        BY <2>3
    <2>5. \A i \in 0..m : g[i] = f[i]
        OBVIOUS
    <2>6. g[k] = F[<<f[h[k]], k>>]
        OBVIOUS
    <2> HIDE DEF g
    <2>7. \A i \in 1..k : g[i] = F[<<g[h[i]], i>>]
      <3> TAKE i \in 1..k
      <3>1. CASE i = k
          BY <3>1, <2>2, <2>5, <2>6
      <3>2. CASE i # k
        <4>1. i \in 1..m /\ i \in 0..m /\ h[i] \in 0..m
            BY <3>2 DEF Falls
        <4> QED
            BY <4>1, <2>1, <2>5 DEF IsDescent
      <3> QED
          BY <3>1, <3>2
    <2>8. g[0] = a
        BY <2>1, <2>5 DEF IsDescent
    <2>9. IsDescent(g, k, a, h, F)
        BY <2>7, <2>8 DEF IsDescent
    <2> QED
        BY <2>2, <2>4, <2>9
  <1> HIDE DEF S
  <1>3. \A n \in Nat : n \in S
      BY <1>1, <1>2, AllNaturals
  <1> DEFINE c(n) == CHOOSE f \in [0..n -> V] : IsDescent(f, n, a, h, F)
             f == [n \in Nat |-> c(n)[n]]
  <1>4. \A n \in Nat : c(n) \in [0..n -> V] /\ IsDescent(c(n), n, a, h, F)
    <2> TAKE n \in Nat
    <2>1. \E g \in [0..n -> V] : IsDescent(g, n, a, h, F)
        BY <1>3 DEF S
    <2> QED
        BY <2>1, Zenon
  <1> HIDE DEF c
  <1>5. f \in [Nat -> V]
    <2>1. \A n \in Nat : c(n)[n] \in V
        BY <1>4
    <2> QED
        BY <2>1
  <1>6. ASSUME NEW n \in Nat, NEW x \in Nat, x <= n PROVE c(n)[x] = c(x)[x]
    <2>1. \A y \in Nat : y <= n /\ y <= x => c(n)[y] = c(x)[y]
        BY <1>4, DescentUnique
    <2> QED
        BY <1>6, <2>1
  <1>7. ASSUME NEW n \in Nat PROVE IsDescent(f, n, a, h, F)
    <2>1. f[0] = a
        BY <1>4 DEF IsDescent
    <2>2. ASSUME NEW x \in 1..n PROVE f[x] = F[<<f[h[x]], x>>]
      <3>1. x \in Nat /\ x # 0 /\ h[x] \in 0..(x - 1) /\ x \in 1..x /\ h[x] \in Nat /\ h[x] <= x
          BY DEF Falls
      <3>2. c(x)[x] = F[<<c(x)[h[x]], x>>]
          BY <1>4, <3>1 DEF IsDescent
      <3>3. c(x)[h[x]] = c(h[x])[h[x]]
          BY <1>6, <3>1
      <3> QED
          BY <3>1, <3>2, <3>3
    <2> QED
        BY <2>1, <2>2 DEF IsDescent
  <1> QED
      BY <1>5, <1>7

\* Division with remainder.
LEMMA DivMod ==
    ASSUME NEW x \in Nat, NEW b \in Nat \ {0}, NEW q, q = x \div b, NEW r, r = x % b
    PROVE  q \in Nat /\ r \in 0..(b - 1) /\ x = q * b + r
  OBVIOUS

\* Quotient and remainder make the number again.
LEMMA Recombine ==
    ASSUME NEW x \in Nat, NEW b \in Nat \ {0}
    PROVE  x = (x \div b) * b + (x % b)
  <1>1. PICK q : q = x \div b
      OBVIOUS
  <1>2. PICK r : r = x % b
      OBVIOUS
  <1>3. x = q * b + r
      BY <1>1, <1>2
  <1> QED
      BY <1>1, <1>2, <1>3, Zenon

\* The quotient of a number below a multiple of the divisor.
LEMMA DivBelow ==
    ASSUME NEW x \in Nat, NEW b \in Nat \ {0}, NEW p \in Nat, x < p * b
    PROVE  x \div b < p
  OBVIOUS

\* The powers of b up to n.
Powers(u, b, n) ==
    u \in [0..n -> Nat] /\ u[0] = 1 /\ \A i \in 1..n : u[i] = u[i - 1] * b

\* The power is the last of them.
LEMMA PowerHistory ==
    ASSUME NEW b \in Nat, NEW n \in Nat
    PROVE  \E u : Powers(u, b, n) /\ Power(b, n) = u[n]
  <1> DEFINE Step(v) == v * b
             F == [p \in Nat \X (1..n) |-> Step(p[1])]
             E(g) == [i \in 0..n |-> IF i = 0 THEN 1 ELSE g[i - 1] * b]
             u == CHOOSE g : g = E(g)
  <1>1. \A v \in Nat : Step(v) \in Nat
      OBVIOUS
  <1>2. Keeps(F, n, Nat)
    <2> HIDE DEF Step
    <2> QED
        BY <1>1 DEF Keeps
  <1>3. PICK f \in [0..n -> Nat] : IsHistory(f, n, 1, F)
    <2> HIDE DEF F
    <2> QED
        BY <1>2, HistoryExists
  <1>4. f[0] = 1 /\ \A i \in 1..n : f[i] = Step(f[i - 1])
    <2> HIDE DEF Step
    <2>1. ASSUME NEW i \in 1..n PROVE F[<<f[i - 1], i>>] = Step(f[i - 1])
        OBVIOUS
    <2> QED
        BY <1>3, <2>1 DEF IsHistory
  <1>5. f = E(f)
    <2>1. \A i \in 0..n : f[i] = E(f)[i]
        BY <1>4
    <2> QED
        BY <2>1
  <1>6. u = E(u)
    <2> HIDE DEF E
    <2> QED
        BY <1>5, Zenon
  <1>7. Power(b, n) = u[n]
      BY DEF Power
  <1> HIDE DEF u
  <1>8. u[0] = 1 /\ \A i \in 1..n : u[i] = Step(u[i - 1])
      BY <1>6
  <1>9. \A i \in 0..n : u[i] \in Nat
    <2> HIDE DEF Step
    <2>1. ASSUME NEW i \in 1..n, u[i - 1] \in Nat PROVE u[i] \in Nat
        BY <1>1, <1>8, <2>1
    <2>2. Stays(u, n, Nat)
        BY <1>8, <2>1 DEF Stays
    <2> QED
        BY <2>2, HistoryType
  <1>10. u \in [0..n -> Nat]
      BY <1>6, <1>9
  <1>11. Powers(u, b, n)
      BY <1>8, <1>10 DEF Powers
  <1> QED
      BY <1>7, <1>11

\* A power of a positive number is positive.
LEMMA PowerPositive ==
    ASSUME NEW b \in Nat \ {0}, NEW n \in Nat
    PROVE  Power(b, n) \in Nat \ {0}
  <1>1. PICK u : Powers(u, b, n) /\ Power(b, n) = u[n]
      BY PowerHistory
  <1> DEFINE Pos == Nat \ {0}
  <1>2. ASSUME NEW v \in Pos PROVE v * b \in Pos
      OBVIOUS
  <1>3. Stays(u, n, Pos)
    <2>1. u[0] \in Pos
        BY <1>1 DEF Powers
    <2>2. ASSUME NEW i \in 1..n, u[i - 1] \in Pos PROVE u[i] \in Pos
      <3>1. u[i] = u[i - 1] * b
          BY <1>1 DEF Powers
      <3> QED
          BY <1>2, <2>2, <3>1
    <2> HIDE DEF Pos
    <2> QED
        BY <2>1, <2>2 DEF Stays
  <1>4. \A i \in 0..n : u[i] \in Pos
    <2> HIDE DEF Pos
    <2> QED
        BY <1>3, HistoryType
  <1> QED
      BY <1>1, <1>4
=============================================================================
