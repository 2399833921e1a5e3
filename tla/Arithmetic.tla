----------------------------- MODULE Arithmetic ------------------------------
(***************************************************************************)
(* Powers as a recursive function: the models use them for the sizes of    *)
(* numbers of so many bits or digits.                                      *)
(***************************************************************************)
EXTENDS Integers

\* b to the power of n.
Power(b, n) ==
    LET upto[i \in 0..n] == IF i = 0 THEN 1 ELSE upto[i - 1] * b
    IN  upto[n]
=============================================================================
