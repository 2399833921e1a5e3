------------------------------ MODULE MCFatEdit ------------------------------
(* FatEdit on images of a few clusters. *)
EXTENDS FatEdit

\* Host files of no, of some and of more than one cluster of data.
Sizes == [f \in {"nil", "one", "big"} \cap (Inputs \ Unreadable) |->
            CASE f = "nil" -> 0 [] f = "one" -> 1 [] f = "big" -> SlotsPerCluster + 1]
=============================================================================
