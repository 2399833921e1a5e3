------------------------------- MODULE MCHeap -------------------------------
(* Heap on a region of a few entries, with requests below, at and above the *)
(* sizes where splitting starts.                                            *)
EXTENDS Heap
=============================================================================
