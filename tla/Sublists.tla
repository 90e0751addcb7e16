------------------------------- MODULE Sublists -------------------------------
(***************************************************************************)
(* Leaving entries out of an array.  The C code erases them one at a time  *)
(* and moves up what follows (memmove, or a second index that copies what  *)
(* stays); the entries left keep their order.                              *)
(*                                                                         *)
(* Picked says what SelectSeq computes without saying how, so that it can  *)
(* be reasoned about: the places that stay, in increasing order.           *)
(***************************************************************************)
EXTENDS Naturals, FiniteSets

Increasing(p) == \A i, j \in DOMAIN p : i < j => p[i] < p[j]

\* These places in increasing order.
InOrder(at) == CHOOSE p \in [1 .. Cardinality(at) -> at] : Increasing(p)

\* The entries of the list at these places, in the list's order.
Picked(list, at) == LET p == InOrder(at) IN [n \in DOMAIN p |-> list[p[n]]]
===============================================================================
