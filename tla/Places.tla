------------------------------- MODULE Places --------------------------------
(***************************************************************************)
(* The elements of a sequence at a set of its places, in order: what       *)
(* Array.filter keeps, in a form that can be reasoned about.               *)
(***************************************************************************)
EXTENDS Integers, FiniteSets

Rank(i, set) == Cardinality({j \in set : j <= i})
Picked(s, set) == [k \in 1 .. Cardinality(set) |-> s[CHOOSE i \in set : Rank(i, set) = k]]
=============================================================================
