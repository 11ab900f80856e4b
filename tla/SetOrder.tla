-------------------------------- MODULE SetOrder --------------------------------
(***************************************************************************)
(* A set of numbers in ascending order: what a stable filter keeps, and    *)
(* what the stores sort by.                                                *)
(***************************************************************************)
EXTENDS Integers, FiniteSets

InOrder(ids) ==
    CHOOSE s \in [1..Cardinality(ids) -> ids] : \A i, j \in DOMAIN s : i < j => s[i] < s[j]
=================================================================================
