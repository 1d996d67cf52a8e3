--------------------------- MODULE MCTransaction ----------------------------
(* Instances of the transactions for TLC: two objects of one prototype and *)
(* one of another.                                                          *)
EXTENDS Transaction

CONSTANTS o1, o2, o3

MCTypeOf == [o \in Objects |-> IF o = o3 THEN "other" ELSE "same"]

=============================================================================
