----------------------------- MODULE MCSession ------------------------------
(* Instances of the session for TLC: two objects of one prototype and one  *)
(* of another, which the database may have a row for at the start.         *)
EXTENDS Session

CONSTANTS o1, o2, o3

MCTypeOf == [o \in Objects |-> IF o = o3 THEN "other" ELSE "same"]

=============================================================================
