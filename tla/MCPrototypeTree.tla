-------------------------- MODULE MCPrototypeTree ---------------------------
(* Instances of the prototype tree for TLC; objects are interchangeable.    *)
EXTENDS PrototypeTree, TLC

ObjectSymmetry == Permutations(Objects)

=============================================================================
