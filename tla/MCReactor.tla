----------------------------- MODULE MCReactor ------------------------------
(* Instances of the reactor for TLC.                                       *)
EXTENDS Reactor, TLC

\* Pool threads are interchangeable; used for runs without liveness.
ThreadSymmetry == Permutations(Threads)

=============================================================================
