---------------------------- MODULE MCThreadPool ----------------------------
(* Instances of the task pool for TLC.                                     *)
EXTENDS ThreadPool

=============================================================================
