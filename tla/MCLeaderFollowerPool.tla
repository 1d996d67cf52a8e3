----------------------- MODULE MCLeaderFollowerPool -----------------------
(* Instances of the leader/follower pool for TLC.                          *)
EXTENDS LeaderFollowerPool

=============================================================================
