---------------------- MODULE LeaderFollowerPoolProofs ----------------------
(***************************************************************************)
(* PoolInv is inductive for every set of threads and for join functions    *)
(* that promote and that do not; the safety properties of the leader/      *)
(* follower pool follow from it.                                           *)
(***************************************************************************)
EXTENDS LeaderFollowerPool, TLAPS

\* The constructor's state satisfies the invariant: nobody leads, nothing runs.
LEMMA InitPoolInv == PoolInit => PoolInv
  BY PoolAssumption
  DEF PoolInit, PoolInv, TypeOK, ThreadStates, HoldsMutex, MutexProtects,
      AtMostOneLeading, LeaderLeads, VacantLeadIsTaken

\* Every step of execute(), promote_new_leader() and of the controlling thread
\* keeps the invariant.
LEMMA NextPoolInv == PoolInv /\ [PoolNext]_poolVars => PoolInv'
<1> SUFFICES ASSUME PoolInv, [PoolNext]_poolVars
             PROVE  PoolInv'
  OBVIOUS
<1> USE PoolAssumption
    DEF PoolInv, TypeOK, ThreadStates, HoldsMutex, MutexProtects,
        AtMostOneLeading, LeaderLeads, VacantLeadIsTaken
<1>1. ASSUME NEW t \in Threads, Lock(t)
      PROVE  PoolInv'
  BY <1>1 DEF Lock
<1>2. ASSUME NEW t \in Threads, WhileRunning(t)
      PROVE  PoolInv'
  BY <1>2 DEF WhileRunning, TryLead, TakeLead, Leave
<1>3. ASSUME NEW t \in Threads, WaitPredicate(t)
      PROVE  PoolInv'
  <2>1. CASE signalReady \/ signalShutdown
    <3>1. /\ signalReady' = FALSE
          /\ pc[t] = "pred"
          /\ pc' = [pc EXCEPT ![t] = "check"]
          /\ UNCHANGED <<mutex, leader, signalShutdown, isRunning, control>>
      BY <1>3, <2>1 DEF WaitPredicate
    <3>2. QED
      BY <3>1
  <2>2. CASE ~(signalReady \/ signalShutdown)
    BY <1>3, <2>2 DEF WaitPredicate
  <2>3. QED
    BY <2>1, <2>2
<1>4. ASSUME NEW t \in Threads, CheckRunning(t)
      PROVE  PoolInv'
  BY <1>4 DEF CheckRunning, TryLead, TakeLead, Leave
<1>5. ASSUME NEW t \in Threads, SpuriousWake(t)
      PROVE  PoolInv'
  BY <1>5 DEF SpuriousWake
<1>6. ASSUME NEW t \in Threads, PromoteNewLeader(t)
      PROVE  PoolInv'
  BY <1>6 DEF PromoteNewLeader, MoveAndNotifyOne
<1>7. ASSUME NEW t \in Threads, JoinReturns(t)
      PROVE  PoolInv'
  BY <1>7 DEF JoinReturns
<1>8. CASE Start
  BY <1>8 DEF Start
<1>9. ASSUME NEW t \in Threads, Spawn(t)
      PROVE  PoolInv'
  BY <1>9 DEF Spawn
<1>10. CASE Stop
  BY <1>10 DEF Stop
<1>11. CASE Shutdown
  BY <1>11 DEF Shutdown
<1>12. CASE ShutdownReturns
  BY <1>12 DEF ShutdownReturns
<1>13. CASE UNCHANGED poolVars
  BY <1>13 DEF poolVars
<1>14. QED
  BY <1>1, <1>2, <1>3, <1>4, <1>5, <1>6, <1>7, <1>8, <1>9, <1>10, <1>11,
     <1>12, <1>13 DEF PoolNext, Thread, Control

\* The invariant of the pool holds in every reachable state, whatever the number
\* of threads and whether or not the join function promotes.
THEOREM PoolInvariant == PoolSpec => []PoolInv
  BY InitPoolInv, NextPoolInv, PTL DEF PoolSpec

\* At most one pool thread is in the part of the join function before
\* promote_new_leader(): two reactor threads never select at the same time.
THEOREM OneLeadingThread == PoolSpec => []AtMostOneLeading
<1>1. PoolInv => AtMostOneLeading
  BY DEF PoolInv
<1>2. QED
  BY <1>1, PoolInvariant, PTL

\* The hand-over in promote_new_leader() and execute() loses no wake-up: as long
\* as the pool runs, a vacant lead has a thread on its way to it.
THEOREM NoLostWakeup == PoolSpec => []VacantLeadIsTaken
<1>1. PoolInv => VacantLeadIsTaken
  BY DEF PoolInv
<1>2. QED
  BY <1>1, PoolInvariant, PTL

\* With a join function that always promotes, leader_ always names a thread that
\* is leading.
THEOREM LeaderIsLeading == PoolSpec => []LeaderLeads
<1>1. PoolInv => LeaderLeads
  BY DEF PoolInv
<1>2. QED
  BY <1>1, PoolInvariant, PTL

=============================================================================
