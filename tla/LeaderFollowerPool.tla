------------------------- MODULE LeaderFollowerPool -------------------------
(***************************************************************************)
(* The leader/follower thread pool that drives the reactor:                *)
(*   src/src/net/leader_follower_thread_pool.cpp                           *)
(*   src/include/matador/net/leader_follower_thread_pool.hpp               *)
(*                                                                         *)
(* Each pool thread runs execute().  One thread at a time leads: it holds  *)
(* leader_ and runs the join function given to the constructor.  The join  *)
(* function calls promote_new_leader() when it no longer needs the lead    *)
(* and goes on working.  A controlling thread calls start(), stop() and    *)
(* shutdown().  mutex_ is explicit because stop() writes is_running_       *)
(* without it, so the two reads of is_running_ in one pass of execute()    *)
(* may differ.                                                             *)
(***************************************************************************)
EXTENDS Naturals, FiniteSets

CONSTANTS
  Threads,         \* the threads start() creates
  NoThread,        \* the default std::thread::id: no leader, mutex_ free
  AlwaysPromotes   \* TRUE: every call of the join function promotes before it returns

ASSUME PoolAssumption ==
  /\ Threads # {}
  /\ NoThread \notin Threads
  /\ AlwaysPromotes \in BOOLEAN

VARIABLES
  leader,          \* leader_
  signalReady,     \* signal_ready_
  signalShutdown,  \* signal_shutdown_
  isRunning,       \* is_running_
  mutex,           \* the pool thread that holds mutex_ between two of its steps
  pc,              \* where each pool thread is in execute()
  control          \* where the controlling thread is

poolVars == <<leader, signalReady, signalShutdown, isRunning, mutex, pc, control>>

(***************************************************************************)
(* "off"      not created yet                                              *)
(* "lock"     about to lock mutex_ (on entry, or when join_() returned)    *)
(* "while"    holds mutex_, about to test is_running_ in the outer loop    *)
(* "pred"     holds mutex_, about to evaluate the predicate of the wait    *)
(* "waiting"  blocked in condition_synchronizer_                           *)
(* "woken"    woken, has to lock mutex_ again                              *)
(* "check"    holds mutex_, left the wait, about to test is_running_       *)
(* "lead"     in join_(), has not called promote_new_leader() yet          *)
(* "work"     in join_(), has called promote_new_leader()                  *)
(* "exit"     returned from execute()                                      *)
(***************************************************************************)
ThreadStates == {"off", "lock", "while", "pred", "waiting", "woken", "check",
                 "lead", "work", "exit"}
HoldsMutex == {"while", "pred", "check"}

TypeOK ==
  /\ leader \in Threads \cup {NoThread}
  /\ signalReady \in BOOLEAN
  /\ signalShutdown \in BOOLEAN
  /\ isRunning \in BOOLEAN
  /\ mutex \in Threads \cup {NoThread}
  /\ pc \in [Threads -> ThreadStates]
  /\ control \in {"new", "starting", "started", "joining", "done"}

PoolInit ==
  /\ leader = NoThread
  /\ signalReady = FALSE
  /\ signalShutdown = FALSE
  /\ isRunning = FALSE
  /\ mutex = NoThread
  /\ pc = [t \in Threads |-> "off"]
  /\ control = "new"

-----------------------------------------------------------------------------
(* The pool threads.                                                       *)

Lock(t) ==
  /\ pc[t] \in {"lock", "woken"}
  /\ mutex = NoThread
  /\ mutex' = t
  /\ pc' = [pc EXCEPT ![t] = IF @ = "lock" THEN "while" ELSE "pred"]
  /\ UNCHANGED <<leader, signalReady, signalShutdown, isRunning, control>>

\* Leaves execute() from inside the critical section.
Leave(t) ==
  /\ mutex' = NoThread
  /\ pc' = [pc EXCEPT ![t] = "exit"]
  /\ UNCHANGED leader

\* Mutant: calls the join function without unlocking mutex_.
TakeLeadLocked(t) ==
  /\ leader' = t
  /\ pc' = [pc EXCEPT ![t] = "lead"]
  /\ UNCHANGED mutex

\* leader_ = this thread; unlock; call the join function.
TakeLead(t) ==
  /\ leader' = t
  /\ mutex' = NoThread
  /\ pc' = [pc EXCEPT ![t] = "lead"]

\* Mutant: `if' instead of `while' around the wait.
TryLeadUnchecked(t) == TakeLead(t)

\* The test of the inner loop: leader_ != null_id.
TryLead(t) ==
  \/ /\ leader = NoThread
     /\ TakeLead(t)
  \/ /\ leader # NoThread
     /\ pc' = [pc EXCEPT ![t] = "pred"]
     /\ UNCHANGED <<leader, mutex>>

WhileRunning(t) ==
  /\ pc[t] = "while"
  /\ \/ ~isRunning /\ Leave(t)
     \/ isRunning /\ TryLead(t)
  /\ UNCHANGED <<signalReady, signalShutdown, isRunning, control>>

WaitPredicate(t) ==
  /\ pc[t] = "pred"
  /\ IF signalReady \/ signalShutdown
     THEN /\ signalReady' = FALSE
          /\ pc' = [pc EXCEPT ![t] = "check"]
          /\ UNCHANGED mutex
     ELSE /\ mutex' = NoThread
          /\ pc' = [pc EXCEPT ![t] = "waiting"]
          /\ UNCHANGED signalReady
  /\ UNCHANGED <<leader, signalShutdown, isRunning, control>>

CheckRunning(t) ==
  /\ pc[t] = "check"
  /\ \/ ~isRunning /\ Leave(t)
     \/ isRunning /\ TryLead(t)
  /\ UNCHANGED <<signalReady, signalShutdown, isRunning, control>>

\* A condition variable may wake a waiter that nobody notified.
SpuriousWake(t) ==
  /\ pc[t] = "waiting"
  /\ pc' = [pc EXCEPT ![t] = "woken"]
  /\ UNCHANGED <<leader, signalReady, signalShutdown, isRunning, mutex, control>>

\* Mutant: promote_new_leader() without its notify_one().
MoveSilently(t, s) ==
  pc' = [pc EXCEPT ![t] = s]

\* notify_one: t moves on to state s and one of the waiters, if any, is woken.
MoveAndNotifyOne(t, s) ==
  \/ /\ \A w \in Threads : pc[w] # "waiting"
     /\ pc' = [pc EXCEPT ![t] = s]
  \/ \E w \in Threads :
       /\ pc[w] = "waiting"
       /\ pc' = [pc EXCEPT ![t] = s, ![w] = "woken"]

\* Mutant: leader_ is not reset.
PromoteKeepsLeader(t) ==
  /\ pc[t] = "lead"
  /\ mutex = NoThread
  /\ signalReady' = TRUE
  /\ MoveAndNotifyOne(t, "work")
  /\ UNCHANGED <<leader, signalShutdown, isRunning, mutex, control>>

\* Mutant: signal_ready_ is not set.
PromoteWithoutSignal(t) ==
  /\ pc[t] = "lead"
  /\ mutex = NoThread
  /\ leader' = NoThread
  /\ MoveAndNotifyOne(t, "work")
  /\ UNCHANGED <<signalReady, signalShutdown, isRunning, mutex, control>>

PromoteNewLeader(t) ==
  /\ pc[t] = "lead"
  /\ mutex = NoThread
  /\ IF leader # t
     THEN /\ pc' = [pc EXCEPT ![t] = "work"]
          /\ UNCHANGED <<leader, signalReady>>
     ELSE /\ leader' = NoThread
          /\ signalReady' = TRUE
          /\ MoveAndNotifyOne(t, "work")
  /\ UNCHANGED <<signalShutdown, isRunning, mutex, control>>

\* The join function returns.
JoinReturns(t) ==
  /\ pc[t] \in (IF AlwaysPromotes THEN {"work"} ELSE {"lead", "work"})
  /\ pc' = [pc EXCEPT ![t] = "lock"]
  /\ UNCHANGED <<leader, signalReady, signalShutdown, isRunning, mutex, control>>

Thread(t) ==
  \/ Lock(t) \/ WhileRunning(t) \/ WaitPredicate(t) \/ CheckRunning(t)
  \/ PromoteNewLeader(t) \/ JoinReturns(t)

-----------------------------------------------------------------------------
(* The controlling thread.                                                 *)

Start ==
  /\ control = "new"
  /\ isRunning' = TRUE
  /\ control' = "starting"
  /\ UNCHANGED <<leader, signalReady, signalShutdown, mutex, pc>>

\* One round of the loop in start(); earlier threads already run.
Spawn(t) ==
  /\ control = "starting"
  /\ pc[t] = "off"
  /\ pc' = [pc EXCEPT ![t] = "lock"]
  /\ control' = IF \A u \in Threads \ {t} : pc[u] # "off" THEN "started" ELSE control
  /\ UNCHANGED <<leader, signalReady, signalShutdown, isRunning, mutex>>

Stop ==
  /\ control = "started"
  /\ isRunning' = FALSE
  /\ UNCHANGED <<leader, signalReady, signalShutdown, mutex, pc, control>>

\* Mutant: shutdown() does not notify the followers.
ShutdownSilent ==
  /\ control = "started"
  /\ mutex = NoThread
  /\ isRunning' = FALSE
  /\ signalShutdown' = TRUE
  /\ control' = "joining"
  /\ UNCHANGED <<leader, signalReady, mutex, pc>>

\* The locked block of shutdown().  The call after it joins the threads.
Shutdown ==
  /\ control = "started"
  /\ mutex = NoThread
  /\ isRunning' = FALSE
  /\ signalShutdown' = TRUE
  /\ pc' = [t \in Threads |-> IF pc[t] = "waiting" THEN "woken" ELSE pc[t]]
  /\ control' = "joining"
  /\ UNCHANGED <<leader, signalReady, mutex>>

ShutdownReturns ==
  /\ control = "joining"
  /\ \A t \in Threads : pc[t] = "exit"
  /\ control' = "done"
  /\ UNCHANGED <<leader, signalReady, signalShutdown, isRunning, mutex, pc>>

Control ==
  \/ Start
  \/ \E t \in Threads : Spawn(t)
  \/ Stop
  \/ Shutdown
  \/ ShutdownReturns

PoolNext ==
  \/ \E t \in Threads : Thread(t) \/ SpuriousWake(t)
  \/ Control

PoolSpec == PoolInit /\ [][PoolNext]_poolVars

(***************************************************************************)
(* Fairness: a thread that can take a step takes it.  The lock is taken    *)
(* with strong fairness (the scheduler does not pass a thread over for     *)
(* ever), everything else with weak fairness.  No fairness on spurious     *)
(* wake-ups, on stop(), on the decision to call shutdown(), and none on    *)
(* the join function: it is the user's and may run for ever.  A property   *)
(* that needs the join function to end says so (JoinsEnd).                 *)
(***************************************************************************)
PoolFairness ==
  /\ \A t \in Threads :
       /\ WF_poolVars(WhileRunning(t) \/ WaitPredicate(t) \/ CheckRunning(t))
       /\ SF_poolVars(Lock(t))
       /\ WF_poolVars(Spawn(t))
  /\ WF_poolVars(ShutdownReturns)

FairPoolSpec == PoolSpec /\ PoolFairness

-----------------------------------------------------------------------------
(* Properties.                                                             *)

\* mutex_ protects execute(): a thread is inside its critical section exactly
\* when it holds mutex_, so no two threads are.
MutexProtects ==
  \A t \in Threads : pc[t] \in HoldsMutex <=> mutex = t

\* The join function before its call of promote_new_leader() is exclusive: no
\* two pool threads are in it at once (in the reactor: at most one select()).
AtMostOneLeading ==
  \A t, u \in Threads : pc[t] = "lead" /\ pc[u] = "lead" => t = u

\* Under a join function that always promotes, leader_ never names a thread
\* that is not leading, so no follower waits for a leader that does not exist.
LeaderLeads ==
  AlwaysPromotes /\ leader # NoThread => pc[leader] = "lead"

\* No lost wake-up between promote_new_leader() and execute(): while the pool
\* runs, leader_ is vacant and a follower is in or after its wait, some thread
\* is on a path that takes the lead without a further notification, however
\* long the thread that gave up the lead goes on working.  A woken follower
\* counts only while signal_ready_ lets it through the predicate of the wait.
VacantLeadIsTaken ==
  isRunning /\ leader = NoThread /\ (\E t \in Threads : pc[t] \in {"waiting", "woken", "pred"}) =>
    \/ \E t \in Threads : pc[t] \in {"off", "lock", "while", "check"}
    \/ signalReady /\ \E t \in Threads : pc[t] \in {"woken", "pred"}

\* The inductive invariant: the four properties above, the types, that a leading
\* thread is the one leader_ names, and which threads exist when.
PoolInv ==
  /\ TypeOK
  /\ MutexProtects
  /\ AtMostOneLeading
  /\ LeaderLeads
  /\ VacantLeadIsTaken
  /\ \A t \in Threads : pc[t] = "lead" => leader = t
  /\ control = "new" => \A t \in Threads : pc[t] = "off"
  /\ control \in {"started", "joining", "done"} => \A t \in Threads : pc[t] # "off"
  /\ control \in {"joining", "done"} => ~isRunning

\* The hand-over of promote_new_leader() reaches a follower: once leader_ is
\* vacant in a running pool with a thread asleep or woken, somebody leads or the
\* pool is stopped, even when the promoting thread never comes back from its
\* join function.
NewLeaderEmerges ==
  (isRunning /\ leader = NoThread /\ \E t \in Threads : pc[t] \in {"waiting", "woken"})
    ~> (leader # NoThread \/ ~isRunning)

\* Every call of the join function promotes and returns.
JoinsEnd ==
  \A t \in Threads : WF_poolVars(JoinReturns(t)) /\ SF_poolVars(PromoteNewLeader(t))

\* shutdown() wakes every follower, all threads leave execute() and can be
\* joined, so the call (and the destructor) returns, provided the calls of the
\* join function end.
ShutdownCompletes ==
  JoinsEnd => (control = "joining" ~> control = "done")

=============================================================================
