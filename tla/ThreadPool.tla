----------------------------- MODULE ThreadPool -----------------------------
(***************************************************************************)
(* The task pool of the utilities:                                         *)
(*   src/src/utils/thread_pool.cpp                                         *)
(*   src/include/matador/utils/thread_pool.hpp                             *)
(*                                                                         *)
(* Workers run execute(); any client may call schedule(), wait(),          *)
(* add_task() and shutdown() at any time, also after a shutdown().  Every  *)
(* notification of condition_task_ is sent with mutex_ held.  execute()    *)
(* counts busy_ down and notifies condition_finished_ without it, so       *)
(* wait(), which holds mutex_ from its test to its sleep, takes two steps. *)
(* shutdown() walks threads_ without mutex_ while add_task() may extend    *)
(* it: when push_back() reallocates, the walk goes on in freed memory      *)
(* (crashed).                                                              *)
(***************************************************************************)
EXTENDS Naturals, FiniteSets, Sequences, SequencesExt

CONSTANTS
  Workers,      \* all threads the pool may ever have
  Initial,      \* the threads the constructor starts
  Clients,      \* the threads that use the pool
  Tasks,        \* bound: each is scheduled at most once
  Shuts,        \* TRUE: clients may call shutdown()
  NoTask

ASSUME ThreadPoolAssumption ==
  /\ IsFiniteSet(Workers)
  /\ Initial \subseteq Workers
  /\ NoTask \notin Tasks
  /\ Shuts \in BOOLEAN

VARIABLES
  tasks,        \* tasks_
  busy,         \* busy_
  running,      \* running
  worker,       \* where each thread is in execute()
  func,         \* the task the thread took
  client,       \* where each client is
  threads,      \* threads_
  joins,        \* the range of threads_ that the for_each of shutdown() walks
  crashed,      \* that range was reallocated during the walk
  scheduled,    \* the tasks given to schedule() so far
  finished      \* the tasks whose function returned

vars == <<tasks, busy, running, worker, func, client, threads, joins, crashed,
          scheduled, finished>>
shutdownVars == <<running, threads, joins, crashed>>

(***************************************************************************)
(* Workers: "none" no thread yet, "ready" about to lock mutex_ and to test *)
(* the predicate, "waiting" for condition_task_, "func" in the task,       *)
(* "dec" and "notify" in the two lines after it, "exit".                   *)
(* Clients: "idle", "wait" about to lock mutex_ in wait(), "test" holds    *)
(* mutex_ and found work, "asleep" in condition_finished_, "adding" between*)
(* the two lines of add_task(), "joining" in shutdown() after its locked   *)
(* block, "walking" in its for_each over threads_.                         *)
(***************************************************************************)
TypeOK ==
  /\ tasks \in Seq(Tasks)
  /\ busy \in Nat
  /\ running \in BOOLEAN
  /\ worker \in [Workers -> {"none", "ready", "waiting", "func", "dec", "notify", "exit"}]
  /\ func \in [Workers -> Tasks \cup {NoTask}]
  /\ client \in [Clients -> {"idle", "wait", "test", "asleep", "adding", "joining", "walking"}]
  /\ threads \subseteq Workers
  /\ joins \subseteq Workers
  /\ crashed \in BOOLEAN
  /\ scheduled \subseteq Tasks
  /\ finished \subseteq Tasks

Init ==
  /\ tasks = <<>>
  /\ busy = 0
  /\ running = TRUE
  /\ worker = [w \in Workers |-> IF w \in Initial THEN "ready" ELSE "none"]
  /\ func = [w \in Workers |-> NoTask]
  /\ client = [c \in Clients |-> "idle"]
  /\ threads = Initial
  /\ joins = {}
  /\ crashed = FALSE
  /\ scheduled = {}
  /\ finished = {}

MutexFree == \A c \in Clients : client[c] # "test"

-----------------------------------------------------------------------------
(* execute()                                                               *)

\* Mutant: counts itself busy only when it starts the function.
TakeTaskUncounted(w) ==
  /\ tasks # <<>>
  /\ func' = [func EXCEPT ![w] = Head(tasks)]
  /\ tasks' = Tail(tasks)
  /\ worker' = [worker EXCEPT ![w] = "func"]
  /\ UNCHANGED busy

\* Mutant: reads the front of the queue without popping it.
TakeTaskFront(w) ==
  /\ tasks # <<>>
  /\ busy' = busy + 1
  /\ func' = [func EXCEPT ![w] = Head(tasks)]
  /\ worker' = [worker EXCEPT ![w] = "func"]
  /\ UNCHANGED tasks

TakeTask(w) ==
  /\ tasks # <<>>
  /\ busy' = busy + 1
  /\ func' = [func EXCEPT ![w] = Head(tasks)]
  /\ tasks' = Tail(tasks)
  /\ worker' = [worker EXCEPT ![w] = "func"]

\* Mutant: the predicate of the wait looks at the queue only.
ExecuteWaitsForTask(w) ==
  /\ worker[w] = "ready"
  /\ MutexFree
  /\ \/ /\ ~running /\ tasks # <<>>
        /\ worker' = [worker EXCEPT ![w] = "exit"]
        /\ UNCHANGED <<tasks, busy, func>>
     \/ running /\ TakeTask(w)
     \/ /\ tasks = <<>>
        /\ worker' = [worker EXCEPT ![w] = "waiting"]
        /\ UNCHANGED <<tasks, busy, func>>
  /\ UNCHANGED <<shutdownVars, client, scheduled, finished>>

\* Lock, wait for work or shutdown, then leave or take the first task.
Execute(w) ==
  /\ worker[w] = "ready"
  /\ MutexFree
  /\ \/ /\ ~running
        /\ worker' = [worker EXCEPT ![w] = "exit"]
        /\ UNCHANGED <<tasks, busy, func>>
     \/ running /\ TakeTask(w)
     \/ /\ running /\ tasks = <<>>
        /\ worker' = [worker EXCEPT ![w] = "waiting"]
        /\ UNCHANGED <<tasks, busy, func>>
  /\ UNCHANGED <<shutdownVars, client, scheduled, finished>>

FuncReturns(w) ==
  /\ worker[w] = "func"
  /\ worker' = [worker EXCEPT ![w] = "dec"]
  /\ finished' = finished \cup {func[w]}
  /\ UNCHANGED <<shutdownVars, tasks, busy, func, client, scheduled>>

\* --busy_, without mutex_
DecrementBusy(w) ==
  /\ worker[w] = "dec"
  /\ busy' = busy - 1
  /\ worker' = [worker EXCEPT ![w] = "notify"]
  /\ func' = [func EXCEPT ![w] = NoTask]
  /\ UNCHANGED <<shutdownVars, tasks, client, scheduled, finished>>

\* condition_finished_.notify_one(), without mutex_
NotifyFinished(w) ==
  /\ worker[w] = "notify"
  /\ worker' = [worker EXCEPT ![w] = "ready"]
  /\ IF \E c \in Clients : client[c] = "asleep"
     THEN \E c \in Clients : client[c] = "asleep" /\ client' = [client EXCEPT ![c] = "wait"]
     ELSE UNCHANGED client
  /\ UNCHANGED <<shutdownVars, tasks, busy, func, scheduled, finished>>

SpuriousWorker(w) ==
  /\ worker[w] = "waiting"
  /\ worker' = [worker EXCEPT ![w] = "ready"]
  /\ UNCHANGED <<shutdownVars, tasks, busy, func, client, scheduled, finished>>

-----------------------------------------------------------------------------
(* The clients.                                                            *)

\* Mutant: nobody is notified of the new task.
NotifyNobody == UNCHANGED worker

\* condition_task_.notify_one()
NotifyTask ==
  IF \E w \in Workers : worker[w] = "waiting"
  THEN \E w \in Workers : worker[w] = "waiting" /\ worker' = [worker EXCEPT ![w] = "ready"]
  ELSE UNCHANGED worker

Schedule(c, task) ==
  /\ client[c] = "idle" /\ task \notin scheduled
  /\ MutexFree
  /\ tasks' = Append(tasks, task)
  /\ scheduled' = scheduled \cup {task}
  /\ NotifyTask
  /\ UNCHANGED <<shutdownVars, busy, func, client, finished>>

CallWait(c) ==
  /\ client[c] = "idle"
  /\ client' = [client EXCEPT ![c] = "wait"]
  /\ UNCHANGED <<shutdownVars, tasks, busy, worker, func, scheduled, finished>>

\* Mutant: wait() looks at the queue only.
HasWorkQueued == tasks # <<>>

HasWork == tasks # <<>> \/ busy > 0

WaitReturns(c) ==
  /\ client[c] = "wait" /\ ~HasWork
  /\ MutexFree
  /\ client' = [client EXCEPT ![c] = "idle"]
  /\ UNCHANGED <<shutdownVars, tasks, busy, worker, func, scheduled, finished>>

WaitFindsWork(c) ==
  /\ client[c] = "wait" /\ HasWork
  /\ MutexFree
  /\ client' = [client EXCEPT ![c] = "test"]
  /\ UNCHANGED <<shutdownVars, tasks, busy, worker, func, scheduled, finished>>

\* Releases mutex_ and sleeps, in one step of the condition variable.
WaitSleeps(c) ==
  /\ client[c] = "test"
  /\ client' = [client EXCEPT ![c] = "asleep"]
  /\ UNCHANGED <<shutdownVars, tasks, busy, worker, func, scheduled, finished>>

SpuriousClient(c) ==
  /\ client[c] = "asleep"
  /\ client' = [client EXCEPT ![c] = "wait"]
  /\ UNCHANGED <<shutdownVars, tasks, busy, worker, func, scheduled, finished>>

\* add_task(): the thread runs before it is entered into threads_.
AddTask(c, w) ==
  /\ client[c] = "idle"
  /\ worker[w] = "none"
  /\ worker' = [worker EXCEPT ![w] = "ready"]
  /\ client' = [client EXCEPT ![c] = "adding"]
  /\ UNCHANGED <<shutdownVars, tasks, busy, func, scheduled, finished>>

\* A push_back() during the walk of shutdown() finds room, or reallocates.
AddTaskEnters(c) ==
  /\ client[c] = "adding"
  /\ MutexFree
  /\ \E w \in Workers : /\ worker[w] # "none" /\ w \notin threads
                       /\ threads' = threads \cup {w}
  /\ crashed' \in {FALSE, \E d \in Clients : client[d] \in {"joining", "walking"}}
  /\ client' = [client EXCEPT ![c] = "idle"]
  /\ UNCHANGED <<tasks, busy, running, worker, func, joins, scheduled, finished>>

\* Mutant: wakes one worker only.
WakeOne == NotifyTask

\* condition_task_.notify_all()
WakeAll == worker' = [w \in Workers |-> IF worker[w] = "waiting" THEN "ready" ELSE worker[w]]

\* The locked block.  A second call finds running false and returns at once.
Shutdown(c) ==
  /\ Shuts
  /\ client[c] = "idle" /\ running
  /\ MutexFree
  /\ running' = FALSE
  /\ WakeAll
  /\ client' = [client EXCEPT ![c] = "joining"]
  /\ UNCHANGED <<tasks, busy, func, threads, joins, crashed, scheduled, finished>>

\* begin() and end() of threads_, without mutex_
ShutdownWalks(c) ==
  /\ client[c] = "joining"
  /\ joins' = threads
  /\ client' = [client EXCEPT ![c] = "walking"]
  /\ UNCHANGED <<tasks, busy, running, worker, func, threads, crashed, scheduled, finished>>

ShutdownReturns(c) ==
  /\ client[c] = "walking"
  /\ \A w \in joins : worker[w] = "exit"
  /\ client' = [client EXCEPT ![c] = "idle"]
  /\ UNCHANGED <<shutdownVars, tasks, busy, worker, func, scheduled, finished>>

Worker(w) == Execute(w) \/ FuncReturns(w) \/ DecrementBusy(w) \/ NotifyFinished(w)

Wait(c) == WaitReturns(c) \/ WaitFindsWork(c) \/ WaitSleeps(c)

Joins(c) == ShutdownWalks(c) \/ ShutdownReturns(c)

Next ==
  /\ ~crashed
  /\ \/ \E w \in Workers : Worker(w) \/ SpuriousWorker(w)
     \/ \E c \in Clients : \/ CallWait(c) \/ Wait(c) \/ SpuriousClient(c)
                          \/ AddTaskEnters(c) \/ Shutdown(c) \/ Joins(c)
     \/ \E c \in Clients, task \in Tasks : Schedule(c, task)
     \/ \E c \in Clients, w \in Workers : AddTask(c, w)

Spec == Init /\ [][Next]_vars

(***************************************************************************)
(* Fairness: threads go on, tasks return, mutex_ is granted (strong        *)
(* fairness), until the program crashes.  Nothing forces a client to call or a waiter to wake up      *)
(* without a notification.                                                 *)
(***************************************************************************)
Fairness ==
  /\ \A w \in Workers : SF_vars(~crashed /\ Worker(w))
  /\ \A c \in Clients : SF_vars(~crashed /\ (Wait(c) \/ AddTaskEnters(c) \/ Joins(c)))

FairSpec == Spec /\ Fairness

-----------------------------------------------------------------------------
(* Properties.                                                             *)

\* busy_ counts exactly the threads between taking a task and counting it down,
\* although it is decremented without mutex_.
BusyCount ==
  busy = Cardinality({w \in Workers : worker[w] \in {"func", "dec"}})

\* A scheduled task is in exactly one place: once in the queue, or with one worker,
\* or finished; no interleaving of execute() and schedule() loses or doubles it.
NoTaskLost ==
  /\ IsInjective(tasks)
  /\ \A task \in Tasks :
       LET queued    == task \in ToSet(tasks)
           executing == {w \in Workers : worker[w] = "func" /\ func[w] = task}
       IN /\ task \in scheduled <=> (queued \/ executing # {} \/ task \in finished)
          /\ Cardinality(executing) <= 1
          /\ queued => executing = {} /\ task \notin finished
          /\ executing # {} => task \notin finished

\* When wait() returns, every task scheduled so far has finished.
WaitMeansDone ==
  [][\A c \in Clients : client[c] = "wait" /\ client'[c] = "idle" => scheduled \subseteq finished]_vars

\* A scheduled task is executed unless the pool is shut down.
TaskRuns ==
  \A task \in Tasks : task \in scheduled ~> (task \in finished \/ ~running)

\* shutdown() wakes all workers, so the joins come to an end, unless add_task()
\* reallocates threads_ under the walk.
ShutdownTerminates ==
  \A c \in Clients : client[c] = "joining" ~> (client[c] = "idle" \/ crashed)

\* After a shutdown() every thread of the pool leaves execute(), also one that an
\* add_task() starts while shutdown() joins or after it returned, and whatever
\* schedule() adds to the queue then.
ThreadsLeave ==
  \A w \in Workers : ~running /\ worker[w] # "none" ~> (worker[w] = "exit" \/ crashed)

\* When the call of shutdown() that stops the pool returns, no thread of the pool
\* is in execute().
ShutdownQuiesces ==
  [][\A c \in Clients : client[c] = "walking" /\ client'[c] = "idle" =>
       \A w \in Workers : worker[w] \in {"none", "exit"}]_vars

\* wait() returns once all tasks are finished.
WaitTerminates ==
  \A c \in Clients : client[c] = "wait" ~> client[c] = "idle"

=============================================================================
