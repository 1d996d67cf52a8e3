# matador: TLA+ models, checks and proofs

matador is a C++ library with three layers: an object store with transactions
that an object-relational mapper writes to SQL databases, a network reactor
driven by a leader/follower thread pool, and an HTTP server on top of the
reactor. This directory models the parts of it where the order of steps decides
whether the result is right: the two thread pools, the reactor, the prototype
tree, the transactions, the session that writes to the database, and the byte
buffer the transactions restore from.

## 1. Inventory

| component | state | operations | what is hard about it |
|---|---|---|---|
| leader/follower pool (`net/leader_follower_thread_pool`) | `leader_`, two signal flags, `is_running_` | `start`, `stop`, `shutdown`, `promote_new_leader`, `execute` | `stop()` writes without the mutex; a promotion while no follower waits |
| reactor (`net/reactor`) | handlers with their event masks, `handlers_to_delete_`, `running_`, `shutdown_requested_` | register, unregister, schedule, cancel, `run`, `handle_events`, `shutdown` | the leader sleeps in a `select()` prepared from older state; masks change while callbacks run in other threads |
| handlers (`net/stream_handler`, `net/handler`, `net/socket_interrupter`) | stream open, ready to read or write, next timeout, the interrupter's byte | `on_input`, `on_output`, `on_timeout`, `on_close`, `read`, `write` | callbacks re-arm and close the handler that is being dispatched |
| task pool (`utils/thread_pool`) | queue, `busy_`, `running`, threads | `schedule`, `wait`, `add_task`, `shutdown`, `execute` | `busy_` drops without the mutex |
| prototype tree (`object/prototype_node`, `object/object_store`) | nodes in depth-first order, one object list, three markers per node | attach, detach, insert, remove, clear | nodes share markers' positions; one change has to move the markers of many nodes |
| transactions (`object/transaction` and the actions) | stack of undo logs: actions, index map, buffer | begin, commit, rollback, insert, modify, remove | three structures that must stay in step; nested logs |
| session (`orm/session`, `orm/persistence`, `orm/table.hpp`) | change queue, recorded primary keys, the database | `flush`, `load`, commit through the observer | coalescing of queued changes; a statement that fails half way |
| byte buffer (`utils/byte_buffer`) | list of chunks with cursors | append, release, size, clear | chunk boundaries |
| acceptor, connector, io_service | listening and connecting handlers | accept, connect with retries | not modelled yet |
| cascading insert and delete (`object_inserter`, `object_deleter`) | reference counts over object graphs | insert, is_deletable, remove | not modelled yet |
| HTTP parser, server, client | parser state, connections | parse in chunks, dispatch | not modelled yet |
| logger | sinks, rotation | rotate | not modelled yet |
| SQL layer, JSON, routing, templates, dates, hashes, test framework | data | conversions | no state that interleaves |

`PROJECT.json` lists every component with its sources and status, and every
hazard at its line.

## 2. Modules

    LeaderFollowerPool  <- Reactor         EXTENDS: the reactor runs in the pool
    LeaderFollowerPool  <- LeaderFollowerPoolProofs
    ThreadPool
    PrototypeTree
    Transaction         <- Session         EXTENDS: the session observes the store
    ByteBuffer          -> ByteQueue       refinement: INSTANCE ... WITH

Each component has an `MC` module that TLC starts from; the `.cfg` files give the
constants. A definition marked "Mutant" is a plausible mistake in the definition
after it, kept to show that the properties notice it.

**LeaderFollowerPool.** `pc[t]` is the place of a thread in `execute()`, `mutex`
the thread that holds `mutex_` between two steps, `control` the thread that calls
`start()`, `stop()` and `shutdown()`. The mutex is explicit because `stop()`
writes `is_running_` without it, so two reads in one pass of `execute()` may
differ. The join function is abstract: it may call `promote_new_leader()`, and
with `AlwaysPromotes` it always does. It is the user's code and gets no fairness: it
may run for ever, before or after the promotion. `ShutdownCompletes` therefore has
the hypothesis `JoinsEnd`; `NewLeaderEmerges` does without it, so a follower has to
take the lead while the promoting thread is still at work.

**Reactor.** Refines the join function into the steps of `handle_events()`
(`step[t]`, locals in `loc[t]`). The reactor's mutex is held for the length of one
action, except by `run()`, which holds it from the test of its predicate to its
sleep. `select()` returns any non-empty part of what it watches, or because of the
interrupter or a timeout. Time is `none`, `pending` or `due` per handler. Bytes are
left out. `register_handler()` for a handler that is already in the list
(`RegisterAgainOpens`, `RegisterAgain`) calls `open()` without the lock and then adds
to its mask whatever a callback has taken out; `schedule_timer()` likewise may come a
second time, and `cancel_timer()` may be called by a callback or by any other thread.
`remove_deleted()` takes no lock, so its test and its body are two actions; popping
the empty list is undefined, in the model the process is gone (`crashed`). The select
of descriptor 0 for a closed stream is kept (`zero`). `missed`, which only properties
read, records that `shutdown_` was notified between the test and the sleep of `run()`.

**ThreadPool.** Workers and clients with their places; `wait()` takes two steps
because it is the only one that races a writer without the mutex. Any client may call
any operation at any time, also `add_task()` and `schedule()` after a `shutdown()`:
the code tests `running` in neither. `add_task()` takes two steps, the start of the
thread and its entry into `threads_`; `shutdown()` takes three, the locked block, the
start of its walk over `threads_`, and its end. When `add_task()` extends the vector
during the walk, it may reallocate it, and the process may be gone (`crashed`).

**PrototypeTree.** The object list is a sequence of proxies and markers; a node
has `op_first`, `op_marker`, `op_last` as in the code, and `adjust_left_marker`
and `adjust_right_marker` are operators over all nodes.

**Transaction.** `val` is the store, `stack` the transactions, each with its
vector of actions, its map from ids to indices, its buffer, and two fields that only
properties read: `saved`, the store at `begin()`, and `shifted`, whether an action was
erased in front of others. A rollback takes one step per action.
Deleted proxies are in `freed`. The client uses the current transaction.

**Session.** Adds the database (`rows`, `open`), `proxy_change_queue_`, the keys of
`proxy_identifier_map_`, the proxies a failed commit has marked, and `committing_` of
the transaction handle. The client is one thread, so `flush()` and `commit()` are one
action each, with a second action for the failing call that chooses how many
statements were executed before the exception. The database is assumed to behave as
SQLite does: `BEGIN` in an open transaction is an error, and is the only reason for
`BEGIN` to fail. Outside of a transaction `save()` is an insert or `mark_modified()`
followed by `flush()`, which are actions of their own; inside of one, `save()` of an
existing object only calls `on_update()` and records no primary key
(`SaveInTransaction`). Objects are written through `object_ptr::modify()` only, so the
content `save()` backs up is the one before the change. `load()` loads every row and
is called before any of its rows is known.

**ByteBuffer, ByteQueue.** One action per iteration of the loops of `append` and
`release`; `ByteQueue` is the queue of bytes it promises to be.

## 3. Runs

State counts are distinct states.

| run | instance | shows | states |
|---|---|---|---|
| `lf_pool` | 3 threads | one leader (`AtMostOneLeading`), `leader_` names a leading thread, a hand-over reaches a follower while the promoter works on (`VacantLeadIsTaken`, `NewLeaderEmerges`), shutdown joins all (`ShutdownCompletes`); `PoolInv` is the invariant that is proved | 1,634 |
| `reactor_dispatch` | 2 threads, 1 stream, re-arming, closing, registered twice, signals, shutdown; thread symmetry | no stream is handed to two threads for one direction until it is registered again (`ExclusiveDispatch`), no direction disappears from a mask (`MaskRestored`) | 3,070,339 |
| `reactor_watch` | 2 threads, 1 one-shot timer that may be cancelled and scheduled again, 1 stream registered late | the lead is handed on (`LeaderIsLive`), the late stream is watched (`ReadIsWatched`), the timer fires (`TimerFires`) | 193,612 |
| `reactor_quiet` | 2 threads, 1 stream, 1 one-shot timer, shutdown | an accepted `shutdown()` ends `run()` and the destructor, with three named exceptions (`RunTerminates`) | 165,794 |
| `thread_pool` | 2 + 1 workers, 2 clients, 2 tasks | `busy_` is exact, tasks are neither lost nor run twice, `wait()` returns only when nothing is left, tasks run, shutdown ends, every thread leaves, also one started after the shutdown (`ThreadsLeave`) | 24,646 |
| `prototype_tree` | 3 nodes, depth 1, 3 objects | every node's markers delimit exactly its own objects and those of its subtree, counts match | 32,231 |
| `transaction` | 3 objects, 2 values, depth 2 | rollback restores the store; map, vector and buffer stay in step; no log refers to a deleted proxy; no exception | 1,251,626 |
| `transaction_remove` | as above, depth 1, may remove what it inserted | as long as no action was erased in front of others the log restores the store (`UnshiftedLogRestores`); buffer and proxies stay sound even with the stale indices of section 4 | 23,669 |
| `session` | 3 objects, 1 stored row, `save()` in transactions, statements may fail | the queue is exactly the difference between store and database (`QueueIsDifference`), updates that `modify()` asked for find their key (`UpdatesAreIdentified`), a failed commit leaves nothing open after the rollback of its handle (`FailedCommitIsClosed`) | 878,180 |
| `byte_buffer` | chunks of 2, up to 5 bytes | refines `ByteQueue`, `size()` is exact | 105,896 |
| `thread_pool_wait` | 2 workers, 1 client | violation: `wait()` may sleep for ever | |
| `transaction_stale` | depth 1, may remove what it inserted | violation: rollback does not restore the store | |

**Bounds.** Two reactor threads (the code uses four) are enough for a leader and a
working thread to overlap, which is all the races between dispatch, promotion and
activation need. `MaxMarked` bounds `handlers_to_delete_` at two, so that two
threads can meet in it. A handler is registered or scheduled a second time at most
once (`Again`), which is enough to put a bit back under a callback. Three workers and
two tasks let a notification reach a worker that finds the queue empty. Three objects
of two prototypes give an insert action with two objects, a second insert action, and
actions behind it. Two transactions give one inner and one outer log. Chunks of two
bytes and five bytes cover full, drained and partly read chunks. `fired` stops
counting at two. `reactor_watch` has no shutdown (`Shuts = FALSE`): its three
properties say nothing once shutdown is requested.

**Deadlock** is not checked where the system may stop: after the pools are shut
down, when a client has nothing left to do, and in `session` also when a failed
`flush()` has left a deleted proxy in the queue.

**What the passing runs leave out, on purpose.** For nearly all of these TLC refutes
one of the properties, and the first column of section 4 names it; nested transactions
of a session are not tried, and `load(name)` is not modelled.
`ExclusiveDispatch` says nothing of a stream after its second registration.
`reactor_watch` has streams that do not read again and no late or periodic timer, and
`TimerFires` says nothing of a timer after its second schedule; none of its
properties notices a timer that fires twice. `reactor_quiet` has no signals, and
`RunTerminates` excepts a notification that `run()` misses, a leader that spins in
`select()` on a descriptor `cleanup()` has closed, and the race in `remove_deleted()`.
`prototype_tree` has no grandchildren. `transaction` does not commit inner
transactions and does not remove what it inserted. `session` does not mix queued
changes with transactions, loads with an empty queue, rolls back through the handle it
committed with, and does not remove what a transaction inserted;
`UpdatesAreIdentified` says nothing of update actions that only `save()` made. The
properties are shown for clients within these limits and not beyond them.

**Fairness.** A thread that can run does run. Steps that take a mutex get strong
fairness: the scheduler does not pass a thread over for ever. In the reactor all steps
of a pool thread do, since `run()` may take the mutex again and again. `select()`
returns when the interrupter has a byte or a watched timer has expired
(`SelectHasToReturn`); that a socket ever becomes ready is not assumed. Tasks and the
reactor's callbacks return; pending timeouts become due. Nothing is assumed about
peers, signals, spurious wake-ups, or that anyone ever calls `shutdown()`. The join
function of the bare pool gets no fairness.

## 4. Statements the code does not keep

`WaitTerminates` and the first `RollbackRestores` have a run and a finding in `PROJECT.json`. TLC refutes the others
with the constants given here; start from the named configuration, replace the
values, and check the one property. No configuration is kept for them.

| property, constants | what happens | what the repository says |
|---|---|---|
| `WaitTerminates`, run `thread_pool_wait` | `busy_` drops and `notify_one()` is sent between the test and the sleep of `wait()` (thread_pool.cpp:80) | thread_pool.hpp:69 "Waits until all threads are finished." |
| `ShutdownQuiesces`; ThreadPool.cfg | a thread that `add_task()` starts during or after the walk of `shutdown()` is not joined and still runs when `shutdown()` returns (thread_pool.cpp:28); its `std::thread` stays joinable, so that its destruction ends the process | thread_pool.hpp "Shuts the thread pool down." |
| `RollbackRestores`, run `transaction_stale` | erasing an empty insert action shifts the actions behind it, the index map keeps the old indices (action_remover.cpp:41); a later remove looks past the end | transaction.hpp:161 "Rollback transaction and revert all changes" |
| `RollbackRestores`, `LogHoldsLiveProxies`; Transaction.cfg, `NestedCommits = TRUE` | an inner commit drops its log, so the outer rollback cannot undo it, and deletes proxies the outer log holds | transaction.hpp:39 "Transaction can be nested as well." |
| `ExclusiveDispatchAlways`; ReactorDispatch.cfg | a second `register_handler()` puts a direction back while its callback runs (reactor.cpp:39), and the next leader dispatches it to a second thread | reactor.hpp:40 "The type can be changed while the reactor is running." |
| `ReadIsWatched`; ReactorWatch.cfg with `Rearms = TRUE`, no timers (`Again`, `Cancels` empty), `Late = {}` | `activate_handler()` does not wake the leader (reactor.cpp:385) | io_stream.hpp:28-30 |
| `TimerFires`; ReactorWatch.cfg with no streams, `Again = {}`, `Cancels = {}`, and `Late = {h1}` or `Periodic = {h1}` | neither `schedule_timer()` nor `activate_handler()` wakes the leader, which sleeps without a timeout; the same happens to a timer scheduled again, of which `TimerFires` does not speak | reactor.hpp:78, reactor.hpp:46 |
| `OneShotFiresOnce`; ReactorQuiet.cfg, ReactorSpec | a due timer is resolved without looking at its mask (reactor.cpp:304) | reactor.hpp:81-82 |
| `StopsAfterShutdown`; ReactorQuiet.cfg without the timer | `shutdown_requested_` is read twice (reactor.cpp:358 and 150) | test/net/ReactorTest.cpp:123 |
| `RunAlwaysTerminates`; ReactorQuiet.cfg, also without the timer | the two reads of `shutdown_requested_` (reactor.cpp:358 and 150) differ: the leader notifies `run()` between its test and its sleep and returns unpromoted, so `run()` sleeps for ever; or `cleanup()` closes a descriptor between `prepare_select_bits()` and `::select()`, and the leader repeats the failing `select()` (reactor.cpp:134) while the destructor joins it. With timers only (`Streams = {}`) it holds | reactor.hpp:112-113 "Shutdown the dispatching process of the reactor." |
| `RunTerminates`; ReactorQuiet.cfg without the timer, `Signals = TRUE` | after EINTR nobody is promoted (reactor.cpp:141) | reactor.hpp:112-113 |
| `RunningOnceRunWasCalled`; ReactorQuiet.cfg with no streams, ReactorSpec | `running_` is set by the first leader, not by `run()`; an earlier `shutdown()` is lost | reactor.hpp:118 |
| `SubtreeObjects`; four nodes, two objects, `MaxDepth = 2` | `adjust_left_marker` decides by depth alone which nodes to adjust (prototype_node.cpp:412) | prototype_node.hpp:40-44 |
| `MappedObjectsLive`; PrototypeTree.cfg | `detach()` leaves the ids of deleted objects in `object_map_` | object_store.hpp:314-315 |
| `ClearStaysInSubtree`; three nodes, one object, ClearSpec | `clear(type)` walks on from a removed node, beyond the subtree (object_store.cpp:141) | object_store.hpp:461-462 |
| `StoreHoldsLiveProxies`; Session.cfg | a commit fails after a delete action was executed; rollback puts the proxy back and its action then deletes it | transaction.hpp:31 "If one action fails all finished action we be rolled back." |
| `QueueHoldsLiveProxies`; Session.cfg, or `Fails = FALSE`, `Mixes = TRUE` | a `flush()` that fails after a REMOVE keeps the deleted proxy queued; so does a transaction that removes a queued object | session.hpp:160 "Flushes all stored changes to the database" |
| `UpdatesAreIdentified`; Session.cfg with `Fails = FALSE`, `Mixes = TRUE` | `flush()` inside a transaction clears the recorded keys, the commit then throws (table.hpp:158-161) | session.hpp:160 |
| `EveryUpdateIsIdentified`; Session.cfg | `save()` in a transaction calls `on_update()` and records no key (session.hpp:151); the commit then throws (table.hpp:158-161) | session.hpp:141 "Save an object on database." |
| `FailedCommitIsClosed`; Session.cfg with `Copies = TRUE` | `committing_` is not copied with the handle (transaction.hpp:231), a rollback through a copy skips `on_rollback()` and leaves the database transaction open | transaction.hpp:161 "Rollback transaction and revert all changes" |
| `QueueIsDifference`; Session.cfg with `RemovesInserted = TRUE` | the stale indices of `transaction_stale`, seen from the database | transaction.hpp:161 |
| `ReleasesFromEnd`; ByteBuffer.cfg | bytes are released from the front | byte_buffer.hpp:19-20 "appended and released from the end of the buffer" |

## 5. Proofs

`LeaderFollowerPoolProofs` proves, for every non-empty set of threads and for join
functions that promote or do not (`PoolAssumption`: `Threads # {}`,
`NoThread \notin Threads`, `AlwaysPromotes \in BOOLEAN`):

- `PoolInvariant`: `PoolSpec => []PoolInv`;
- `OneLeadingThread`: at most one thread is in the leading part of the join function;
- `LeaderIsLeading`: `leader_` names a thread that leads, if joins always promote;
- `NoLostWakeup`: while the pool runs without a leader and a follower is in its wait,
  some thread takes the lead without needing a further notification, and without the
  thread that gave up the lead.

`PoolInv` strengthens the properties with three facts. A leading thread is the one
`leader_` names: without it nothing prevents a second `TakeLead`. A thread is in its
critical section exactly when it holds `mutex_`: so `leader_` cannot change between
the test and the assignment. Threads exist from `start()` on, and a joining
controller has cleared `is_running_`: the base case of the wake-up argument. The
proof has one step per action (`NextPoolInv`); TLC checks `PoolInv` in `lf_pool`.

Only model-checked: all liveness (fairness and `ENABLED` are beyond the prover), the
refinement of `ByteQueue`, and everything about the other components. No module
uses `RECURSIVE`, so that proofs can be added to each of them.

## 6. Plan

Done: the modules above. Next, in this order:

1. `ObjectDeleter`: reference counts and the cascading insert and delete over
   object graphs, extending the store; hazard: a refused or throwing
   `is_deletable()` that leaves its work list behind.
2. Primary keys in `Session`: `proxy_identifier_map_` with its values, the
   sequencer, `load(name)`.
3. Acceptor and connector as handlers of `Reactor`.
4. The HTTP request parser, fed in chunks, against the same input in one piece.
5. The rotation of `rotating_file_sink`.

Runs are replaced, not added, when a composed model answers the same question.
Theorems, in this order: `BusyCount`, `NoTaskLost` and type correctness of
`ThreadPool`; `ExclusiveDispatch` and `MaskRestored` of `Reactor` on top of
`PoolInv`; `SizeIsExact` and the refinement steps of `ByteBuffer`;
`FailedCommitIsClosed` and `UpdatesAreIdentified` of `Session`.

## 7. Not modelled

Byte contents of streams and partial sends; `FD_SETSIZE`; the values of primary
keys; relations between objects; the SQL text and the differences between database
backends (MySQL commits implicitly at a nested `START TRANSACTION`, SQLite fails);
reuse of a freed proxy's address by the allocator; string, JSON, date and hash
functions, which are conversions of data without interleavings; the unit test
framework.
