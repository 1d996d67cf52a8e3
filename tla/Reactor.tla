------------------------------ MODULE Reactor -------------------------------
(***************************************************************************)
(* The reactor and the handlers it dispatches:                             *)
(*   src/src/net/reactor.cpp            run(), handle_events(), shutdown() *)
(*   src/src/net/handler.cpp            the timer of a handler             *)
(*   src/src/net/stream_handler.cpp     on_input(), on_output(), on_close()*)
(*   src/src/net/socket_interrupter.cpp the byte that wakes select()       *)
(*                                                                         *)
(* The module extends the leader/follower pool: the join function of the   *)
(* pool is handle_events(), run() calls the pool's start() and stop(), the *)
(* destructor its shutdown().  step[t] refines the pool's "lead" and       *)
(* "work".  The reactor's mutex_ is held over one step here, except for    *)
(* run(), which holds it between the test of its wait and going to sleep.  *)
(***************************************************************************)
EXTENDS LeaderFollowerPool, Sequences, SequencesExt

CONSTANTS
  Streams,     \* handlers registered for reading and writing
  Timers,      \* handlers given to schedule_timer()
  Periodic,    \* the timers with an interval
  Late,        \* handlers that are registered or scheduled while run() runs
  Again,       \* handlers that are then registered or scheduled once more (bound: once)
  Rearms,      \* callbacks of streams call read() and write()
  Cancels,     \* timers that a callback or another thread cancels
  Closes,      \* peers close, sends and receives fail, users unregister handlers
  Signals,     \* signals arrive: select() may return EINTR
  Shuts,       \* somebody calls shutdown()
  MaxMarked,   \* bound: entries of handlers_to_delete_
  NoHandler

Handlers == Streams \cup Timers

ASSUME ReactorAssumption ==
  /\ Streams \cap Timers = {}
  /\ Periodic \subseteq Timers
  /\ Late \subseteq Handlers
  /\ Again \subseteq Handlers
  /\ Cancels \subseteq Timers
  /\ {Rearms, Closes, Signals, Shuts} \subseteq BOOLEAN
  /\ MaxMarked \in Nat
  /\ NoHandler \notin Handlers
  /\ ~AlwaysPromotes

VARIABLES
  handlers,      \* the handlers in handlers_, in order
  mask,          \* the event mask of each handler in handlers_
  toDelete,      \* handlers_to_delete_
  running,       \* running_
  requested,     \* shutdown_requested_
  byte,          \* the interrupter has something to read
  open,          \* the stream of the handler is open
  readyRead,     \* is_ready_read()
  readyWrite,    \* is_ready_write()
  timer,         \* next_timeout_: "none", still "pending", or "due"
  fired,         \* history: calls of a one-shot on_timeout() since schedule(), up to 2
  step,          \* where each thread is in handle_events()
  loc,           \* the locals of handle_events()
  runPc,         \* where the thread that calls run() is
  user,          \* where the thread that calls shutdown() is
  crashed,       \* pop_front() of an empty list was executed
  again,         \* how far the second registration of a handler has come
  missed         \* history: shutdown_ was notified between run()'s test and its sleep

reactorVars == <<handlers, mask, toDelete, running, requested, byte, open, readyRead,
                 readyWrite, timer, fired, step, loc, runPc, user, crashed, again, missed>>
listVars    == <<handlers, mask, toDelete>>
handlerVars == <<open, readyRead, readyWrite, timer, fired>>
moreVars    == <<crashed, again, missed>>
othersVars  == <<runPc, user, moreVars>>
vars        == <<poolVars, reactorVars>>

Events == {"R", "W", "T"}
NoLocals == [r |-> {}, w |-> {}, t |-> {}, zero |-> FALSE, intr |-> FALSE,
             h |-> NoHandler, ev |-> "T", todo |-> <<>>]

LeadSteps == {"prepare", "select", "blocked", "is_interrupted", "interrupted",
              "resolve", "deactivate", "promote"}
WorkSteps == {"handle", "callback", "close", "mark", "unregister", "activate",
              "remove", "pop"}

ReactorTypeOK ==
  /\ handlers \in Seq(Handlers) /\ IsInjective(handlers)
  /\ mask \in [Handlers -> SUBSET Events]
  /\ \A h \in Handlers \ ToSet(handlers) : mask[h] = {}
  /\ toDelete \in Seq(Handlers)
  /\ {running, requested, byte, crashed, missed} \subseteq BOOLEAN
  /\ {open, readyRead, readyWrite} \subseteq [Handlers -> BOOLEAN]
  /\ timer \in [Handlers -> {"none", "pending", "due"}]
  /\ fired \in [Handlers -> 0..2]
  /\ step \in [Threads -> LeadSteps \cup WorkSteps \cup {"return"}]
  /\ runPc \in {"new", "starting", "check", "test", "asleep", "stop", "returned", "destroying"}
  /\ user \in {"idle", "request", "interrupt"}
  /\ again \in [Handlers -> {"no", "opening", "done"}]

ReactorInit ==
  /\ PoolInit
  /\ handlers = <<>>
  /\ mask = [h \in Handlers |-> {}]
  /\ toDelete = <<>>
  /\ running = FALSE
  /\ requested = FALSE
  /\ byte = FALSE
  /\ open = [h \in Handlers |-> h \in Streams]
  /\ readyRead = [h \in Handlers |-> FALSE]
  /\ readyWrite = [h \in Handlers |-> FALSE]
  /\ timer = [h \in Handlers |-> "none"]
  /\ fired = [h \in Handlers |-> 0]
  /\ step = [t \in Threads |-> "prepare"]
  /\ loc = [t \in Threads |-> NoLocals]
  /\ runPc = "new"
  /\ user = "idle"
  /\ crashed = FALSE
  /\ again = [h \in Handlers |-> "no"]
  /\ missed = FALSE

Registered(h) == h \in ToSet(handlers)
MutexFree == runPc # "test"
InRun == runPc \notin {"new", "returned", "destroying"}

-----------------------------------------------------------------------------
(* The operations other threads and callbacks call.                        *)

\* Mutant: the send of the interrupter is dropped.
InterruptLost == UNCHANGED byte

\* interrupter_.interrupt(): reset() drains the socket, so one byte is as good as many.
Interrupt == byte' = TRUE

Erase(h) ==
  /\ handlers' = Remove(handlers, h)
  /\ mask' = [mask EXCEPT ![h] = {}]

\* The entry of register_handler() for mask et: a new one, or more bits for the old.
Entered(h, et) ==
  /\ handlers' = IF Registered(h) THEN handlers ELSE Append(handlers, h)
  /\ mask' = [mask EXCEPT ![h] = @ \cup et]

\* open() runs the user's init handler, which asks for the first read().
RegisterHandler(h) ==
  /\ MutexFree
  /\ h \in Streams /\ open[h] /\ ~Registered(h)
  /\ IF h \in Late THEN InRun ELSE runPc = "new"
  /\ Entered(h, {"R", "W"})
  /\ readyRead' = [readyRead EXCEPT ![h] = TRUE]
  /\ Interrupt
  /\ UNCHANGED <<poolVars, toDelete, running, requested, open, readyWrite, timer,
                 fired, step, loc, othersVars>>

\* A second register_handler() while run() runs: open() first, without the lock, ...
RegisterAgainOpens(h) ==
  /\ MutexFree
  /\ h \in Streams \cap Again /\ again[h] = "no" /\ open[h] /\ Registered(h) /\ InRun
  /\ readyRead' = [readyRead EXCEPT ![h] = TRUE]
  /\ Interrupt
  /\ again' = [again EXCEPT ![h] = "opening"]
  /\ UNCHANGED <<poolVars, listVars, running, requested, open, readyWrite, timer,
                 fired, step, loc, runPc, user, crashed, missed>>

\* ... then the mask gets back a bit that a callback may be about to put back itself.
RegisterAgain(h) ==
  /\ MutexFree
  /\ again[h] = "opening"
  /\ Entered(h, {"R", "W"})
  /\ Interrupt
  /\ again' = [again EXCEPT ![h] = "done"]
  /\ UNCHANGED <<poolVars, toDelete, running, requested, handlerVars, step, loc, runPc,
                 user, crashed, missed>>

\* Closes and erases the handler, whatever mask is given.
UnregisterHandler(h) ==
  /\ Erase(h)
  /\ open' = [open EXCEPT ![h] = @ /\ ~Registered(h)]
  /\ Interrupt

UserUnregisters(h) ==
  /\ MutexFree
  /\ Closes /\ Registered(h)
  /\ UnregisterHandler(h)
  /\ UNCHANGED <<poolVars, toDelete, running, requested, readyRead, readyWrite, timer,
                 fired, step, loc, othersVars>>

\* schedule_timer(), for the first time or again.  An existing entry keeps its mask, and
\* nobody interrupts the select() of the leader.
ScheduleTimer(h) ==
  /\ MutexFree
  /\ h \in Timers
  /\ \/ /\ ~Registered(h)
        /\ IF h \in Late THEN InRun ELSE runPc = "new"
        /\ UNCHANGED again
     \/ /\ h \in Again /\ again[h] = "no" /\ InRun
        /\ again' = [again EXCEPT ![h] = "done"]
  /\ IF Registered(h) THEN UNCHANGED <<handlers, mask>> ELSE Entered(h, {"T"})
  /\ timer' = [timer EXCEPT ![h] = "pending"]
  /\ fired' = [fired EXCEPT ![h] = 0]
  /\ UNCHANGED <<poolVars, toDelete, running, requested, byte, open, readyRead,
                 readyWrite, step, loc, runPc, user, crashed, missed>>

\* cancel_timer(), by a callback or by another thread.
CancelTimer(h) ==
  /\ MutexFree
  /\ h \in Cancels /\ InRun
  /\ Registered(h) \/ timer[h] # "none"
  /\ Erase(h)
  /\ timer' = [timer EXCEPT ![h] = "none"]
  /\ UNCHANGED <<poolVars, toDelete, running, requested, byte, open, readyRead, readyWrite,
                 fired, step, loc, othersVars>>

\* Time passes next_timeout_.
Tick(h) ==
  /\ timer[h] = "pending"
  /\ timer' = [timer EXCEPT ![h] = "due"]
  /\ UNCHANGED <<poolVars, listVars, running, requested, byte, open, readyRead,
                 readyWrite, fired, step, loc, othersVars>>

\* shutdown(): returns unless is_running(); then two more steps.
UserShutdown ==
  /\ Shuts
  /\ user = "idle" /\ running /\ ~requested
  /\ user' = "request"
  /\ UNCHANGED <<poolVars, listVars, running, requested, byte, handlerVars, step, loc,
                 runPc, moreVars>>

UserRequests ==
  /\ user = "request"
  /\ requested' = TRUE
  /\ user' = "interrupt"
  /\ UNCHANGED <<poolVars, listVars, running, byte, handlerVars, step, loc, runPc, moreVars>>

UserInterrupts ==
  /\ user = "interrupt"
  /\ MutexFree
  /\ Interrupt
  /\ user' = "idle"
  /\ UNCHANGED <<poolVars, listVars, running, requested, handlerVars, step, loc, runPc, moreVars>>

-----------------------------------------------------------------------------
(* handle_events(), while the thread leads.                                *)

Goto(t, s) == step' = [step EXCEPT ![t] = s]
Lead(t, s) == pc[t] = "lead" /\ step[t] = s
Work(t, s) == pc[t] = "work" /\ step[t] = s

\* prepare_select_bits(): a closed stream has handle 0 and selects descriptor 0.
Prepare(t) ==
  /\ Lead(t, "prepare")
  /\ MutexFree
  /\ running' = TRUE
  /\ LET Asks(h) == (readyRead[h] /\ "R" \in mask[h]) \/ (readyWrite[h] /\ "W" \in mask[h])
     IN loc' = [loc EXCEPT ![t] =
          [@ EXCEPT !.r = {h \in Streams : open[h] /\ readyRead[h] /\ "R" \in mask[h]},
                    !.w = {h \in Streams : open[h] /\ readyWrite[h] /\ "W" \in mask[h]},
                    !.t = {h \in Timers : timer[h] # "none" /\ "T" \in mask[h]},
                    !.zero = \E h \in Streams : ~open[h] /\ Asks(h)]]
  /\ Goto(t, "select")
  /\ UNCHANGED <<poolVars, listVars, requested, byte, handlerVars, othersVars>>

Watched(t) == loc[t].r \cup loc[t].w

\* Every descriptor is valid: the thread blocks in ::select().
SelectBlocks(t) ==
  /\ Lead(t, "select")
  /\ \A h \in Watched(t) : open[h]
  /\ Goto(t, "blocked")
  /\ UNCHANGED <<poolVars, listVars, running, requested, byte, handlerVars, loc, othersVars>>

\* A watched descriptor was closed since: EBADF, shutdown(), and the loop calls
\* select() again with the same sets.
SelectFails(t) ==
  /\ Lead(t, "select")
  /\ MutexFree
  /\ \E h \in Watched(t) : ~open[h]
  /\ IF running
     THEN requested' = TRUE /\ Interrupt
     ELSE UNCHANGED <<requested, byte>>
  /\ UNCHANGED <<poolVars, listVars, running, handlerVars, step, loc, othersVars>>

\* EINTR: returns without promoting a new leader.
SelectInterruptedBySignal(t) ==
  /\ Signals
  /\ Lead(t, "blocked")
  /\ Goto(t, "return")
  /\ UNCHANGED <<poolVars, listVars, running, requested, byte, handlerVars, loc, othersVars>>

\* Descriptors are ready, or the timeout taken from the watched timers has passed: one of
\* them is due or cancelled, or was given another time after select() was called.
SelectReturns(t) ==
  /\ Lead(t, "blocked")
  /\ \E r \in SUBSET loc[t].r, w \in SUBSET loc[t].w :
       /\ \/ r \cup w # {}
          \/ byte
          \/ loc[t].zero
          \/ \E h \in loc[t].t : timer[h] # "pending" \/ again[h] = "done"
       /\ loc' = [loc EXCEPT ![t] = [@ EXCEPT !.r = r, !.w = w, !.intr = byte]]
  /\ Goto(t, "is_interrupted")
  /\ UNCHANGED <<poolVars, listVars, running, requested, byte, handlerVars, othersVars>>

\* is_interrupted(), with the reset() of the interrupter.
IsInterrupted(t) ==
  /\ Lead(t, "is_interrupted")
  /\ MutexFree
  /\ IF loc[t].intr
     THEN /\ running' = (running /\ ~requested)
          /\ byte' = FALSE
          /\ Goto(t, "interrupted")
     ELSE /\ Goto(t, "resolve")
          /\ UNCHANGED <<running, byte>>
  /\ UNCHANGED <<poolVars, listVars, requested, handlerVars, loc, othersVars>>

\* Mutant: the thread returns without notifying run().
InterruptedSilent(t) ==
  /\ Lead(t, "interrupted")
  /\ Goto(t, IF requested THEN "return" ELSE "promote")
  /\ UNCHANGED <<poolVars, listVars, running, requested, byte, handlerVars, loc, othersVars>>

\* Mutant: returns without promoting after an ordinary interrupt.
InterruptedForgets(t) ==
  /\ Lead(t, "interrupted")
  /\ runPc' = IF runPc = "asleep" /\ requested THEN "check" ELSE runPc
  /\ Goto(t, "return")
  /\ UNCHANGED <<poolVars, listVars, running, requested, byte, handlerVars, loc, user, moreVars>>

\* Reads shutdown_requested_ again.  On shutdown: notify run() without the mutex, return
\* unpromoted.
Interrupted(t) ==
  /\ Lead(t, "interrupted")
  /\ \/ /\ ~requested
        /\ Goto(t, "promote")
        /\ UNCHANGED <<runPc, missed>>
     \/ /\ requested
        /\ runPc' = IF runPc = "asleep" THEN "check" ELSE runPc
        /\ missed' = (missed \/ runPc = "test")
        /\ Goto(t, "return")
  /\ UNCHANGED <<poolVars, listVars, running, requested, byte, handlerVars, loc, user, crashed,
                 again>>

\* The event resolve_next_handler() finds for h.  Its mask is not consulted.
EventOf(t, h) ==
  CASE open[h] /\ h \in loc[t].w -> "W"
    [] open[h] /\ h \in loc[t].r -> "R"
    [] OTHER -> "T"

\* Mutant: due timers are not looked at.
ResolvableNoTimer(t, h) == open[h] /\ h \in loc[t].w \cup loc[t].r

Resolvable(t, h) ==
  (open[h] /\ h \in loc[t].w \cup loc[t].r) \/ timer[h] = "due"

\* resolve_next_handler(): the first handler of the list with an event.
ResolveNextHandler(t) ==
  /\ Lead(t, "resolve")
  /\ MutexFree
  /\ LET found == SelectSeq(handlers, LAMBDA h : Resolvable(t, h))
     IN IF found = <<>>
        THEN Goto(t, "promote") /\ UNCHANGED loc
        ELSE /\ loc' = [loc EXCEPT ![t].h = Head(found), ![t].ev = EventOf(t, Head(found))]
             /\ Goto(t, "deactivate")
  /\ UNCHANGED <<poolVars, listVars, running, requested, byte, handlerVars, othersVars>>

\* Mutant: the event stays active while it is handled.
StillActive(t) == mask

\* The event is taken out of the mask; nothing happens when the handler is gone.
Deactivated(t) ==
  [mask EXCEPT ![loc[t].h] = @ \ {loc[t].ev}]

DeactivateHandler(t) ==
  /\ Lead(t, "deactivate")
  /\ MutexFree
  /\ mask' = Deactivated(t)
  /\ Goto(t, "promote")
  /\ UNCHANGED <<poolVars, handlers, toDelete, running, requested, byte, handlerVars, loc,
                 othersVars>>

\* promote_new_leader() of the pool; the thread then handles its event, if any.
Promote(t) ==
  /\ step[t] = "promote"
  /\ PromoteNewLeader(t)
  /\ Goto(t, IF loc[t].h = NoHandler THEN "return" ELSE "handle")
  /\ UNCHANGED <<listVars, running, requested, byte, handlerVars, loc, othersVars>>

-----------------------------------------------------------------------------
(* handle_events(), after the promotion.  loc[t].todo is what is left of   *)
(* on_input(), on_output() or on_timeout() after the current step.         *)

Continue(t, todo) ==
  IF todo = <<>>
  THEN Goto(t, "activate") /\ loc' = [loc EXCEPT ![t].todo = <<>>]
  ELSE Goto(t, Head(todo)) /\ loc' = [loc EXCEPT ![t].todo = Tail(todo)]

\* on_input(): data, end of file (the flag stays set), or an error, which a stream that
\* was closed meanwhile always gives.
OnInput(t) ==
  LET h == loc[t].h IN
  /\ Work(t, "handle") /\ loc[t].ev = "R"
  /\ \/ /\ open[h]
        /\ readyRead' = [readyRead EXCEPT ![h] = FALSE]
        /\ Continue(t, <<"callback">>)
     \/ /\ Closes
        /\ Continue(t, <<"close">>)
        /\ UNCHANGED readyRead
     \/ /\ Closes \/ ~open[h]
        /\ readyRead' = [readyRead EXCEPT ![h] = FALSE]
        /\ Continue(t, <<"callback", "close">>)
  /\ UNCHANGED <<poolVars, listVars, running, requested, byte, open, readyWrite, timer,
                 fired, othersVars>>

\* on_output(): all buffers sent, a send of 0 bytes, or a send that fails.  After the
\* last two the loop goes on with the buffer that is still there.  The flag is reset
\* before the close here; "W" is out of the mask, so nobody reads it between.
OnOutput(t) ==
  LET h == loc[t].h
      ResetFlag == readyWrite' = [readyWrite EXCEPT ![h] = FALSE]
  IN
  /\ Work(t, "handle") /\ loc[t].ev = "W"
  /\ \/ open[h] /\ ResetFlag /\ Continue(t, <<"callback">>)
     \/ Closes /\ UNCHANGED readyWrite /\ Continue(t, <<"close", "handle">>)
     \/ (Closes \/ ~open[h]) /\ ResetFlag /\ Continue(t, <<"close", "callback", "handle">>)
  /\ UNCHANGED <<poolVars, listVars, running, requested, byte, open, readyRead, timer,
                 fired, othersVars>>

\* handler::calculate_next_timeout().  The interval of a periodic timer is 0 only after
\* cancel_timer(), which also leaves it without a next timeout.
CalculateNextTimeout(h) ==
  IF h \in Periodic /\ timer[h] # "none" THEN "pending" ELSE "none"

\* on_timeout() of the reactor: the next timeout first, then the handler's callback.
OnTimeout(t) ==
  LET h == loc[t].h IN
  /\ Work(t, "handle") /\ loc[t].ev = "T"
  /\ timer' = [timer EXCEPT ![h] = CalculateNextTimeout(h)]
  /\ fired' = [fired EXCEPT ![h] = IF h \in Periodic \/ @ = 2 THEN @ ELSE @ + 1]
  /\ Continue(t, <<"callback">>)
  /\ UNCHANGED <<poolVars, listVars, running, requested, byte, open, readyRead, readyWrite,
                 othersVars>>

\* The user's callback calls stream_handler::read().
Read(t) ==
  LET h == loc[t].h IN
  /\ Rearms /\ MutexFree
  /\ Work(t, "callback") /\ h \in Streams /\ ~readyRead[h]
  /\ readyRead' = [readyRead EXCEPT ![h] = TRUE]
  /\ Interrupt
  /\ UNCHANGED <<poolVars, listVars, running, requested, open, readyWrite, timer, fired,
                 step, loc, othersVars>>

\* The user's callback calls stream_handler::write().
Write(t) ==
  LET h == loc[t].h IN
  /\ Rearms /\ MutexFree
  /\ Work(t, "callback") /\ h \in Streams /\ ~readyWrite[h]
  /\ readyWrite' = [readyWrite EXCEPT ![h] = TRUE]
  /\ Interrupt
  /\ UNCHANGED <<poolVars, listVars, running, requested, open, readyRead, timer, fired,
                 step, loc, othersVars>>

CallbackReturns(t) ==
  /\ Work(t, "callback")
  /\ Continue(t, loc[t].todo)
  /\ UNCHANGED <<poolVars, listVars, running, requested, byte, handlerVars, othersVars>>

\* stream_handler::on_close() in three steps: close the stream, ...
OnClose(t) ==
  /\ Work(t, "close")
  /\ open' = [open EXCEPT ![loc[t].h] = FALSE]
  /\ Goto(t, "mark")
  /\ UNCHANGED <<poolVars, listVars, running, requested, byte, readyRead, readyWrite, timer,
                 fired, loc, othersVars>>

\* ... mark_handler_for_delete(), ...
MarkHandlerForDelete(t) ==
  /\ Work(t, "mark")
  /\ MutexFree
  /\ Len(toDelete) < MaxMarked
  /\ toDelete' = Append(toDelete, loc[t].h)
  /\ Goto(t, "unregister")
  /\ UNCHANGED <<poolVars, handlers, mask, running, requested, byte, handlerVars, loc,
                 othersVars>>

\* ... unregister_handler().
OnCloseUnregisters(t) ==
  /\ Work(t, "unregister")
  /\ MutexFree
  /\ UnregisterHandler(loc[t].h)
  /\ Continue(t, loc[t].todo)
  /\ UNCHANGED <<poolVars, toDelete, running, requested, readyRead, readyWrite, timer,
                 fired, othersVars>>

\* Mutant: the event is not put back.
StillInactive(t) == mask

\* Mutant: a handler that was unregistered meanwhile gets an entry again.
ActivatedAlways(t) ==
  [mask EXCEPT ![loc[t].h] = @ \cup {loc[t].ev}]

Activated(t) ==
  [mask EXCEPT ![loc[t].h] = IF Registered(loc[t].h) THEN @ \cup {loc[t].ev} ELSE @]

\* activate_handler(): does not interrupt the select() of the current leader.
ActivateHandler(t) ==
  /\ Work(t, "activate")
  /\ MutexFree
  /\ mask' = Activated(t)
  /\ Goto(t, "remove")
  /\ UNCHANGED <<poolVars, handlers, toDelete, running, requested, byte, handlerVars, loc,
                 othersVars>>

\* remove_deleted(), which takes no lock: the test of the loop ...
RemoveDeleted(t) ==
  /\ Work(t, "remove")
  /\ Goto(t, IF toDelete = <<>> THEN "return" ELSE "pop")
  /\ UNCHANGED <<poolVars, listVars, running, requested, byte, handlerVars, loc, othersVars>>

\* ... and its body.  Another thread may have taken the last element: popping an
\* empty std::list is undefined, here the process is gone.
PopDeleted(t) ==
  /\ Work(t, "pop")
  /\ \/ /\ toDelete = <<>>
        /\ crashed' = TRUE
        /\ UNCHANGED <<listVars, step>>
     \/ /\ toDelete # <<>>
        /\ toDelete' = Tail(toDelete)
        /\ Erase(Head(toDelete))
        /\ Goto(t, "remove")
        /\ UNCHANGED crashed
  /\ UNCHANGED <<poolVars, running, requested, byte, handlerVars, loc, runPc, user, again, missed>>

\* handle_events() returns to the pool.
HandleEventsReturns(t) ==
  /\ step[t] = "return"
  /\ JoinReturns(t)
  /\ Goto(t, "prepare")
  /\ loc' = [loc EXCEPT ![t] = NoLocals]
  /\ UNCHANGED <<listVars, running, requested, byte, handlerVars, othersVars>>

PoolStep(t) ==
  /\ Lock(t) \/ WhileRunning(t) \/ WaitPredicate(t) \/ CheckRunning(t)
  /\ UNCHANGED reactorVars

-----------------------------------------------------------------------------
(* The thread that calls run() and then destroys the reactor.              *)

Run ==
  /\ runPc = "new"
  /\ \A h \in Handlers \ Late : Registered(h)
  /\ Start
  /\ runPc' = "starting"
  /\ UNCHANGED <<listVars, running, requested, byte, handlerVars, step, loc, user, moreVars>>

RunSpawns(t) ==
  /\ runPc = "starting"
  /\ Spawn(t)
  /\ runPc' = IF control' = "started" THEN "check" ELSE runPc
  /\ UNCHANGED <<listVars, running, requested, byte, handlerVars, step, loc, user, moreVars>>

\* The predicate of shutdown_.wait() is evaluated with the mutex held.
RunTests ==
  /\ runPc = "check" /\ ~requested
  /\ runPc' = "test"
  /\ UNCHANGED <<poolVars, listVars, running, requested, byte, handlerVars, step, loc, user,
                 moreVars>>

RunSleeps ==
  /\ runPc = "test"
  /\ runPc' = "asleep"
  /\ UNCHANGED <<poolVars, listVars, running, requested, byte, handlerVars, step, loc, user,
                 moreVars>>

RunWakesSpuriously ==
  /\ runPc = "asleep"
  /\ runPc' = "check"
  /\ UNCHANGED <<poolVars, listVars, running, requested, byte, handlerVars, step, loc, user,
                 moreVars>>

\* Shutdown was requested: cleanup() closes every handler of the list.
RunCleansUp ==
  /\ runPc = "check" /\ requested
  /\ open' = [h \in Handlers |-> open[h] /\ ~Registered(h)]
  /\ handlers' = <<>>
  /\ mask' = [h \in Handlers |-> {}]
  /\ runPc' = "stop"
  /\ UNCHANGED <<poolVars, toDelete, running, requested, byte, readyRead, readyWrite, timer,
                 fired, step, loc, user, moreVars>>

RunStopsPool ==
  /\ runPc = "stop"
  /\ Stop
  /\ runPc' = "returned"
  /\ UNCHANGED <<listVars, running, requested, byte, handlerVars, step, loc, user, moreVars>>

Destroy ==
  /\ runPc = "returned"
  /\ Shutdown
  /\ runPc' = "destroying"
  /\ UNCHANGED <<listVars, running, requested, byte, handlerVars, step, loc, user, moreVars>>

DestroyReturns == ShutdownReturns /\ UNCHANGED reactorVars

RunThread ==
  \/ Run \/ RunTests \/ RunSleeps \/ RunCleansUp \/ RunStopsPool \/ Destroy \/ DestroyReturns

\* The leader's steps that wait for nothing but a lock.
LeadingOn(t) ==
  \/ Prepare(t) \/ SelectBlocks(t) \/ SelectFails(t)
  \/ IsInterrupted(t) \/ Interrupted(t) \/ ResolveNextHandler(t) \/ DeactivateHandler(t)
  \/ Promote(t)

Leading(t) == LeadingOn(t) \/ SelectReturns(t)

Working(t) ==
  \/ OnInput(t) \/ OnOutput(t) \/ OnTimeout(t) \/ CallbackReturns(t)
  \/ OnClose(t) \/ MarkHandlerForDelete(t) \/ OnCloseUnregisters(t)
  \/ ActivateHandler(t) \/ RemoveDeleted(t) \/ PopDeleted(t) \/ HandleEventsReturns(t)

Callback(t) == Read(t) \/ Write(t)

Spurious(t) == SpuriousWake(t) /\ UNCHANGED reactorVars

Users ==
  \/ \E h \in Handlers :
       \/ RegisterHandler(h) \/ RegisterAgainOpens(h) \/ RegisterAgain(h) \/ UserUnregisters(h)
       \/ ScheduleTimer(h) \/ CancelTimer(h) \/ Tick(h)
  \/ UserShutdown \/ UserRequests \/ UserInterrupts

ReactorNext ==
  /\ ~crashed
  /\ \/ \E t \in Threads :
          \/ PoolStep(t) \/ Leading(t) \/ Working(t) \/ Callback(t)
          \/ SelectInterruptedBySignal(t) \/ Spurious(t) \/ RunSpawns(t)
     \/ RunThread \/ RunWakesSpuriously
     \/ Users

ReactorSpec == ReactorInit /\ [][ReactorNext]_vars

\* select() has to return: the interrupter can be read, or a watched timer has expired.
SelectHasToReturn(t) ==
  /\ byte \/ \E h \in loc[t].t : timer[h] # "pending"
  /\ SelectReturns(t)

\* The steps a thread of the pool owes once it can take them.
Proceeds(t) ==
  PoolStep(t) \/ LeadingOn(t) \/ SelectHasToReturn(t) \/ Working(t)

(***************************************************************************)
(* Fairness: a thread that can go on again and again goes on (strong, as   *)
(* its steps wait for a lock), select() returns for the interrupter and    *)
(* for an expired timer, callbacks return, due time passes.  Nothing is    *)
(* assumed about peers (a watched socket may never become ready), signals, *)
(* spurious wake-ups or the calls of users.                                *)
(***************************************************************************)
ReactorFairness ==
  /\ \A t \in Threads : SF_vars(Proceeds(t))
  /\ SF_vars(RunThread \/ \E t \in Threads : RunSpawns(t))
  /\ SF_vars(UserRequests \/ UserInterrupts)
  /\ \A h \in Timers : WF_vars(Tick(h))

FairReactorSpec == ReactorSpec /\ ReactorFairness

-----------------------------------------------------------------------------
(* Properties.                                                             *)

\* t holds the event it resolved: from taking the mask bit to putting it back.
Holds(t) ==
  /\ loc[t].h # NoHandler
  /\ step[t] \in {"promote", "handle", "callback", "close", "mark", "unregister", "activate"}

\* t and u both have h for the same direction.
Shared(h) ==
  \E t, u \in Threads :
    t # u /\ Holds(t) /\ Holds(u) /\ loc[t].h = h /\ loc[u].h = h /\ loc[t].ev = loc[u].ev

\* A stream is never given to two threads for the same direction, as long as nobody
\* registers it a second time: the mask bit is taken before the promotion and put back
\* after the callback, so on_input() and on_output() of a handler need no lock of
\* their own.
ExclusiveDispatch ==
  \A h \in Streams : again[h] # "done" => ~Shared(h)

\* No direction of a registered stream gets lost: a bit missing in its mask is
\* held by a thread that is going to put it back.
MaskRestored ==
  \A h \in Streams : \A ev \in {"R", "W"} :
    Registered(h) /\ ev \notin mask[h] =>
      \E t \in Threads : Holds(t) /\ loc[t].h = h /\ loc[t].ev = ev

\* handle_events() never keeps the lead when it returns, except after EINTR and for
\* shutdown: the thread leader_ names is still in its leading part.
LeaderIsLive ==
  ~Signals /\ ~requested /\ leader # NoThread => pc[leader] = "lead"

\* No reader of select() is left behind: whoever asked for data with read() is
\* eventually watched by the select() of a leader, unless the request is
\* answered, the handler is gone or the reactor is shut down.
ReadIsWatched ==
  \A h \in Streams :
    (runPc = "asleep" /\ Registered(h) /\ readyRead[h])
      ~> (requested \/ ~Registered(h) \/ ~readyRead[h] \/ \E t \in Threads : h \in loc[t].r)

\* A timer that is due is handled: on_timeout() is called unless the reactor is shut down
\* or the timer is cancelled or scheduled again.  Nothing is said about a timer that was
\* scheduled a second time.
TimerFires ==
  \A h \in Timers :
    (runPc = "asleep" /\ Registered(h) /\ timer[h] = "due" /\ again[h] = "no")
      ~> (requested \/ ~Registered(h) \/ timer[h] # "due" \/ again[h] # "no")

\* A timer without an interval fires at most once.
OneShotFiresOnce ==
  \A h \in Timers \ Periodic : fired[h] <= 1

\* shutdown() stops the dispatching: is_running() becomes false.
StopsAfterShutdown ==
  requested ~> ~running

\* The leader calls ::select() again and again with a descriptor that run() has closed.
SelectSpins ==
  \E t \in Threads : Lead(t, "select") /\ \E h \in Watched(t) : ~open[h]

\* After shutdown() was accepted run() returns and the destructor joins the pool, except
\* in three cases: the notification of run() fell between the test of its wait and its
\* sleep; cleanup() closed a descriptor between prepare_select_bits() and ::select(); two
\* threads were in remove_deleted() for one entry.
RunTerminates ==
  requested ~> (control = "done" \/ (missed /\ runPc = "asleep") \/ SelectSpins \/ crashed)

\* The same without the exceptions.
RunAlwaysTerminates ==
  requested ~> control = "done"

\* The type of a handler "can be changed while the reactor is running" (reactor.hpp)
\* without giving the handler to two threads for one direction.
ExclusiveDispatchAlways ==
  \A h \in Streams : ~Shared(h)

\* is_running() is true once run() was called and has started the threads.
RunningOnceRunWasCalled ==
  runPc = "asleep" => running

=============================================================================
