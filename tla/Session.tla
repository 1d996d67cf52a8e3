------------------------------ MODULE Session -------------------------------
(***************************************************************************)
(* The session of the object-relational mapper on top of the object store: *)
(*   src/src/orm/session.cpp        flush(), load(), the observer of the   *)
(*                                  transactions                           *)
(*   src/src/orm/persistence.cpp    the queue of changes                   *)
(*   src/include/matador/orm/table.hpp   the statements of a table         *)
(*                                                                         *)
(* Changes outside of a transaction are queued and written by flush();     *)
(* changes inside of one are written from its undo log by commit().  Both  *)
(* run their statements in one transaction of the database.  The module    *)
(* extends the transactions: each operation of the store is joined with    *)
(* what the observers of the prototype nodes do.  The database behaves as  *)
(* SQLite does: BEGIN inside of an open transaction is an error.  A client *)
(* does not use an object whose proxy was deleted, and writes into objects *)
(* through object_ptr::modify() only.  Outside of a transaction save() is  *)
(* insert() or mark_modified(), followed by flush().                       *)
(***************************************************************************)
EXTENDS Transaction

CONSTANTS
  Stored,      \* objects the database has a row for at the start
  StoredAs,    \* the content of these rows
  Fails,       \* statements of the database, COMMIT included, may fail
  Copies,      \* rollback() may be called on another handle of the transaction than commit()
  Mixes        \* load() and transactions start while changes are queued, and
               \* flush() is called while a transaction is begun

ASSUME SessionAssumption ==
  /\ Stored \subseteq Objects
  /\ StoredAs \in Values
  /\ {Fails, Copies, Mixes} \subseteq BOOLEAN

VARIABLES
  rows,        \* the committed rows of the database
  open,        \* who left a transaction of the database open: "none", "flush", "commit"
  queue,       \* proxy_change_queue_
  identified,  \* the proxies in proxy_identifier_map_
  marked,      \* proxies of delete actions that a failed commit has marked
  committing,  \* committing_ of the handle commit() was called on
  bySave       \* history: objects whose update action is save()'s alone

sessionVars == <<rows, open, queue, identified, marked, committing, bySave>>
allVars == <<vars, sessionVars>>

Change == [obj : Objects, change : {"INSERT", "UPDATE", "REMOVE"}]

SessionTypeOK ==
  /\ TypeOK
  /\ rows \in Store
  /\ open \in {"none", "flush", "commit"}
  /\ queue \in Seq(Change)
  /\ identified \subseteq known
  /\ marked \subseteq known
  /\ committing \in BOOLEAN
  /\ bySave \subseteq known

SessionInit ==
  /\ Init
  /\ rows = [o \in Objects |-> IF o \in Stored THEN StoredAs ELSE Absent]
  /\ open = "none"
  /\ queue = <<>>
  /\ identified = {}
  /\ marked = {}
  /\ committing = FALSE
  /\ bySave = {}

-----------------------------------------------------------------------------
(* The queue of changes: at most one entry for a proxy.                    *)

Entries(o) == {i \in DOMAIN queue : queue[i].obj = o}
Queued(o, c) == Append(queue, [obj |-> o, change |-> c])

\* Only a proxy that was never inserted before comes here without a transaction.
RegisterProxyInsert(o) ==
  queue' = IF HasTransaction THEN queue ELSE Queued(o, "INSERT")

\* Mutant: the primary key is recorded only outside of a transaction.
RegisterProxyUpdateLate(o) ==
  /\ identified' = IF HasTransaction THEN identified ELSE identified \cup {o}
  /\ queue' = IF HasTransaction \/ Entries(o) # {} THEN queue ELSE Queued(o, "UPDATE")

\* The primary key is recorded in any case.
RegisterProxyUpdate(o) ==
  /\ identified' = identified \cup {o}
  /\ queue' = IF HasTransaction \/ Entries(o) # {} THEN queue ELSE Queued(o, "UPDATE")

\* Without a transaction: a queued insert is dropped together with its proxy, a
\* queued update becomes a removal, anything else is queued as a removal.
RegisterProxyDelete(o) ==
  \/ /\ Entries(o) = {}
     /\ queue' = Queued(o, "REMOVE")
     /\ UNCHANGED freed
  \/ \E i \in Entries(o) :
       \/ /\ queue[i].change = "INSERT"
          /\ queue' = RemoveAt(queue, i)
          /\ freed' = freed \cup {o}
       \/ /\ queue[i].change = "UPDATE"
          /\ queue' = [queue EXCEPT ![i].change = "REMOVE"]
          /\ UNCHANGED freed

-----------------------------------------------------------------------------
(* The operations of the store, with their observers.                      *)

SessionInsert(o, v) ==
  /\ o \notin Stored
  /\ Insert(o, v)
  /\ RegisterProxyInsert(o)
  /\ UNCHANGED <<rows, open, identified, marked, committing, bySave>>

\* modify(), then a write: the observers hear of it before the transaction does.
SessionModify(o, v) ==
  /\ o \notin freed
  /\ Modify(o, v)
  /\ RegisterProxyUpdate(o)
  /\ bySave' = bySave \ {o}
  /\ UNCHANGED <<rows, open, marked, committing>>

\* save() of an object inside of a transaction goes to its undo log past the
\* observers, which alone would record the primary key.
SaveInTransaction(o) ==
  /\ phase = "idle" /\ HasTransaction
  /\ val[o] # Absent /\ o \notin freed
  /\ SetCurrent(OnUpdate(Current, o, val[o]))
  /\ bySave' = IF Current.index[o] = Unmapped THEN bySave \cup {o} ELSE bySave
  /\ UNCHANGED <<val, known, freed, phase, rows, open, queue, identified, marked, committing>>

\* In a transaction the undo log keeps the proxy.
RemoveInTransaction(o) ==
  /\ HasTransaction
  /\ o \notin freed
  /\ RemoveObject(o)
  /\ UNCHANGED sessionVars

\* on_proxy_delete_ is persistence's: the proxy lives until its row is removed.
RemoveQueued(o) ==
  /\ ~HasTransaction
  /\ phase = "idle"
  /\ val[o] # Absent /\ o \notin freed
  /\ val' = [val EXCEPT ![o] = Absent]
  /\ RegisterProxyDelete(o)
  /\ UNCHANGED <<known, stack, phase, rows, open, identified, marked, committing, bySave>>

\* Mutant: the loaded proxies are not given an id.
LoadAnonymous ==
  /\ phase = "idle" /\ ~HasTransaction /\ open = "none"
  /\ Mixes \/ queue = <<>>
  /\ val' = [o \in Objects |-> IF rows[o] # Absent THEN rows[o] ELSE val[o]]
  /\ queue' = <<>>
  /\ UNCHANGED <<known, freed, stack, phase, rows, open, identified, marked, committing, bySave>>

\* load(): every row becomes an object; the inserts this queues are dropped with the
\* whole queue.  The client calls it while no row has its object in the store: the
\* code would make a second proxy for it.
Load ==
  /\ phase = "idle" /\ ~HasTransaction /\ open = "none"
  /\ Mixes \/ queue = <<>>
  /\ LET loaded == {o \in Objects : rows[o] # Absent}
     IN /\ loaded # {} /\ loaded \cap known = {}
        /\ known' = known \cup loaded
        /\ val' = [o \in Objects |-> IF o \in loaded THEN rows[o] ELSE val[o]]
  /\ queue' = <<>>
  /\ UNCHANGED <<freed, stack, phase, rows, open, identified, marked, committing, bySave>>

-----------------------------------------------------------------------------
(* Statements.  The failing calls are given by the number of statements    *)
(* executed before the exception; what these wrote is never committed.     *)

\* table::insert, update and remove: an update of a missing row changes nothing.
Execute(db, s) ==
  CASE s.change = "INSERT" -> [db EXCEPT ![s.obj] = val[s.obj]]
    [] s.change = "UPDATE" -> [db EXCEPT ![s.obj] = IF @ = Absent THEN Absent ELSE val[s.obj]]
    [] s.change = "REMOVE" -> [db EXCEPT ![s.obj] = Absent]

ExecuteAll(statements) == FoldLeft(Execute, rows, statements)

\* table::update needs the primary key the proxy had.
Executable(s) == s.change = "UPDATE" => s.obj \in identified

Removed(statements) ==
  {statements[i].obj : i \in {j \in DOMAIN statements : statements[j].change = "REMOVE"}}

\* The calls that reach the database fail in BEGIN exactly when a transaction is still
\* open, in an update without its primary key, or anywhere after BEGIN when the
\* database fails.
MayFailAfter(statements, n) ==
  \/ Fails
  \/ open # "none" /\ n = 0
  \/ n < Len(statements) /\ ~Executable(statements[n + 1])

Succeeds(statements) ==
  /\ open = "none"
  /\ \A i \in DOMAIN statements : Executable(statements[i])

FailsAfter(statements, n) ==
  /\ MayFailAfter(statements, n)
  /\ open # "none" => n = 0
  /\ \A i \in 1..n : Executable(statements[i])

QueueIsLive == \A i \in DOMAIN queue : queue[i].obj \notin freed

Flush ==
  /\ phase = "idle"
  /\ Mixes \/ ~HasTransaction
  /\ QueueIsLive
  /\ Succeeds(queue)
  /\ rows' = ExecuteAll(queue)
  /\ freed' = freed \cup Removed(queue)
  /\ queue' = <<>>
  /\ identified' = {}
  /\ UNCHANGED <<val, known, stack, phase, open, marked, committing, bySave>>

\* The exception leaves flush(): the queue stays, nobody rolls the database back.
FlushFails ==
  /\ phase = "idle"
  /\ Mixes \/ ~HasTransaction
  /\ QueueIsLive
  /\ \E n \in 0..Len(queue) :
       /\ FailsAfter(queue, n)
       /\ freed' = freed \cup Removed(SubSeq(queue, 1, n))
  /\ open' = IF open = "none" THEN "flush" ELSE open
  /\ UNCHANGED <<val, known, stack, phase, rows, queue, identified, marked, committing, bySave>>

-----------------------------------------------------------------------------
(* Transactions of the session.                                            *)

ChangeOf == [insert |-> "INSERT", update |-> "UPDATE", delete |-> "REMOVE"]

\* The statements on_commit() executes: the actions in order, an insert action for
\* each of its objects.
Statements(actions) ==
  FlattenSeq([i \in DOMAIN actions |->
    [j \in DOMAIN actions[i].objs |->
      [obj |-> actions[i].objs[j], change |-> ChangeOf[actions[i].kind]]]])

SessionBegin ==
  /\ Mixes \/ queue = <<>>
  /\ Begin
  /\ UNCHANGED sessionVars

\* With the outermost transaction the history of save() ends.
SavesEnd == bySave' = IF Len(stack) = 1 THEN {} ELSE bySave

\* Mutant: the observer executes the inserts only.
SessionCommitInsertsOnly ==
  /\ Commit
  /\ Succeeds(Statements(Current.actions))
  /\ rows' = ExecuteAll(SelectSeq(Statements(Current.actions), LAMBDA s : s.change = "INSERT"))
  /\ SavesEnd
  /\ UNCHANGED <<open, queue, identified, marked, committing>>

SessionCommit ==
  /\ Commit
  /\ Succeeds(Statements(Current.actions))
  /\ rows' = ExecuteAll(Statements(Current.actions))
  /\ SavesEnd
  /\ UNCHANGED <<open, queue, identified, marked, committing>>

\* The exception leaves commit() with committing_ of its handle set; the delete actions executed
\* before are marked already.
SessionCommitFails ==
  /\ phase = "idle"
  /\ HasTransaction
  /\ NestedCommits \/ Len(stack) = 1
  /\ LET statements == Statements(Current.actions)
     IN \E n \in 0..Len(statements) :
          /\ FailsAfter(statements, n)
          /\ marked' = Removed(SubSeq(statements, 1, n))
  /\ phase' = "failed"
  /\ open' = "commit"
  /\ committing' = TRUE
  /\ UNCHANGED <<val, known, freed, stack, rows, queue, identified, bySave>>

SessionRollbackBegins == RollbackBegins /\ UNCHANGED sessionVars

SessionRestore == Restore /\ UNCHANGED sessionVars

\* Mutant: the observer is not told of the rollback.
OnRollbackSilent(handle) == UNCHANGED open

\* The observer's on_rollback() rolls the database back.  rollback() calls it when
\* committing_ of its handle is set; a copy of the handle has its own.
OnRollback(handle) ==
  open' = IF handle = "own" /\ committing THEN "none" ELSE open

\* A marked delete action deletes its proxy when it goes, right after it has put it
\* back into the store.
SessionRollbackEnds ==
  /\ phase = "rollback"
  /\ Current.actions = <<>>
  /\ \E handle \in {"own"} \cup (IF Copies THEN {"copy"} ELSE {}) : OnRollback(handle)
  /\ committing' = FALSE
  /\ stack' = Front(stack)
  /\ phase' = "idle"
  /\ freed' = freed \cup marked
  /\ marked' = {}
  /\ SavesEnd
  /\ UNCHANGED <<val, known, rows, queue, identified>>

SessionNext ==
  \/ \E o \in Objects, v \in Values : SessionInsert(o, v) \/ SessionModify(o, v)
  \/ \E o \in Objects : SaveInTransaction(o) \/ RemoveInTransaction(o) \/ RemoveQueued(o)
  \/ Load
  \/ Flush \/ FlushFails
  \/ SessionBegin \/ SessionCommit \/ SessionCommitFails
  \/ SessionRollbackBegins \/ SessionRestore \/ SessionRollbackEnds

SessionSpec == SessionInit /\ [][SessionNext]_allVars

-----------------------------------------------------------------------------
(* Properties.                                                             *)

HasChange(o, c) == \E i \in Entries(o) : queue[i].change = c

\* The queue is the difference between the store and the database: outside of a
\* transaction an object without a row is queued for INSERT, a row without an
\* object for REMOVE, and where object and row differ an UPDATE is queued; no entry is
\* there without such a reason.  So register_proxy_*, flush(), commit() from the undo
\* log, rollback() and the failing calls all leave "all stored changes", and
\* only these, for the next flush() (session.hpp).
QueueIsDifference ==
  phase = "idle" /\ ~HasTransaction =>
    \A o \in known :
      /\ Cardinality(Entries(o)) <= 1
      /\ HasChange(o, "INSERT") <=> (rows[o] = Absent /\ val[o] # Absent)
      /\ HasChange(o, "REMOVE") <=> (rows[o] # Absent /\ val[o] = Absent)
      /\ HasChange(o, "UPDATE") => (rows[o] # Absent /\ val[o] # Absent)
      /\ (Absent \notin {rows[o], val[o]} /\ rows[o] # val[o]) => HasChange(o, "UPDATE")

\* table::update() finds the primary key it needs: every queued UPDATE and every
\* update action that modify() made in a begun transaction has its entry in
\* proxy_identifier_map_, which flush() clears and commit() does not.  Update actions
\* that only save() made are left out; EveryUpdateIsIdentified speaks of them.
UpdatesAreIdentified ==
  /\ \A i \in DOMAIN queue : Executable(queue[i])
  /\ \A k \in DOMAIN stack : \A i \in DOMAIN stack[k].actions :
       stack[k].actions[i].kind = "update" => stack[k].actions[i].objs[1] \in identified \cup bySave

\* The transaction a failing commit() has left open in the database does not outlive
\* rollback(): later calls of flush() and commit() can begin theirs.
FailedCommitIsClosed ==
  open = "commit" => phase \in {"failed", "rollback"}

-----------------------------------------------------------------------------
(* Expectations that fail for some clients; README.md says for which.      *)

\* "Save an object on database" (session.hpp): the update action that save() makes in
\* a transaction has its primary key, too, so that commit() can execute it.
EveryUpdateIsIdentified ==
  \A k \in DOMAIN stack : \A i \in DOMAIN stack[k].actions :
    stack[k].actions[i].kind = "update" => stack[k].actions[i].objs[1] \in identified

\* The queue refers to live proxies: flush() dereferences each of them.
QueueHoldsLiveProxies == QueueIsLive

\* The store holds live proxies only, also after the rollback of a failed commit().
StoreHoldsLiveProxies ==
  phase = "idle" => \A o \in Objects : val[o] # Absent => o \notin freed

=============================================================================
