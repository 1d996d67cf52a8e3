---------------------------- MODULE Transaction -----------------------------
(***************************************************************************)
(* Transactions of the object store:                                       *)
(*   src/src/object/transaction.cpp                                        *)
(*   src/src/object/action_inserter.cpp, action_remover.cpp                *)
(*   src/src/object/insert_action.cpp, update_action.cpp,                  *)
(*   delete_action.cpp                        (backup and restore)         *)
(*   src/src/object/object_store.cpp          insert, remove, remove_proxy,*)
(*                                            insert_proxy, mark_modified  *)
(*                                                                         *)
(* A transaction keeps an undo log: a vector of actions, a map from an     *)
(* object's id to the index of its action, and a buffer with the           *)
(* serialized old values.  Begun transactions form a stack and the store   *)
(* reports every change to the top one.  An object is its proxy (ids are   *)
(* never used twice); its content is a member of Values.                   *)
(***************************************************************************)
EXTENDS Naturals, FiniteSets, Sequences, SequencesExt

CONSTANTS
  Objects,          \* object proxies
  Values,           \* contents of an object
  Absent,           \* the content of an object that is not in the store
  TypeOf,           \* the prototype an object belongs to
  MaxDepth,         \* bound: transactions begun at the same time
  RemovesInserted,  \* a transaction may remove an object it has inserted
  NestedCommits     \* an inner transaction may be committed

ASSUME TransactionAssumption ==
  /\ Absent \notin Values
  /\ DOMAIN TypeOf = Objects
  /\ MaxDepth \in Nat
  /\ {RemovesInserted, NestedCommits} \subseteq BOOLEAN

VARIABLES
  val,     \* the store: the content of every object in object_map_
  known,   \* objects that were given an id
  freed,   \* proxies that were deleted
  stack,   \* transactions_; the current transaction is the last one
  phase    \* what the client's thread does: "idle", "rollback" (inside of
           \* rollback()) or "failed" (an exception reached the client)

vars == <<val, known, freed, stack, phase>>

Kinds == {"insert", "update", "delete"}
Action == [kind : Kinds, objs : Seq(Objects)]
Store == [Objects -> Values \cup {Absent}]

(* transaction_data; the store as it was when the transaction began; and   *)
(* whether an action was erased in front of others (both are history only).*)
TransactionData ==
  [actions : Seq(Action), index : [Objects -> Nat], buffer : Seq(Values),
   saved : Store, shifted : BOOLEAN]

TypeOK ==
  /\ val \in Store
  /\ known \subseteq Objects /\ freed \subseteq known
  /\ stack \in Seq(TransactionData)
  /\ phase \in {"idle", "rollback", "failed"}

Init ==
  /\ val = [o \in Objects |-> Absent]
  /\ known = {}
  /\ freed = {}
  /\ stack = <<>>
  /\ phase = "idle"

Unmapped == 0
Current == Last(stack)
HasTransaction == stack # <<>>
SetCurrent(t) == stack' = Front(stack) \o <<t>>
ActionOf(kind, o) == [kind |-> kind, objs |-> <<o>>]

-----------------------------------------------------------------------------
(* The undo log: what a transaction does when it is told of a change.      *)

(* action_inserter: the first insert action of the object's type takes the *)
(* object; without one a new action is appended.                           *)
ActionInserter(t, o) ==
  LET sameType == {i \in DOMAIN t.actions :
                     /\ t.actions[i].kind = "insert"
                     /\ TypeOf[Head(t.actions[i].objs)] = TypeOf[o]}
      at == IF sameType = {} THEN Len(t.actions) + 1
            ELSE CHOOSE i \in sameType : \A j \in sameType : i <= j
  IN  [t EXCEPT !.actions = IF sameType = {} THEN Append(@, ActionOf("insert", o))
                            ELSE [@ EXCEPT ![at].objs = Append(@, o)],
                !.index[o] = at]

(* Mutant: the old content is not serialized again when the buffer already *)
(* holds one.                                                              *)
BackupOnce(t, kind, o, old) ==
  [t EXCEPT !.actions = Append(@, ActionOf(kind, o)),
            !.buffer = IF @ = <<>> THEN <<old>> ELSE @,
            !.index[o] = Len(t.actions) + 1]

(* Mutant: the index of the new action misses the - 1 of size() - 1.       *)
BackupIndexPastEnd(t, kind, o, old) ==
  [t EXCEPT !.actions = Append(@, ActionOf(kind, o)),
            !.buffer = Append(@, old),
            !.index[o] = Len(t.actions) + 2]

(* Mutant: a removed object is serialized after its content is gone.       *)
BackupCleared(t, kind, o, old) ==
  [t EXCEPT !.actions = Append(@, ActionOf(kind, o)),
            !.buffer = Append(@, IF kind = "delete" THEN Absent ELSE old),
            !.index[o] = Len(t.actions) + 1]

Backup(t, kind, o, old) ==
  [t EXCEPT !.actions = Append(@, ActionOf(kind, o)),
            !.buffer = Append(@, old),
            !.index[o] = Len(t.actions) + 1]

OnInsert(t, o) == ActionInserter(t, o)

(* Mutant: every modification is backed up, not only the first.            *)
OnUpdateAlways(t, o, old) == Backup(t, "update", o, old)

OnUpdate(t, o, old) ==
  IF t.index[o] = Unmapped THEN Backup(t, "update", o, old) ELSE t

(* Mutant: the insert action is erased although it holds other objects.    *)
ActionRemoverErases(t, o) ==
  LET i == t.index[o]
      a == t.actions[i]
  IN  CASE a.kind = "insert" -> [t EXCEPT !.actions = RemoveAt(@, i),
                                          !.shifted = @ \/ i < Len(t.actions)]
        [] a = ActionOf("update", o) -> [t EXCEPT !.actions[i].kind = "delete"]
        [] OTHER -> t

(* action_remover: an inserted object is taken out of its insert action    *)
(* and an empty insert action out of the vector, an update action becomes  *)
(* a delete action.  The map from ids to indices is left as it is.         *)
ActionRemover(t, o) ==
  LET i == t.index[o]
      a == t.actions[i]
      rest == Remove(a.objs, o)
  IN  CASE a.kind = "insert" /\ rest = <<>> -> [t EXCEPT !.actions = RemoveAt(@, i),
                                                        !.shifted = @ \/ i < Len(t.actions)]
        [] a.kind = "insert" /\ rest # <<>> -> [t EXCEPT !.actions[i].objs = rest]
        [] a = ActionOf("update", o) -> [t EXCEPT !.actions[i].kind = "delete"]
        [] OTHER -> t

(* Mutant: a removed object that was modified before keeps its update      *)
(* action.                                                                 *)
OnDeleteKeepsUpdate(t, o, old) ==
  IF t.index[o] = Unmapped THEN Backup(t, "delete", o, old) ELSE t

OnDelete(t, o, old) ==
  IF t.index[o] = Unmapped THEN Backup(t, "delete", o, old) ELSE ActionRemover(t, o)

(* actions_.at(index) throws when the index is beyond the vector.          *)
OnDeleteThrows(t, o) == t.index[o] > Len(t.actions)

-----------------------------------------------------------------------------
(* The operations of the store.                                            *)

Insert(o, v) ==
  /\ phase = "idle"
  /\ o \notin known
  /\ known' = known \cup {o}
  /\ val' = [val EXCEPT ![o] = v]
  /\ IF HasTransaction THEN SetCurrent(OnInsert(Current, o)) ELSE UNCHANGED stack
  /\ UNCHANGED <<freed, phase>>

(* object_ptr::modify() marks the object as modified, then the client      *)
(* writes into it.                                                         *)
Modify(o, v) ==
  /\ phase = "idle"
  /\ val[o] # Absent
  /\ val' = [val EXCEPT ![o] = v]
  /\ IF HasTransaction THEN SetCurrent(OnUpdate(Current, o, val[o])) ELSE UNCHANGED stack
  /\ UNCHANGED <<known, freed, phase>>

InsertedByCurrent(o) ==
  HasTransaction /\ Current.saved[o] = Absent

(* remove(): the object leaves object_map_ and the list of its node before *)
(* the transaction hears of it.  Without a transaction the proxy is        *)
(* deleted at once.                                                        *)
RemoveObject(o) ==
  /\ phase = "idle"
  /\ val[o] # Absent
  /\ RemovesInserted \/ ~InsertedByCurrent(o)
  /\ val' = [val EXCEPT ![o] = Absent]
  /\ \/ /\ ~HasTransaction
        /\ freed' = freed \cup {o}
        /\ UNCHANGED <<stack, phase>>
     \/ /\ HasTransaction
        /\ ~OnDeleteThrows(Current, o)
        /\ SetCurrent(OnDelete(Current, o, val[o]))
        /\ UNCHANGED <<freed, phase>>
     \/ /\ HasTransaction
        /\ OnDeleteThrows(Current, o)
        /\ phase' = "failed"
        /\ UNCHANGED <<freed, stack>>
  /\ UNCHANGED known

-----------------------------------------------------------------------------
(* begin(), commit() and rollback() of the current transaction.            *)

Begin ==
  /\ phase = "idle"
  /\ Len(stack) < MaxDepth
  /\ stack' = Append(stack, [actions |-> <<>>, index |-> [o \in Objects |-> Unmapped],
                             buffer |-> <<>>, saved |-> val, shifted |-> FALSE])
  /\ UNCHANGED <<val, known, freed, phase>>

Deleted(t) ==
  {t.actions[i].objs[1] : i \in {j \in DOMAIN t.actions : t.actions[j].kind = "delete"}}

(* commit() with the null_observer: the proxies of the delete actions are  *)
(* deleted, the log is cleared and the transaction leaves the stack.       *)
Commit ==
  /\ phase = "idle"
  /\ HasTransaction
  /\ NestedCommits \/ Len(stack) = 1
  /\ freed' = freed \cup Deleted(Current)
  /\ stack' = Front(stack)
  /\ UNCHANGED <<val, known, phase>>

(* A client whose operation threw rolls the transaction back.              *)
RollbackBegins ==
  /\ phase \in {"idle", "failed"}
  /\ HasTransaction
  /\ phase' = "rollback"
  /\ UNCHANGED <<val, known, freed, stack>>

InStore(os) == {i \in DOMAIN os : val[os[i]] # Absent}

(* insert_action::restore removes its proxies from the store, up to the    *)
(* first that is not there: remove_proxy throws and rollback() is left.    *)
RestoreInsert ==
  LET a == Head(Current.actions)
      removed == {a.objs[i] : i \in {j \in DOMAIN a.objs : 1..j \subseteq InStore(a.objs)}}
  IN  /\ a.kind = "insert"
      /\ val' = [o \in Objects |-> IF o \in removed THEN Absent ELSE val[o]]
      /\ freed' = freed \cup removed
      /\ phase' = IF InStore(a.objs) = DOMAIN a.objs THEN phase ELSE "failed"
      /\ SetCurrent([Current EXCEPT !.actions = Tail(@)])

(* update_action::restore reads the old content back into the proxy,       *)
(* whether or not the proxy is still part of the store.                    *)
RestoreUpdate ==
  LET o == Head(Current.actions).objs[1] IN
  /\ Head(Current.actions).kind = "update"
  /\ val' = [val EXCEPT ![o] = IF @ = Absent THEN Absent ELSE Head(Current.buffer)]
  /\ SetCurrent([Current EXCEPT !.actions = Tail(@), !.buffer = Tail(@)])
  /\ UNCHANGED <<freed, phase>>

(* delete_action::restore inserts the proxy again and reads its content.   *)
RestoreDelete ==
  LET o == Head(Current.actions).objs[1] IN
  /\ Head(Current.actions).kind = "delete"
  /\ val' = [val EXCEPT ![o] = Head(Current.buffer)]
  /\ freed' = IF val[o] = Absent THEN freed ELSE freed \cup {o}
  /\ SetCurrent([Current EXCEPT !.actions = Tail(@), !.buffer = Tail(@)])
  /\ UNCHANGED phase

(* The actions are undone first to last: the buffer releases the oldest    *)
(* content first.                                                          *)
Restore ==
  /\ phase = "rollback"
  /\ Current.actions # <<>>
  /\ RestoreInsert \/ RestoreUpdate \/ RestoreDelete
  /\ UNCHANGED known

RollbackEnds ==
  /\ phase = "rollback"
  /\ Current.actions = <<>>
  /\ stack' = Front(stack)
  /\ phase' = "idle"
  /\ UNCHANGED <<val, known, freed>>

Next ==
  \/ \E o \in Objects, v \in Values : Insert(o, v) \/ Modify(o, v)
  \/ \E o \in Objects : RemoveObject(o)
  \/ Begin
  \/ Commit
  \/ RollbackBegins
  \/ Restore
  \/ RollbackEnds

Spec == Init /\ [][Next]_vars

-----------------------------------------------------------------------------
(* Properties.                                                             *)

(* When rollback() has undone its log, every object of the store has the   *)
(* presence and the content it had when the transaction began: "Rollback   *)
(* transaction and revert all changes" (transaction.hpp).                  *)
RollbackRestores ==
  phase = "rollback" /\ Current.actions = <<>> => val = Current.saved

(* A transaction may remove what it inserted as long as action_remover     *)
(* erases only the last action of the vector: no operation on it throws    *)
(* and its rollback restores the store exactly.  Once an action was erased *)
(* in front of others, the map from ids to indices is stale.               *)
UnshiftedLogRestores ==
  HasTransaction /\ ~Current.shifted =>
    /\ phase # "failed"
    /\ phase = "rollback" /\ Current.actions = <<>> => val = Current.saved

(* The buffer holds the old contents of exactly the update and delete      *)
(* actions, in their order, at every step of a rollback: the first in,     *)
(* first out buffer and the vector never get out of step.                  *)
BufferMatchesActions ==
  \A i \in DOMAIN stack :
    LET undo == SelectSeq(stack[i].actions, LAMBDA a : a.kind # "insert")
    IN  stack[i].buffer = [k \in DOMAIN undo |-> stack[i].saved[undo[k].objs[1]]]

(* No action of a begun transaction refers to a proxy that was deleted:    *)
(* restoring or committing the action would use freed memory.              *)
LogHoldsLiveProxies ==
  \A i \in DOMAIN stack : \A j \in DOMAIN stack[i].actions :
    ToSet(stack[i].actions[j].objs) \cap freed = {}

(* An exception of the undo log never reaches the client: remove() always  *)
(* finds the action of the object, and rollback() always finds the objects *)
(* it has to remove.                                                       *)
NeverFails == phase # "failed"

=============================================================================
