--------------------------- MODULE PrototypeTree ----------------------------
(***************************************************************************)
(* The prototype tree of the object store and the object lists its nodes   *)
(* share:                                                                  *)
(*   src/src/object/prototype_node.cpp                                     *)
(*   src/src/object/object_store.cpp   attach_node, detach, clear, insert, *)
(*                                     remove, remove_prototype_node       *)
(*   src/src/object/object_proxy.cpp   link, unlink                        *)
(*                                                                         *)
(* All nodes below one root keep their objects in one doubly linked list.  *)
(* A node sees its part of the list through three pointers into it:        *)
(* op_first (before its first object), op_marker (behind its own objects)  *)
(* and op_last (behind the objects of its subtree).  Inserting, removing   *)
(* and clearing move the pointers of other nodes too.  A list is modelled  *)
(* as the sequence of its proxies, sentinels included.                     *)
(***************************************************************************)
EXTENDS Naturals, FiniteSets, Sequences, SequencesExt, FiniteSetsExt

CONSTANTS
  Nodes,       \* prototype nodes (types)
  Objects,     \* object proxies; each is inserted at most once at a time
  NoNode,
  MaxDepth     \* bound: depth of the tree

ASSUME PrototypeAssumption ==
  /\ IsFiniteSet(Nodes) /\ IsFiniteSet(Objects)
  /\ NoNode \notin Nodes
  /\ MaxDepth \in Nat

VARIABLES
  nodes,       \* the attached nodes in the order of next_node()
  parent,      \* parent of a node
  depth,       \* depth of a node
  s,           \* the lists, the three pointers and the counter of each node
  node,        \* the node an object was inserted into
  objectMap    \* the objects of object_map_

vars == <<nodes, parent, depth, s, node, objectMap>>

OpFirst(root) == <<"first", root>>
OpLast(root) == <<"last", root>>
Proxies == Objects \cup {OpFirst(n) : n \in Nodes} \cup {OpLast(n) : n \in Nodes}

Attached == ToSet(nodes)

TypeOK ==
  /\ nodes \in Seq(Nodes) /\ IsInjective(nodes)
  /\ parent \in [Nodes -> Nodes \cup {NoNode}]
  /\ depth \in [Nodes -> 0..MaxDepth]
  /\ \A n \in Attached :
       /\ s.list[n] \in Seq(Proxies)
       /\ {s.first[n], s.marker[n], s.last[n]} \subseteq Proxies
       /\ s.count[n] \in Nat
  /\ node \in [Objects -> Nodes \cup {NoNode}]
  /\ objectMap \subseteq Objects

Init ==
  /\ nodes = <<>>
  /\ parent = [n \in Nodes |-> NoNode]
  /\ depth = [n \in Nodes |-> 0]
  /\ s = [list   |-> [n \in Nodes |-> <<>>],
          first  |-> [n \in Nodes |-> OpFirst(n)],
          marker |-> [n \in Nodes |-> OpLast(n)],
          last   |-> [n \in Nodes |-> OpLast(n)],
          count  |-> [n \in Nodes |-> 0]]
  /\ node = [o \in Objects |-> NoNode]
  /\ objectMap = {}

-----------------------------------------------------------------------------
(* The tree.                                                               *)

Root(n) ==
  LET up[m \in Nodes] == IF parent[m] = NoNode THEN m ELSE up[parent[m]] IN up[n]

IsChildOf(n, p) ==
  LET up[m \in Nodes] == m = p \/ (parent[m] # NoNode /\ up[parent[m]]) IN up[n]

Subtree(n) == {m \in Attached : IsChildOf(m, n)}

Place(n) == CHOOSE i \in DOMAIN nodes : nodes[i] = n

\* m is on the way of previous_node() (next_node()) from n.
Predecessor(m, n) == m \in Attached /\ Place(m) < Place(n)
Successor(m, n)   == m \in Attached /\ Place(m) > Place(n)

-----------------------------------------------------------------------------
(* The lists.                                                              *)

PosIn(list, p) == CHOOSE i \in DOMAIN list : list[i] = p
NextOf(list, p) == list[PosIn(list, p) + 1]
PrevOf(list, p) == list[PosIn(list, p) - 1]

\* object_proxy::link()
LinkBefore(list, successor, p) == InsertAt(list, PosIn(list, successor), p)

Between(list, p, q) == ToSet(SubSeq(list, PosIn(list, p) + 1, PosIn(list, q) - 1))

\* Mutant: moves op_last of every predecessor, its ancestors included.
AdjustLeftMarkerAll(t, n, old, new) ==
  [t EXCEPT !.marker = [m \in Nodes |-> IF Predecessor(m, n) /\ t.marker[m] = old THEN new ELSE t.marker[m]],
            !.last   = [m \in Nodes |-> IF Predecessor(m, n) /\ t.last[m] = old THEN new ELSE t.last[m]]]

AdjustLeftMarker(t, n, old, new) ==
  [t EXCEPT !.marker = [m \in Nodes |-> IF Predecessor(m, n) /\ t.marker[m] = old THEN new ELSE t.marker[m]],
            !.last   = [m \in Nodes |-> IF /\ Predecessor(m, n) /\ t.last[m] = old
                                           /\ depth[m] >= depth[n]
                                        THEN new ELSE t.last[m]]]

\* Mutant: the successors are not visited.
AdjustRightMarkerNone(t, n, old, new) == t

AdjustRightMarker(t, n, old, new) ==
  [t EXCEPT !.first = [m \in Nodes |-> IF Successor(m, n) /\ t.first[m] = old THEN new ELSE t.first[m]]]

\* Mutant: an object that becomes the first of its node is not counted.
InsertProxyUncounted(t, n, o) ==
  LET r      == Root(n)
      linked == [t EXCEPT !.list[r] = LinkBefore(@, t.marker[n], o)]
      left   == AdjustLeftMarker(linked, n, t.marker[n], o)
  IN AdjustRightMarker(left, n, PrevOf(linked.list[r], o), o)

\* prototype_node::insert(object_proxy*): before the last own object, as first object,
\* or as only object, with the pointers of the neighbours adjusted.
InsertProxy(t, n, o) ==
  LET r      == Root(n)
      before == IF t.count[n] = 0 THEN t.marker[n] ELSE PrevOf(t.list[r], t.marker[n])
      linked == [t EXCEPT !.list[r] = LinkBefore(@, before, o)]
      left   == IF t.count[n] < 2 THEN AdjustLeftMarker(linked, n, before, o) ELSE linked
      right  == IF t.count[n] = 0
                THEN AdjustRightMarker(left, n, PrevOf(linked.list[r], o), o)
                ELSE left
  IN [right EXCEPT !.count[n] = @ + 1]

\* prototype_node::remove()
RemoveProxy(t, n, o) ==
  LET list  == t.list[Root(n)]
      left  == IF o = NextOf(list, t.first[n])
               THEN AdjustLeftMarker(t, n, o, NextOf(list, o)) ELSE t
      right == IF o = PrevOf(list, left.marker[n])
               THEN AdjustRightMarker(left, n, o, PrevOf(list, o)) ELSE left
  IN [right EXCEPT !.list[Root(n)] = Remove(list, o), !.count[n] = @ - 1]

\* prototype_node::clear(false)
ClearNode(t, n) ==
  LET r     == Root(n)
      list  == t.list[r]
      left  == AdjustLeftMarker(t, n, NextOf(list, t.first[n]), t.marker[n])
      right == AdjustRightMarker(left, n, PrevOf(list, t.marker[n]), t.first[n])
      own   == Between(list, t.first[n], t.marker[n])
  IN IF own = {} THEN t
     ELSE [right EXCEPT !.list[r] = SelectSeq(@, LAMBDA p : p \notin own), !.count[n] = 0]

-----------------------------------------------------------------------------
(* The operations of the object store.                                     *)

AttachRoot(n) ==
  /\ n \notin Attached
  /\ nodes' = Append(nodes, n)
  /\ parent' = [parent EXCEPT ![n] = NoNode]
  /\ depth' = [depth EXCEPT ![n] = 0]
  /\ s' = [s EXCEPT !.list[n] = <<OpFirst(n), OpLast(n)>>, !.first[n] = OpFirst(n),
                    !.marker[n] = OpLast(n), !.last[n] = OpLast(n), !.count[n] = 0]
  /\ UNCHANGED <<node, objectMap>>

\* The op_first of a child attached to p: behind what the parent's subtree holds.
ChildFirst(p) ==
  LET list == s.list[Root(p)]
  IN IF NextOf(list, s.first[p]) = s.last[p] THEN s.first[p] ELSE PrevOf(list, s.last[p])

AttachChild(n, p) ==
  /\ n \notin Attached /\ p \in Attached
  /\ depth[p] < MaxDepth
  /\ nodes' = InsertAt(nodes, 1 + Max({Place(m) : m \in Subtree(p)}), n)
  /\ parent' = [parent EXCEPT ![n] = p]
  /\ depth' = [depth EXCEPT ![n] = depth[p] + 1]
  /\ s' = [s EXCEPT !.first[n] = ChildFirst(p), !.marker[n] = s.last[p],
                    !.last[n] = s.last[p], !.count[n] = 0]
  /\ UNCHANGED <<node, objectMap>>

Insert(o, n) ==
  /\ n \in Attached /\ node[o] = NoNode /\ o \notin objectMap
  /\ s' = InsertProxy(s, n, o)
  /\ node' = [node EXCEPT ![o] = n]
  /\ objectMap' = objectMap \cup {o}
  /\ UNCHANGED <<nodes, parent, depth>>

\* remove(): throws before it changes the list when the map does not know the object.
RemoveObject(o) ==
  /\ node[o] # NoNode /\ o \in objectMap
  /\ s' = RemoveProxy(s, node[o], o)
  /\ node' = [node EXCEPT ![o] = NoNode]
  /\ objectMap' = objectMap \ {o}
  /\ UNCHANGED <<nodes, parent, depth>>

\* clear(false): every node in order, then the map.
ClearObjects ==
  /\ nodes # <<>>
  /\ s' = FoldLeft(ClearNode, s, nodes)
  /\ node' = [o \in Objects |-> NoNode]
  /\ objectMap' = {}
  /\ UNCHANGED <<nodes, parent, depth>>

\* Children before their parent, first child first.
PostOrder(n) ==
  LET post[m \in Nodes] ==
        FlattenSeq([i \in 1..Len(SelectSeq(nodes, LAMBDA c : parent[c] = m)) |->
                      post[SelectSeq(nodes, LAMBDA c : parent[c] = m)[i]]]) \o <<m>>
  IN post[n]

\* detach(): remove_prototype_node() clears and deletes the subtree.  object_map_ is
\* left as it is.
Detach(n) ==
  /\ n \in Attached
  /\ s' = FoldLeft(ClearNode, s, PostOrder(n))
  /\ nodes' = SelectSeq(nodes, LAMBDA m : m \notin Subtree(n))
  /\ node' = [o \in Objects |-> IF node[o] \in Subtree(n) THEN NoNode ELSE node[o]]
  /\ UNCHANGED <<parent, depth, objectMap>>

Next ==
  \/ \E n \in Nodes : AttachRoot(n) \/ Detach(n)
  \/ \E n, p \in Nodes : AttachChild(n, p)
  \/ \E o \in Objects, n \in Nodes : Insert(o, n)
  \/ \E o \in Objects : RemoveObject(o)
  \/ ClearObjects

Spec == Init /\ [][Next]_vars

\* clear(type) of a node with children (without children it is detach()).  When the
\* last child is gone, next_node() of it leaves the subtree, the loop misses its end
\* and goes on with the nodes that follow.  Every leaf it meets is detached, the
\* other nodes wait in the recursion, and at the sentinel last_ the process dies.
ClearType(n) ==
  LET gone == SelectSeq(nodes, LAMBDA m : Successor(m, n) /\ Subtree(m) = {m})
  IN /\ n \in Attached /\ Subtree(n) # {n}
     /\ s' = FoldLeft(ClearNode, s, gone)
     /\ nodes' = SelectSeq(nodes, LAMBDA m : m \notin ToSet(gone))
     /\ node' = [o \in Objects |-> IF node[o] \in ToSet(gone) THEN NoNode ELSE node[o]]
     /\ UNCHANGED <<parent, depth, objectMap>>

ClearSpec == Init /\ [][Next \/ \E n \in Nodes : ClearType(n)]_vars

-----------------------------------------------------------------------------
(* Properties.                                                             *)

ObjectsOf(ns) == {o \in Objects : node[o] \in ns}

\* The own part of a node's list, from op_first to op_marker, holds exactly the
\* objects inserted into it, whatever was done to the other nodes of the tree.
OwnObjects ==
  \A n \in Attached : Between(s.list[Root(n)], s.first[n], s.marker[n]) = ObjectsOf({n})

\* The whole part of a node's list, from op_first to op_last, holds the objects of
\* this node and of all nodes below it and nothing else: an object view of a
\* type never meets an object of another one.
SubtreeObjects ==
  \A n \in Attached : Between(s.list[Root(n)], s.first[n], s.last[n]) = ObjectsOf(Subtree(n))

\* size() is the number of own objects.
CountMatches ==
  \A n \in Attached : s.count[n] = Cardinality(ObjectsOf({n}))

\* Every object the store can look up by its id is in the list of some node.
MappedObjectsLive ==
  \A o \in objectMap : node[o] # NoNode

\* clear(type) "clears a prototype node and its children nodes" (object_store.hpp):
\* the objects of all other nodes stay where they are.
ClearStaysInSubtree ==
  [][\A n \in Nodes : ClearType(n) =>
       \A o \in Objects : node[o] \notin Subtree(n) => node'[o] = node[o]]_vars

=============================================================================
