----------------------------- MODULE ByteBuffer -----------------------------
(***************************************************************************)
(* byte_buffer: src/src/utils/byte_buffer.cpp and                          *)
(* src/include/matador/utils/byte_buffer.hpp.                              *)
(*                                                                         *)
(* A list of chunks of BUF_SIZE bytes.  append() fills the last chunk and  *)
(* adds new ones, release() drains the first chunk and drops it.  One step *)
(* is one round of their loops.  The bytes a chunk was written up to its   *)
(* write cursor are a sequence; the cursor is the length.                  *)
(***************************************************************************)
EXTENDS Naturals, Sequences, SequencesExt

CONSTANTS
  Bytes,
  BUF_SIZE,   \* bytes of a chunk
  MaxBytes    \* bound: bytes in the buffer

ASSUME BufferAssumption == BUF_SIZE \in Nat \ {0} /\ MaxBytes \in Nat

VARIABLES
  chunks,     \* chunk_list_
  pc,         \* "idle", "append" or "release"
  pending,    \* append(): the bytes still to be copied
  size,       \* release(): the number of bytes still to be copied
  bytes,      \* release(): the bytes copied so far
  released    \* the bytes of the last completed release()

vars == <<chunks, pc, pending, size, bytes, released>>

Chunk == [data : Seq(Bytes), read_cursor : 0..BUF_SIZE]

TypeOK ==
  /\ chunks \in Seq(Chunk)
  /\ \A i \in DOMAIN chunks : Len(chunks[i].data) <= BUF_SIZE
  /\ pc \in {"idle", "append", "release"}
  /\ {pending, bytes, released} \subseteq Seq(Bytes)
  /\ size \in Nat

EmptyChunk == [data |-> <<>>, read_cursor |-> 0]

Init ==
  /\ chunks = <<EmptyChunk>>
  /\ pc = "idle"
  /\ pending = <<>>
  /\ size = 0
  /\ bytes = <<>>
  /\ released = <<>>

Available(c) == BUF_SIZE - Len(c.data)
Used(c) == Len(c.data) - c.read_cursor
Unread(c) == SubSeq(c.data, c.read_cursor + 1, Len(c.data))

(* Mutant: size() forgets what was released from the first chunk.          *)
SizeForgetsReleased == Len(chunks) * BUF_SIZE - Available(Last(chunks))

(* size()                                                                  *)
Size ==
  Len(chunks) * BUF_SIZE - Available(Last(chunks)) - Head(chunks).read_cursor

Stored == FlattenSeq([i \in DOMAIN chunks |-> Unread(chunks[i])])

Write(bs) == Front(chunks) \o <<[Last(chunks) EXCEPT !.data = @ \o bs]>>

-----------------------------------------------------------------------------
(* append()                                                                *)

CallAppend(bs) ==
  /\ pc = "idle"
  /\ Size + Len(bs) <= MaxBytes
  /\ pc' = "append"
  /\ pending' = bs
  /\ UNCHANGED <<chunks, size, bytes, released>>

(* Mutant: off by one, the last byte is written behind the chunk.          *)
FillsChunkLate == Available(Last(chunks)) + 1 < Len(pending)

FillsChunk == Available(Last(chunks)) < Len(pending)

AppendFills ==
  /\ pc = "append" /\ FillsChunk
  /\ LET n == Available(Last(chunks)) IN
       /\ chunks' = Append(Write(SubSeq(pending, 1, n)), EmptyChunk)
       /\ pending' = SubSeq(pending, n + 1, Len(pending))
  /\ UNCHANGED <<pc, size, bytes, released>>

AppendReturns ==
  /\ pc = "append" /\ ~FillsChunk
  /\ chunks' = Write(pending)
  /\ pending' = <<>>
  /\ pc' = "idle"
  /\ UNCHANGED <<size, bytes, released>>

-----------------------------------------------------------------------------
(* release(): a client takes out at most what it has put in.               *)

CallRelease(n) ==
  /\ pc = "idle"
  /\ n <= Size
  /\ pc' = "release"
  /\ size' = n
  /\ bytes' = <<>>
  /\ UNCHANGED <<chunks, pending, released>>

DrainsChunk == chunks # <<>> /\ Used(Head(chunks)) <= size

ReleaseDrains ==
  /\ pc = "release" /\ DrainsChunk
  /\ bytes' = bytes \o Unread(Head(chunks))
  /\ size' = size - Used(Head(chunks))
  /\ chunks' = Tail(chunks)
  /\ UNCHANGED <<pc, pending, released>>

(* Mutant: the read cursor is set to the bytes of this call.               *)
AdvanceSets(c) == [c EXCEPT !.read_cursor = size]

Advance(c) == [c EXCEPT !.read_cursor = @ + size]

ReleaseReturns ==
  /\ pc = "release" /\ ~DrainsChunk
  /\ released' = IF size = 0 THEN bytes
                 ELSE bytes \o SubSeq(Unread(Head(chunks)), 1, size)
  /\ chunks' = IF chunks = <<>> THEN <<EmptyChunk>>
               ELSE <<Advance(Head(chunks))>> \o Tail(chunks)
  /\ size' = 0
  /\ bytes' = <<>>
  /\ pc' = "idle"
  /\ UNCHANGED pending

Clear ==
  /\ pc = "idle"
  /\ chunks' = <<EmptyChunk>>
  /\ UNCHANGED <<pc, pending, size, bytes, released>>

Next ==
  \/ \E n \in 0..MaxBytes : \E bs \in [1..n -> Bytes] : CallAppend(bs)
  \/ AppendFills \/ AppendReturns
  \/ \E n \in 0..MaxBytes : CallRelease(n)
  \/ ReleaseDrains \/ ReleaseReturns
  \/ Clear

Spec == Init /\ [][Next]_vars

-----------------------------------------------------------------------------
(* Properties.                                                             *)

(* size() is the number of bytes that were appended and not released,      *)
(* whatever the chunk boundaries and the read cursor are.                  *)
SizeIsExact == pc = "idle" => Size = Len(Stored)

(* release() never meets a list without a chunk when it still has bytes to *)
(* copy: chunk_list_.front() would be undefined.                           *)
FrontExists == pc = "release" /\ size > 0 => chunks # <<>>

(* byte_buffer is a queue of bytes: appended bytes count from the call of  *)
(* append() on, released bytes until release() returns.                    *)
Queue == INSTANCE ByteQueue WITH
  content <- bytes \o Stored \o pending, released <- released
IsQueue == Queue!Spec

(* "The bytes are appended and released from the end of the buffer."       *)
(* (byte_buffer.hpp): release() hands out the bytes appended last.         *)
ReleasesFromEnd ==
  [][pc = "release" /\ pc' = "idle" =>
       released' = SubSeq(bytes \o Stored,
                          1 + Len(bytes \o Stored) - Len(released'), Len(bytes \o Stored))]_vars

=============================================================================
