----------------------------- MODULE ByteQueue ------------------------------
(***************************************************************************)
(* What byte_buffer (src/src/utils/byte_buffer.cpp) promises to the        *)
(* transactions that keep old contents in it: a queue of bytes.  The sizes *)
(* of append() and release() calls need not match.                         *)
(***************************************************************************)
EXTENDS Naturals, Sequences, SequencesExt

VARIABLES
  content,   \* bytes appended and not yet released
  released   \* bytes handed out by the last release()

Init ==
  /\ content = <<>>
  /\ released = <<>>

Enqueue ==
  /\ IsPrefix(content, content')
  /\ UNCHANGED released

Release(n) ==
  /\ released' = SubSeq(content, 1, n)
  /\ content' = SubSeq(content, n + 1, Len(content))

Clear ==
  /\ content' = <<>>
  /\ UNCHANGED released

Next ==
  \/ Enqueue
  \/ \E n \in 0..Len(content) : Release(n)
  \/ Clear

Spec == Init /\ [][Next]_<<content, released>>

=============================================================================
