------------------------------ MODULE Scrollback ------------------------------
(***************************************************************************)
(* What a scrollback promises (crates/daemon/src/ring_buffer.rs, its doc   *)
(* comments on RingBuffer and on append): after any number of appends it   *)
(* holds the newest Capacity bytes, in order.  This module says nothing of *)
(* how they are stored; RingBuffer is shown to implement it, and Fanout    *)
(* uses it in place of the ring.                                           *)
(***************************************************************************)
EXTENDS Naturals, Sequences

CONSTANTS
  Capacity,   \* bytes the scrollback keeps
  Chunks      \* the byte sequences one append may be given

VARIABLE kept \* the bytes held, oldest first

\* The newest n elements of s.
Newest(s, n) == IF Len(s) > n THEN SubSeq(s, Len(s) - n + 1, Len(s)) ELSE s

\* What the scrollback holds after `data` is appended to `s`.
AfterAppend(s, data) == Newest(s \o data, Capacity)

Init == kept = <<>>

Next == \E data \in Chunks : kept' = AfterAppend(kept, data)

Spec == Init /\ [][Next]_kept
===============================================================================
