------------------------------ MODULE RingBuffer ------------------------------
(***************************************************************************)
(* The daemon's scrollback ring, crates/daemon/src/ring_buffer.rs: a fixed *)
(* array, the physical index of the oldest byte and the number of valid    *)
(* bytes.  The code wraps an index with `& (capacity - 1)`, which is       *)
(* `% capacity` because `new` asserts that the capacity is a power of two; *)
(* MCRingBuffer checks that equality for the capacity it uses.             *)
(***************************************************************************)
EXTENDS Naturals, Sequences

CONSTANTS
  Capacity,   \* length of the backing array
  Byte,       \* the values a byte may take
  Zero,       \* the byte a fresh array is filled with
  Chunks      \* the byte sequences one append may be given

ASSUME CapacityAssumption == Capacity \in Nat \ {0}
ASSUME ByteAssumption     == Zero \in Byte
ASSUME ChunksAssumption   == Chunks \subseteq Seq(Byte)

VARIABLES
  buf,   \* the backing array
  head,  \* physical index of the oldest valid byte
  len    \* number of valid bytes

vars == <<buf, head, len>>

Index == 0 .. Capacity - 1

Wrap(i) == i % Capacity

SmallerOf(a, b) == IF a < b THEN a ELSE b

\* The newest n elements of s; append keeps only that of an oversized input.
Newest(s, n) == IF Len(s) > n THEN SubSeq(s, Len(s) - n + 1, Len(s)) ELSE s

-------------------------------------------------------------------------------

new ==
  /\ buf = [p \in Index |-> Zero]
  /\ head = 0
  /\ len = 0

\* Faulty variant: the second copy, to the start of the array, is forgotten.
CopiedInOnce(d, at) ==
  [p \in Index |-> IF p >= at /\ p < at + Len(d) THEN d[p - at + 1] ELSE buf[p]]

\* The array after d (at most Capacity bytes) is copied in at `at`: the first
\* copy runs to the end of the array at most, the second wraps to its start.
CopiedIn(d, at) ==
  LET firstLen == SmallerOf(Capacity - at, Len(d))
  IN  [p \in Index |->
         IF p >= at /\ p < at + firstLen THEN d[p - at + 1]
         ELSE IF p < Len(d) - firstLen THEN d[firstLen + p + 1]
         ELSE buf[p]]

\* Faulty variant: the length is not capped on overflow.
appendUncapped(data) ==
  LET d        == Newest(data, Capacity)
      writePos == Wrap(head + len)
  IN  /\ data # <<>>
      /\ buf' = CopiedIn(d, writePos)
      /\ head' = IF len + Len(d) > Capacity THEN Wrap(writePos + Len(d)) ELSE head
      /\ len' = len + Len(d)

\* Faulty variant: the new head is not wrapped.
appendHeadUnwrapped(data) ==
  LET d        == Newest(data, Capacity)
      writePos == Wrap(head + len)
  IN  /\ data # <<>>
      /\ buf' = CopiedIn(d, writePos)
      /\ IF len + Len(d) > Capacity
         THEN head' = writePos + Len(d) /\ len' = Capacity
         ELSE head' = head /\ len' = len + Len(d)

append(data) ==
  LET d        == Newest(data, Capacity)
      writePos == Wrap(head + len)
  IN  /\ data # <<>>
      /\ buf' = CopiedIn(d, writePos)
      /\ IF len + Len(d) > Capacity
         THEN head' = Wrap(writePos + Len(d)) /\ len' = Capacity
         ELSE head' = head /\ len' = len + Len(d)

\* The early return on empty input.
appendNothing(data) == data = <<>> /\ UNCHANGED vars

\* What a reattaching client is sent: the valid bytes, oldest first.
snapshot == [i \in 1 .. len |-> buf[Wrap(head + i - 1)]]

-------------------------------------------------------------------------------

Init == new

Next == \E data \in Chunks : append(data) \/ appendNothing(data)

Spec == Init /\ [][Next]_vars

-------------------------------------------------------------------------------

\* The head is a valid index and the length never passes the capacity, so
\* every index computed from them stays inside the array.
TypeOK ==
  /\ buf \in [Index -> Byte]
  /\ head \in Index
  /\ len \in 0 .. Capacity

Promise == INSTANCE Scrollback WITH kept <- snapshot

\* append's doc comment, per input: whatever mix of wrapping, overwriting and
\* oversized appends came before, the snapshot after append(data) is the
\* newest Capacity bytes of the snapshot before it followed by data.
AppendKeepsNewest ==
  [][\A data \in Chunks :
       append(data) => snapshot' = Promise!AfterAppend(snapshot, data)]_vars

\* The ring implements the scrollback: it starts empty and every change of
\* snapshot() is one the abstract scrollback can make.
ImplementsScrollback == Promise!Spec
===============================================================================
