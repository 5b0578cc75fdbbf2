-------------------------------- MODULE Fanout --------------------------------
(***************************************************************************)
(* crates/daemon/src/fanout.rs as its documentation promises it: push and  *)
(* attach are each one step.  FanoutLocked has their separate calls and    *)
(* the mutex, and is shown to implement this module.                       *)
(*                                                                         *)
(* The n-th byte the child ever wrote is represented by the number n, so a *)
(* repeated, missing or misplaced byte can be told apart.                  *)
(***************************************************************************)
EXTENDS Naturals, Sequences

CONSTANTS
  Clients,    \* the handler tasks that may attach
  RingCap,    \* bytes of scrollback
  BcastCap,   \* chunks the broadcast channel retains
  MaxChunk,   \* most bytes of one pty read
  MaxBytes    \* bound: bytes the child writes in all

ASSUME RingCapAssumption  == RingCap \in Nat \ {0}
ASSUME BcastCapAssumption == BcastCap \in Nat \ {0}
ASSUME BoundAssumption    == MaxChunk \in Nat /\ MaxBytes \in Nat

VARIABLES
  ring,   \* scrollback contents, oldest first
  ends,   \* for each chunk sent to the channel, the number of its last byte
  next,   \* for each client, the chunk its receiver takes next; 0: no receiver
  got     \* for each client, the bytes it was given since it attached

fanoutVars == <<ring, ends, next, got>>

Scroll == INSTANCE Scrollback WITH Capacity <- RingCap, Chunks <- {}, kept <- ring

\* Bytes a+1 to b.
Span(a, b) == [i \in 1 .. b - a |-> a + i]

\* The number of the last byte of chunk k.
EndOf(k) == IF k = 0 THEN 0 ELSE ends[k]

produced == EndOf(Len(ends))

chunk(k) == Span(EndOf(k - 1), EndOf(k))

-------------------------------------------------------------------------------

new ==
  /\ ring = <<>>
  /\ ends = <<>>
  /\ next = [c \in Clients |-> 0]
  /\ got = [c \in Clients |-> <<>>]

\* The next n bytes go into the scrollback and to every receiver.
push(n) ==
  /\ produced + n <= MaxBytes
  /\ ring' = Scroll!AfterAppend(ring, Span(produced, produced + n))
  /\ ends' = Append(ends, produced + n)
  /\ UNCHANGED <<next, got>>

\* A subscription and a snapshot; any earlier receiver of c is replaced.
attach(c) ==
  /\ next' = [next EXCEPT ![c] = Len(ends) + 1]
  /\ got' = [got EXCEPT ![c] = ring]
  /\ UNCHANGED <<ring, ends>>

\* The channel has overwritten the chunk that c would take next.
Lags(c) == next[c] + BcastCap <= Len(ends)

\* Faulty variant: tokio's own recovery, to carry on at the oldest chunk kept.
laggedSkips(c) ==
  /\ next[c] # 0
  /\ Lags(c)
  /\ next' = [next EXCEPT ![c] = Len(ends) - BcastCap + 1]
  /\ UNCHANGED <<ring, ends, got>>

recv(c) ==
  /\ next[c] \in 1 .. Len(ends)
  /\ ~Lags(c)
  /\ got' = [got EXCEPT ![c] = @ \o chunk(next[c])]
  /\ next' = [next EXCEPT ![c] = @ + 1]
  /\ UNCHANGED <<ring, ends>>

\* A lagged receiver's client is disconnected.
lagged(c) ==
  /\ next[c] # 0
  /\ Lags(c)
  /\ next' = [next EXCEPT ![c] = 0]
  /\ UNCHANGED <<ring, ends, got>>

\* The receiver is dropped: a Detach message, or the connection's end.
detach(c) ==
  /\ next[c] # 0
  /\ next' = [next EXCEPT ![c] = 0]
  /\ UNCHANGED <<ring, ends, got>>

-------------------------------------------------------------------------------

Init == new

Next ==
  \/ \E n \in 1 .. MaxChunk : push(n)
  \/ \E c \in Clients : attach(c) \/ recv(c) \/ lagged(c) \/ detach(c)

Spec == Init /\ [][Next]_fanoutVars

-------------------------------------------------------------------------------

\* The scrollback stays within its capacity, and positions and views are
\* sequences of byte numbers.
TypeOK ==
  /\ ring \in Seq(Nat) /\ Len(ring) <= RingCap
  /\ ends \in Seq(Nat)
  /\ next \in [Clients -> Nat]
  /\ got \in [Clients -> Seq(Nat)]

\* What a client has been given is one unbroken run of the child's output:
\* no byte missing inside it, none twice, none out of order.
ViewContiguous ==
  \A c \in Clients : \A i \in 1 .. Len(got[c]) - 1 : got[c][i + 1] = got[c][i] + 1

\* The last byte of a client's view; 0 when it has seen nothing.
LastSeen(c) == IF got[c] = <<>> THEN 0 ELSE got[c][Len(got[c])]

\* A client with a receiver has been given every byte up to the chunk the
\* receiver takes next: nothing falls between the snapshot and the channel,
\* and a chunk it was too slow for ends the connection, never a silent skip.
ViewReachesCursor ==
  \A c \in Clients : next[c] # 0 => LastSeen(c) = EndOf(next[c] - 1)
===============================================================================
