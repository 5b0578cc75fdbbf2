----------------------------- MODULE FanoutLocked -----------------------------
(***************************************************************************)
(* The calls inside Fanout::push and Fanout::attach, one step each, and    *)
(* the mutex around them (crates/daemon/src/fanout.rs).  recv takes no     *)
(* lock.  The refinement to Fanout is the file's claim that attach can     *)
(* never observe a gap or a duplicate, whatever threads the caller uses.   *)
(***************************************************************************)
EXTENDS Fanout

CONSTANTS
  Pusher,  \* the pty loop, as a holder of the lock
  NoOne    \* the lock is free

ASSUME HolderAssumption ==
  Pusher \notin Clients /\ NoOne \notin Clients /\ Pusher # NoOne

VARIABLES
  holder,   \* who holds the mutex
  pushing,  \* how far push has come: idle, locked, appended, sent
  size,     \* the bytes being pushed
  before,   \* history: the scrollback before the push in progress
  attaching, \* how far each client's attach has come: idle, locked, subscribed, done
  fresh     \* the position of the receiver an attach in progress created

lockVars   == <<holder, pushing, size, before, attaching, fresh>>
lockedVars == <<fanoutVars, lockVars>>

-------------------------------------------------------------------------------

LockedInit ==
  /\ new
  /\ holder = NoOne
  /\ pushing = "idle"
  /\ size = 0
  /\ before = <<>>
  /\ attaching = [c \in Clients |-> "idle"]
  /\ fresh = [c \in Clients |-> 0]

pushLock(n) ==
  /\ pushing = "idle" /\ holder = NoOne
  /\ produced + n <= MaxBytes
  /\ holder' = Pusher
  /\ pushing' = "locked"
  /\ size' = n
  /\ before' = ring
  /\ UNCHANGED <<fanoutVars, attaching, fresh>>

\* Faulty variant: the scrollback never lets go of old bytes.
pushAppendKeepsAll ==
  /\ pushing = "locked"
  /\ ring' = ring \o Span(produced, produced + size)
  /\ pushing' = "appended"
  /\ UNCHANGED <<ends, next, got, holder, size, before, attaching, fresh>>

\* Faulty variant: the lock is given up before the chunk is sent.
pushAppendUnlocks ==
  /\ pushing = "locked"
  /\ ring' = Scroll!AfterAppend(ring, Span(produced, produced + size))
  /\ pushing' = "appended"
  /\ holder' = NoOne
  /\ UNCHANGED <<ends, next, got, size, before, attaching, fresh>>

pushAppend ==
  /\ pushing = "locked"
  /\ ring' = Scroll!AfterAppend(ring, Span(produced, produced + size))
  /\ pushing' = "appended"
  /\ UNCHANGED <<ends, next, got, holder, size, before, attaching, fresh>>

pushSend ==
  /\ pushing = "appended"
  /\ ends' = Append(ends, produced + size)
  /\ pushing' = "sent"
  /\ UNCHANGED <<ring, next, got, holder, size, before, attaching, fresh>>

pushUnlock ==
  /\ pushing = "sent"
  /\ pushing' = "idle"
  /\ holder' = NoOne
  /\ size' = 0
  /\ before' = <<>>
  /\ UNCHANGED <<fanoutVars, attaching, fresh>>

\* Faulty variant: attach does not wait for the lock.
attachLockFree(c) ==
  /\ attaching[c] = "idle"
  /\ attaching' = [attaching EXCEPT ![c] = "locked"]
  /\ UNCHANGED <<fanoutVars, holder, pushing, size, before, fresh>>

attachLock(c) ==
  /\ attaching[c] = "idle" /\ holder = NoOne
  /\ attaching' = [attaching EXCEPT ![c] = "locked"]
  /\ holder' = c
  /\ UNCHANGED <<fanoutVars, pushing, size, before, fresh>>

\* Faulty variant: the receiver starts with the last chunk sent.
attachSubscribeEarly(c) ==
  /\ attaching[c] = "locked"
  /\ fresh' = [fresh EXCEPT ![c] = IF ends = <<>> THEN 1 ELSE Len(ends)]
  /\ attaching' = [attaching EXCEPT ![c] = "subscribed"]
  /\ UNCHANGED <<fanoutVars, holder, pushing, size, before>>

attachSubscribe(c) ==
  /\ attaching[c] = "locked"
  /\ fresh' = [fresh EXCEPT ![c] = Len(ends) + 1]
  /\ attaching' = [attaching EXCEPT ![c] = "subscribed"]
  /\ UNCHANGED <<fanoutVars, holder, pushing, size, before>>

attachSnapshot(c) ==
  /\ attaching[c] = "subscribed"
  /\ got' = [got EXCEPT ![c] = ring]
  /\ next' = [next EXCEPT ![c] = fresh[c]]
  /\ fresh' = [fresh EXCEPT ![c] = 0]
  /\ attaching' = [attaching EXCEPT ![c] = "done"]
  /\ UNCHANGED <<ring, ends, holder, pushing, size, before>>

attachUnlock(c) ==
  /\ attaching[c] = "done"
  /\ attaching' = [attaching EXCEPT ![c] = "idle"]
  /\ holder' = NoOne
  /\ UNCHANGED <<fanoutVars, pushing, size, before, fresh>>

\* The rest of the handler's life, while it is not inside attach.
Receiving(c) ==
  /\ attaching[c] = "idle"
  /\ recv(c) \/ lagged(c) \/ detach(c)
  /\ UNCHANGED lockVars

-------------------------------------------------------------------------------

LockedNext ==
  \/ \E n \in 1 .. MaxChunk : pushLock(n)
  \/ pushAppend
  \/ pushSend
  \/ pushUnlock
  \/ \E c \in Clients :
       \/ attachLock(c)
       \/ attachSubscribe(c)
       \/ attachSnapshot(c)
       \/ attachUnlock(c)
       \/ Receiving(c)

LockedSpec == LockedInit /\ [][LockedNext]_lockedVars

-------------------------------------------------------------------------------

\* At most one caller is between lock and unlock, and it is the holder.
MutualExclusion ==
  /\ pushing # "idle" <=> holder = Pusher
  /\ \A c \in Clients : attaching[c] # "idle" <=> holder = c

\* A push takes effect, for those outside the lock, when its chunk is sent.
visibleRing == IF pushing = "appended" THEN before ELSE ring

Atomic == INSTANCE Fanout WITH ring <- visibleRing

\* With the mutex, push and attach behave as the single steps of Fanout.
ImplementsFanout == Atomic!Spec
===============================================================================
