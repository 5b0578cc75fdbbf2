--------------------------- MODULE RingBufferProofs ---------------------------
(***************************************************************************)
(* For every capacity and every input: the ring's indices stay inside the  *)
(* array, and the ring implements the scrollback.                          *)
(***************************************************************************)
EXTENDS RingBuffer, TLAPS

\* Wrapping, for the indices the code forms: all are below three capacities.
LEMMA WrapCases ==
  ASSUME NEW i \in Nat
  PROVE  /\ Wrap(i) \in Index
         /\ i < Capacity => Wrap(i) = i
         /\ (Capacity <= i /\ i < 2 * Capacity) => Wrap(i) = i - Capacity
         /\ (2 * Capacity <= i /\ i < 3 * Capacity) => Wrap(i) = i - 2 * Capacity
BY CapacityAssumption DEF Wrap, Index

\* Wrapping a sum of which one term is already wrapped.
LEMMA WrapSum ==
  ASSUME NEW i \in Nat, i < 2 * Capacity, NEW j \in Nat, i + j < 3 * Capacity
  PROVE  Wrap(Wrap(i) + j) = Wrap(i + j)
<1> USE CapacityAssumption
<1>1. Wrap(i) \in Nat /\ Wrap(i) + j < 3 * Capacity
  BY WrapCases DEF Index
<1>2. CASE i < Capacity
  BY <1>2, WrapCases
<1>3. CASE i >= Capacity
  <2>1. Wrap(i) + j = i + j - Capacity
    BY <1>3, WrapCases
  <2>2. CASE i + j < 2 * Capacity
    BY <1>1, <1>3, <2>1, <2>2, WrapCases
  <2>3. CASE i + j >= 2 * Capacity
    BY <1>1, <1>3, <2>1, <2>3, WrapCases
  <2>4. QED
    BY <2>2, <2>3
<1>4. QED
  BY <1>2, <1>3

\* The newest n elements of s, element by element.
LEMMA NewestElements ==
  ASSUME NEW S, NEW s \in Seq(S), NEW n \in Nat
  PROVE  LET t == Newest(s, n)
         IN  /\ t \in Seq(S)
             /\ Len(t) = SmallerOf(n, Len(s))
             /\ \A i \in 1 .. Len(t) : t[i] = s[Len(s) - Len(t) + i]
<1>1. CASE Len(s) > n
  <2>1. Newest(s, n) = SubSeq(s, Len(s) - n + 1, Len(s))
    BY <1>1 DEF Newest
  <2>2. /\ SubSeq(s, Len(s) - n + 1, Len(s)) \in Seq(S)
        /\ Len(SubSeq(s, Len(s) - n + 1, Len(s))) = n
        /\ \A i \in 1 .. n :
             SubSeq(s, Len(s) - n + 1, Len(s))[i] = s[Len(s) - n + i]
    BY <1>1
  <2>3. QED
    BY <1>1, <2>1, <2>2 DEF SmallerOf
<1>2. CASE Len(s) <= n
  <2>1. Newest(s, n) = s /\ SmallerOf(n, Len(s)) = Len(s)
    BY <1>2 DEF Newest, SmallerOf
  <2>2. \A i \in 1 .. Len(s) : Len(s) - Len(s) + i = i
    OBVIOUS
  <2>3. QED
    BY <2>1, <2>2
<1>3. QED
  BY <1>1, <1>2

\* The two copies of append put d in the Len(d) slots from `at` on, in order
\* and wrapping, and leave the other slots alone.
LEMMA CopiedInElements ==
  ASSUME buf \in [Index -> Byte],
         NEW d \in Seq(Byte), Len(d) <= Capacity,
         NEW at \in Index
  PROVE  /\ CopiedIn(d, at) \in [Index -> Byte]
         /\ \A k \in 1 .. Capacity :
              CopiedIn(d, at)[Wrap(at + k - 1)]
                = IF k <= Len(d) THEN d[k] ELSE buf[Wrap(at + k - 1)]
<1> USE CapacityAssumption
<1>1. at \in Nat /\ at < Capacity /\ Len(d) \in Nat
  BY DEF Index
<1>2. CopiedIn(d, at) \in [Index -> Byte]
  <2>1. ASSUME NEW p \in Index
        PROVE  CopiedIn(d, at)[p] \in Byte
    BY <1>1, <2>1 DEF CopiedIn, SmallerOf, Index
  <2>2. QED
    BY <2>1 DEF CopiedIn
<1>3. ASSUME NEW k \in 1 .. Capacity
      PROVE  CopiedIn(d, at)[Wrap(at + k - 1)]
               = IF k <= Len(d) THEN d[k] ELSE buf[Wrap(at + k - 1)]
  <2>1. at + k - 1 \in Nat /\ at + k - 1 < 2 * Capacity
    BY <1>1
  <2>2. Wrap(at + k - 1) \in Index
    BY <2>1, WrapCases
  <2>3. CASE at + k - 1 < Capacity
    <3>1. Wrap(at + k - 1) = at + k - 1
      BY <2>1, <2>3, WrapCases
    <3>2. QED
      BY <1>1, <2>2, <3>1 DEF CopiedIn, SmallerOf, Index
  <2>4. CASE at + k - 1 >= Capacity
    <3>1. Wrap(at + k - 1) = at + k - 1 - Capacity
      BY <1>1, <2>1, <2>4, WrapCases
    <3>2. QED
      BY <1>1, <2>2, <3>1, <2>4 DEF CopiedIn, SmallerOf, Index
  <2>5. QED
    BY <1>1, <2>3, <2>4
<1>4. QED
  BY <1>2, <1>3

-------------------------------------------------------------------------------

\* One append, as arithmetic on the ring's three variables: `dropped` bytes
\* leave at the old end, and position q of the old contents followed by the
\* new ones is found `q - 1` slots after the old head.
LEMMA AppendElements ==
  ASSUME TypeOK, NEW data \in Chunks, append(data)
  PROVE  LET d       == Newest(data, Capacity)
             dropped == len + Len(d) - len'
         IN  /\ TypeOK'
             /\ d \in Seq(Byte)
             /\ Len(d) = SmallerOf(Capacity, Len(data))
             /\ len' = SmallerOf(Capacity, len + Len(d))
             /\ \A q \in dropped + 1 .. len + Len(d) :
                  buf'[Wrap(head' + q - dropped - 1)]
                    = IF q <= len THEN buf[Wrap(head + q - 1)] ELSE d[q - len]
<1> DEFINE d        == Newest(data, Capacity)
           writePos == Wrap(head + len)
           dropped  == len + Len(d) - len'
<1> USE CapacityAssumption
<1>1. data \in Seq(Byte)
  BY ChunksAssumption
<1>2. /\ d \in Seq(Byte)
      /\ Len(d) = SmallerOf(Capacity, Len(data))
      /\ Len(d) \in Nat
      /\ Len(d) <= Capacity
  BY <1>1, NewestElements DEF SmallerOf
<1>3. head \in Nat /\ head < Capacity /\ len \in Nat /\ len <= Capacity
  BY DEF TypeOK, Index
<1>4. writePos \in Index /\ writePos \in Nat /\ writePos < Capacity
  BY <1>3, WrapCases DEF Index
<1>5. buf' = CopiedIn(d, writePos)
  BY DEF append
<1>6. len' = SmallerOf(Capacity, len + Len(d)) /\ len' \in 0 .. Capacity
  BY <1>2, <1>3 DEF append, SmallerOf
<1>7. head' \in Index /\ head' = Wrap(head + dropped)
  <2>1. CASE len + Len(d) > Capacity
    <3>1. head' = Wrap(writePos + Len(d)) /\ dropped = len + Len(d) - Capacity
      BY <2>1, <1>2, <1>3 DEF append
    <3>2. Wrap(writePos + Len(d)) = Wrap(head + len + Len(d) - Capacity)
      BY <2>1, <1>2, <1>3, <1>4, WrapCases
    <3>3. head + dropped = head + len + Len(d) - Capacity
      BY <3>1, <1>2, <1>3
    <3>4. QED
      BY <3>1, <3>2, <3>3, <1>2, <1>4, WrapCases
  <2>2. CASE len + Len(d) <= Capacity
    <3>1. head' = head /\ dropped = 0
      BY <2>2, <1>2, <1>3 DEF append
    <3>2. QED
      BY <3>1, <1>3, WrapCases DEF Index
  <2>3. QED
    BY <2>1, <2>2, <1>2, <1>3
<1>8. TypeOK'
  BY <1>2, <1>4, <1>5, <1>6, <1>7, CopiedInElements DEF TypeOK
<1>9. ASSUME NEW q \in dropped + 1 .. len + Len(d)
      PROVE  buf'[Wrap(head' + q - dropped - 1)]
               = IF q <= len THEN buf[Wrap(head + q - 1)] ELSE d[q - len]
  <2>1. /\ dropped \in Nat /\ dropped <= Capacity
        /\ q \in Nat /\ q >= 1
        /\ q - dropped >= 1 /\ q - dropped <= Capacity
    BY <1>2, <1>3, <1>6 DEF SmallerOf
  <2>2. Wrap(head' + q - dropped - 1) = Wrap(head + q - 1)
    <3> DEFINE j == q - dropped - 1
    <3>1. /\ head + dropped \in Nat /\ head + dropped < 2 * Capacity
          /\ j \in Nat /\ head + dropped + j < 3 * Capacity
      BY <1>3, <2>1, SMTT(30)
    <3>2. Wrap(Wrap(head + dropped) + j) = Wrap(head + dropped + j)
      BY <3>1, WrapSum
    <3>3. head' \in Nat
      BY <1>7 DEF Index
    <3>4. /\ head' + q - dropped - 1 = head' + j
          /\ head + q - 1 = head + dropped + j
      BY <1>3, <2>1, <3>3
    <3>5. QED
      BY <1>7, <3>2, <3>4
  <2>3. CASE q <= len
    <3> DEFINE k == q - len + Capacity
    <3>1. k \in 1 .. Capacity /\ k > Len(d)
      BY <2>1, <2>3, <1>2, <1>3, <1>6 DEF SmallerOf
    <3>2. Wrap(writePos + k - 1) = Wrap(head + q - 1)
      <4> DEFINE j == q - len + Capacity - 1
      <4>1. /\ j \in Nat /\ head + len + j < 3 * Capacity
            /\ head + len < 2 * Capacity
        BY <2>1, <2>3, <1>3
      <4>2. Wrap(writePos + j) = Wrap(head + len + j)
        BY <4>1, <1>3, WrapSum
      <4>3. /\ writePos + k - 1 = writePos + j
            /\ head + len + j = head + q - 1 + Capacity
        BY <2>1, <1>3, <1>4
      <4>4. Wrap(head + q - 1 + Capacity) = Wrap(head + q - 1)
        BY <2>1, <2>3, <1>3, WrapCases
      <4>5. QED
        BY <4>2, <4>3, <4>4
    <3>3. buf'[Wrap(writePos + k - 1)] = buf[Wrap(writePos + k - 1)]
      BY <3>1, <1>2, <1>4, <1>5, CopiedInElements DEF TypeOK
    <3>4. QED
      BY <2>2, <2>3, <3>2, <3>3
  <2>4. CASE q > len
    <3> DEFINE k == q - len
    <3>1. k \in 1 .. Capacity /\ k <= Len(d)
      BY <2>1, <2>4, <1>2, <1>3
    <3>2. Wrap(writePos + k - 1) = Wrap(head + q - 1)
      <4> DEFINE j == q - len - 1
      <4>1. /\ j \in Nat /\ head + len + j < 3 * Capacity
            /\ head + len < 2 * Capacity
        BY <2>1, <2>4, <1>2, <1>3
      <4>2. Wrap(writePos + j) = Wrap(head + len + j)
        BY <4>1, <1>3, WrapSum
      <4>3. /\ writePos + k - 1 = writePos + j
            /\ head + len + j = head + q - 1
        BY <2>1, <1>3, <1>4
      <4>4. QED
        BY <4>2, <4>3
    <3>3. buf'[Wrap(writePos + k - 1)] = d[k]
      BY <3>1, <1>2, <1>4, <1>5, CopiedInElements DEF TypeOK
    <3>4. QED
      BY <2>1, <2>2, <2>4, <1>3, <3>2, <3>3
  <2>5. QED
    BY <2>1, <2>3, <2>4, <1>3
<1>10. QED
  BY <1>2, <1>6, <1>8, <1>9

\* The ring's indices stay inside its array, for every capacity.
THEOREM TypeCorrect == Spec => []TypeOK
<1>1. Init => TypeOK
  BY CapacityAssumption, ByteAssumption DEF Init, new, TypeOK, Index
<1>2. TypeOK /\ [Next]_vars => TypeOK'
  <2> SUFFICES ASSUME TypeOK, [Next]_vars PROVE TypeOK'
    OBVIOUS
  <2>1. ASSUME NEW data \in Chunks, append(data) PROVE TypeOK'
    BY <2>1, AppendElements
  <2>2. ASSUME NEW data \in Chunks, appendNothing(data) PROVE TypeOK'
    BY <2>2 DEF appendNothing, TypeOK, vars
  <2>3. CASE UNCHANGED vars
    BY <2>3 DEF TypeOK, vars
  <2>4. QED
    BY <2>1, <2>2, <2>3 DEF Next
<1>3. QED
  BY <1>1, <1>2, PTL DEF Spec

-------------------------------------------------------------------------------

\* snapshot is a sequence of len bytes.
LEMMA SnapshotType ==
  ASSUME TypeOK
  PROVE  snapshot \in Seq(Byte) /\ Len(snapshot) = len
<1>1. head \in Nat /\ len \in Nat
  BY DEF TypeOK, Index
<1>2. ASSUME NEW i \in 1 .. len PROVE buf[Wrap(head + i - 1)] \in Byte
  <2>1. head + i - 1 \in Nat
    BY <1>1
  <2>2. QED
    BY <2>1, WrapCases DEF TypeOK
<1>3. QED
  BY <1>1, <1>2 DEF snapshot

\* An append takes the snapshot to the abstract scrollback's next value.
LEMMA AppendRefines ==
  ASSUME TypeOK, NEW data \in Chunks, append(data)
  PROVE  snapshot' = Promise!AfterAppend(snapshot, data)
<1> DEFINE d       == Newest(data, Capacity)
           s       == snapshot \o data
           t       == Newest(s, Capacity)
           dropped == len + Len(d) - len'
<1> USE CapacityAssumption
<1>1. /\ data \in Seq(Byte) /\ Len(data) \in Nat
      /\ len \in Nat /\ len <= Capacity
      /\ snapshot \in Seq(Byte) /\ Len(snapshot) = len
  BY ChunksAssumption, SnapshotType DEF TypeOK
<1>2. /\ s \in Seq(Byte) /\ Len(s) = len + Len(data)
      /\ \A j \in 1 .. Len(s) :
           s[j] = IF j <= len THEN snapshot[j] ELSE data[j - len]
  BY <1>1
<1>3. /\ t \in Seq(Byte) /\ Len(t) = SmallerOf(Capacity, len + Len(data))
      /\ \A i \in 1 .. Len(t) : t[i] = s[Len(s) - Len(t) + i]
  BY <1>2, NewestElements, ZenonT(40)
<1>4. /\ Len(d) = SmallerOf(Capacity, Len(data))
      /\ \A k \in 1 .. Len(d) : d[k] = data[Len(data) - Len(d) + k]
  BY <1>1, NewestElements
<1>5. /\ len' = SmallerOf(Capacity, len + Len(d))
      /\ \A q \in dropped + 1 .. len + Len(d) :
           buf'[Wrap(head' + q - dropped - 1)]
             = IF q <= len THEN buf[Wrap(head + q - 1)] ELSE d[q - len]
      /\ head' \in Nat
  BY AppendElements DEF TypeOK, Index
<1>6. /\ Len(s) = len + Len(data) /\ Len(d) = SmallerOf(Capacity, Len(data))
      /\ Len(t) = len' /\ len' = SmallerOf(Capacity, len + Len(d))
      /\ Len(data) \in Nat /\ len \in Nat /\ len <= Capacity
      /\ Len(d) \in Nat /\ len' \in Nat
  BY <1>1, <1>2, <1>3, <1>4, <1>5 DEF SmallerOf
<1>7. ASSUME NEW i \in 1 .. len'
      PROVE  buf'[Wrap(head' + i - 1)] = t[i]
  <2> DEFINE q == dropped + i
             j == len + Len(data) - len' + i
  <2>1. /\ dropped \in Nat /\ len' \in Nat /\ i \in Nat
        /\ q \in dropped + 1 .. len + Len(d)
        /\ j \in 1 .. len + Len(data)
        /\ q <= len => j = q /\ q \in 1 .. len
        /\ ~(q <= len) => /\ ~(j <= len)
                          /\ q - len \in 1 .. Len(d)
                          /\ Len(data) - Len(d) + (q - len) = j - len
    <3> DEFINE m  == Len(data)
               dl == Len(d)
               nl == len'
    <3>1. /\ m \in Nat /\ dl \in Nat /\ nl \in Nat /\ i \in 1 .. nl
          /\ len \in Nat /\ len <= Capacity
          /\ dl = SmallerOf(Capacity, m) /\ nl = SmallerOf(Capacity, len + dl)
          /\ dropped = len + dl - nl /\ q = dropped + i /\ j = len + m - nl + i
      BY <1>6
    <3> HIDE DEF m, dl, nl, q, j, dropped
    <3>2. /\ dropped \in Nat /\ nl \in Nat /\ i \in Nat
          /\ q \in dropped + 1 .. len + dl
          /\ j \in 1 .. len + m
          /\ q <= len => j = q /\ q \in 1 .. len
          /\ ~(q <= len) => /\ ~(j <= len)
                            /\ q - len \in 1 .. dl
                            /\ m - dl + (q - len) = j - len
      <4>1. CASE m <= Capacity
        <5>1. dl = m
          BY <3>1, <4>1 DEF SmallerOf
        <5>2. QED
          BY <3>1, <5>1 DEF SmallerOf
      <4>2. CASE m > Capacity
        <5>1. dl = Capacity /\ nl = Capacity
          BY <3>1, <4>2 DEF SmallerOf
        <5>2. QED
          BY <3>1, <4>2, <5>1
      <4>3. QED
        BY <3>1, <4>1, <4>2
    <3>3. QED
      BY <3>2 DEF m, dl, nl
  <2>2. q - dropped = i /\ head' + q - dropped - 1 = head' + i - 1
    BY <1>5, <2>1
  <2>3. buf'[Wrap(head' + i - 1)]
          = IF q <= len THEN buf[Wrap(head + q - 1)] ELSE d[q - len]
    BY <1>5, <2>1, <2>2
  <2>4. t[i] = IF j <= len THEN snapshot[j] ELSE data[j - len]
    <3>1. Len(s) - Len(t) + i = j /\ i \in 1 .. Len(t) /\ j \in 1 .. Len(s)
      BY <1>6, <2>1
    <3>2. t[i] = s[j]
      BY <1>3, <3>1
    <3>3. QED
      BY <1>2, <3>1, <3>2
  <2>5. CASE q <= len
    <3>1. j = q /\ q \in 1 .. len
      BY <2>5, <2>1
    <3>2. snapshot[q] = buf[Wrap(head + q - 1)]
      BY <3>1 DEF snapshot
    <3>3. QED
      BY <2>3, <2>4, <2>5, <3>1, <3>2
  <2>6. CASE ~(q <= len)
    <3>1. /\ ~(j <= len)
          /\ q - len \in 1 .. Len(d)
          /\ Len(data) - Len(d) + (q - len) = j - len
      BY <2>6, <2>1
    <3>2. d[q - len] = data[j - len]
      BY <1>4, <3>1
    <3>3. QED
      BY <2>3, <2>4, <2>6, <3>1, <3>2
  <2>7. QED
    BY <2>5, <2>6
<1>8. snapshot' = t
  <2>1. snapshot' = [i \in 1 .. len' |-> t[i]]
    BY <1>7 DEF snapshot
  <2>2. QED
    BY <2>1, <1>3, <1>6
<1>9. t = Promise!AfterAppend(snapshot, data)
  BY DEF Promise!AfterAppend, Promise!Newest, Newest
<1>10. QED
  BY <1>8, <1>9

\* For every capacity and every input: append leaves in snapshot() exactly the
\* newest Capacity bytes of what was there followed by what it was given.
THEOREM NewestKept == Spec => AppendKeepsNewest
<1>1. TypeOK /\ [Next]_vars
        => [\A data \in Chunks :
              append(data) => snapshot' = Promise!AfterAppend(snapshot, data)]_vars
  <2>1. ASSUME TypeOK, NEW data \in Chunks, append(data)
        PROVE  snapshot' = Promise!AfterAppend(snapshot, data)
    BY <2>1, AppendRefines
  <2>2. QED
    BY <2>1
<1>2. QED
  BY <1>1, TypeCorrect, PTL DEF Spec, AppendKeepsNewest

\* The ring implements the scrollback for every capacity and every input:
\* snapshot() starts empty and changes only as the abstract scrollback does.
THEOREM RefinesScrollback == Spec => ImplementsScrollback
<1>1. Init => Promise!Init
  BY DEF Init, new, Promise!Init, snapshot
<1>2. TypeOK /\ [Next]_vars => [Promise!Next]_snapshot
  <2> SUFFICES ASSUME TypeOK, [Next]_vars
               PROVE  Promise!Next \/ UNCHANGED snapshot
    OBVIOUS
  <2>1. ASSUME NEW data \in Chunks, append(data)
        PROVE  Promise!Next
    BY <2>1, AppendRefines DEF Promise!Next
  <2>2. ASSUME UNCHANGED vars
        PROVE  UNCHANGED snapshot
    BY <2>2 DEF snapshot, vars
  <2>3. QED
    BY <2>1, <2>2 DEF Next, appendNothing
<1>3. QED
  BY <1>1, <1>2, TypeCorrect, PTL
     DEF Spec, ImplementsScrollback, Promise!Spec
===============================================================================
