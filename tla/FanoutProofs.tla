----------------------------- MODULE FanoutProofs -----------------------------
(***************************************************************************)
(* For every number of clients, ring and channel capacity and amount of    *)
(* output: a client's view is one unbroken run of the child's output and   *)
(* reaches its receiver's position.  The mutex makes push and attach      *)
(* atomic, in the second half of this module.                              *)
(***************************************************************************)
EXTENDS FanoutLocked, SequenceTheorems, TLAPS

\* s is bytes lo+1 to hi for some lo, and is empty only before the first byte.
RunTo(s, hi) == \E lo \in 0 .. hi : s = Span(lo, hi) /\ (lo < hi \/ hi = 0)

EndsGrow == \A k \in 1 .. Len(ends) : EndOf(k - 1) < EndOf(k)

\* A client's view is a run to its receiver's position, or to any byte once
\* it has no receiver.
ViewIsRun(c) ==
  \E hi \in Nat :
    /\ RunTo(got[c], hi)
    /\ next[c] # 0 => next[c] <= Len(ends) + 1 /\ hi = EndOf(next[c] - 1)

\* The inductive invariant.  ViewContiguous alone is not inductive: recv
\* continues the view only because the view ends where the chunk begins, and
\* attach starts it only because the ring ends where the channel does.
IInv ==
  /\ TypeOK
  /\ EndsGrow
  /\ RunTo(ring, produced)
  /\ \A c \in Clients : ViewIsRun(c)

-------------------------------------------------------------------------------

LEMMA SpanElements ==
  ASSUME NEW a \in Nat, NEW b \in Nat, a <= b
  PROVE  /\ Span(a, b) \in Seq(Nat)
         /\ Len(Span(a, b)) = b - a
         /\ \A i \in 1 .. b - a : Span(a, b)[i] = a + i
<1>1. b - a \in Nat /\ \A i \in 1 .. b - a : a + i \in Nat
  OBVIOUS
<1>2. QED
  BY <1>1 DEF Span

LEMMA SpanJoin ==
  ASSUME NEW a \in Nat, NEW b \in Nat, NEW e \in Nat, a <= b, b <= e
  PROVE  Span(a, b) \o Span(b, e) = Span(a, e)
<1> DEFINE s == Span(a, b)
           t == Span(b, e)
           u == Span(a, e)
<1>1. /\ s \in Seq(Nat) /\ Len(s) = b - a
      /\ t \in Seq(Nat) /\ Len(t) = e - b
      /\ u \in Seq(Nat) /\ Len(u) = e - a
      /\ \A i \in 1 .. b - a : s[i] = a + i
      /\ \A i \in 1 .. e - b : t[i] = b + i
      /\ \A i \in 1 .. e - a : u[i] = a + i
  <2>1. a <= e
    OBVIOUS
  <2>2. s \in Seq(Nat) /\ Len(s) = b - a /\ \A i \in 1 .. b - a : s[i] = a + i
    BY SpanElements
  <2>3. t \in Seq(Nat) /\ Len(t) = e - b /\ \A i \in 1 .. e - b : t[i] = b + i
    BY SpanElements
  <2>4. u \in Seq(Nat) /\ Len(u) = e - a /\ \A i \in 1 .. e - a : u[i] = a + i
    BY <2>1, SpanElements
  <2>5. QED
    BY <2>2, <2>3, <2>4
<1> HIDE DEF s, t, u
<1>2. /\ s \o t \in Seq(Nat) /\ Len(s \o t) = e - a
      /\ \A i \in 1 .. e - a :
           (s \o t)[i] = IF i <= b - a THEN s[i] ELSE t[i - (b - a)]
  <2>1. s \in Seq(Nat) /\ t \in Seq(Nat)
    BY <1>1
  <2>2. /\ s \o t \in Seq(Nat) /\ Len(s \o t) = Len(s) + Len(t)
        /\ \A i \in 1 .. Len(s) + Len(t) :
             (s \o t)[i] = IF i <= Len(s) THEN s[i] ELSE t[i - Len(s)]
    BY <2>1, ConcatProperties
  <2>3. Len(s) = b - a /\ Len(s) + Len(t) = e - a
    BY <1>1
  <2>4. QED
    BY <2>2, <2>3
<1>3. ASSUME NEW i \in 1 .. e - a PROVE (s \o t)[i] = u[i]
  <2>1. CASE i <= b - a
    BY <1>1, <1>2, <2>1
  <2>2. CASE ~(i <= b - a)
    <3>1. i - (b - a) \in 1 .. e - b /\ b + (i - (b - a)) = a + i
      BY <2>2
    <3>2. QED
      BY <1>1, <1>2, <2>2, <3>1
  <2>3. QED
    BY <2>1, <2>2
<1>4. s \o t = u
  BY <1>1, <1>2, <1>3, SeqEqual
<1>5. QED
  BY <1>4 DEF s, t, u

LEMMA SpanNewest ==
  ASSUME NEW a \in Nat, NEW b \in Nat, a <= b, NEW n \in Nat
  PROVE  Scroll!Newest(Span(a, b), n) = Span(IF b - a > n THEN b - n ELSE a, b)
<1> DEFINE s == Span(a, b)
<1>1. s \in Seq(Nat) /\ Len(s) = b - a /\ \A i \in 1 .. b - a : s[i] = a + i
  BY SpanElements
<1> HIDE DEF s
<1>2. CASE b - a > n
  <2> DEFINE u == Span(b - n, b)
             t == SubSeq(s, Len(s) - n + 1, Len(s))
  <2>1. b - n \in Nat /\ b - n <= b /\ b - (b - n) = n
    BY <1>2
  <2>2. u \in Seq(Nat) /\ Len(u) = n /\ \A i \in 1 .. n : u[i] = b - n + i
    BY <2>1, SpanElements
  <2> HIDE DEF u
  <2>3. /\ t \in Seq(Nat) /\ Len(t) = n
        /\ \A i \in 1 .. n : t[i] = s[Len(s) - n + i]
    BY <1>1, <1>2
  <2> HIDE DEF t
  <2>4. ASSUME NEW i \in 1 .. n PROVE t[i] = u[i]
    <3>1. Len(s) - n + i \in 1 .. b - a /\ a + (Len(s) - n + i) = b - n + i
      BY <1>1, <1>2
    <3>2. s[Len(s) - n + i] = b - n + i
      BY <1>1, <3>1
    <3>3. QED
      BY <2>2, <2>3, <3>2
  <2>5. t = u
    BY <2>2, <2>3, <2>4
  <2>6. Scroll!Newest(s, n) = t
    BY <1>1, <1>2 DEF Scroll!Newest, t
  <2>7. QED
    BY <1>2, <2>5, <2>6 DEF s, u
<1>3. CASE ~(b - a > n)
  BY <1>1, <1>3 DEF Scroll!Newest, s
<1>4. QED
  BY <1>2, <1>3

\* A run continued by the bytes that follow it.
LEMMA RunExtends ==
  ASSUME NEW s, NEW hi \in Nat, RunTo(s, hi), NEW hi2 \in Nat, hi < hi2
  PROVE  RunTo(s \o Span(hi, hi2), hi2)
<1>1. PICK lo \in 0 .. hi : s = Span(lo, hi)
  BY DEF RunTo
<1>2. lo \in Nat /\ lo <= hi /\ hi <= hi2
  OBVIOUS
<1>3. s \o Span(hi, hi2) = Span(lo, hi2)
  BY <1>1, <1>2, SpanJoin
<1>4. lo \in 0 .. hi2 /\ lo < hi2
  BY <1>2
<1>5. QED
  BY <1>3, <1>4 DEF RunTo

\* A run of which only the newest bytes are kept.
LEMMA RunTruncates ==
  ASSUME NEW s, NEW hi \in Nat, RunTo(s, hi), NEW n \in Nat \ {0}
  PROVE  RunTo(Scroll!Newest(s, n), hi)
<1>1. PICK lo \in 0 .. hi : s = Span(lo, hi) /\ (lo < hi \/ hi = 0)
  BY DEF RunTo
<1>2. Scroll!Newest(s, n) = Span(IF hi - lo > n THEN hi - n ELSE lo, hi)
  <2>1. lo \in Nat /\ lo <= hi
    OBVIOUS
  <2>2. QED
    BY <1>1, <2>1, SpanNewest
<1>3. /\ (IF hi - lo > n THEN hi - n ELSE lo) \in 0 .. hi
      /\ (IF hi - lo > n THEN hi - n ELSE lo) < hi \/ hi = 0
  BY <1>1
<1>4. QED
  BY <1>2, <1>3 DEF RunTo

LEMMA RunElements ==
  ASSUME NEW s, NEW hi \in Nat, RunTo(s, hi)
  PROVE  /\ s \in Seq(Nat)
         /\ \A i \in 1 .. Len(s) - 1 : s[i + 1] = s[i] + 1
         /\ hi = IF s = <<>> THEN 0 ELSE s[Len(s)]
<1>1. PICK lo \in 0 .. hi : s = Span(lo, hi) /\ (lo < hi \/ hi = 0)
  BY DEF RunTo
<1>2. s \in Seq(Nat) /\ Len(s) = hi - lo /\ \A i \in 1 .. hi - lo : s[i] = lo + i
  <2>1. lo \in Nat /\ lo <= hi
    OBVIOUS
  <2>2. QED
    BY <1>1, <2>1, SpanElements
<1>3. \A i \in 1 .. Len(s) - 1 : s[i + 1] = s[i] + 1
  <2>1. ASSUME NEW i \in 1 .. Len(s) - 1 PROVE s[i + 1] = s[i] + 1
    <3>1. i \in 1 .. hi - lo /\ i + 1 \in 1 .. hi - lo
      BY <1>2
    <3>2. QED
      BY <1>2, <3>1
  <2>2. QED
    BY <2>1
<1>4. hi = IF s = <<>> THEN 0 ELSE s[Len(s)]
  <2>1. CASE lo < hi
    <3>1. Len(s) \in 1 .. hi - lo
      BY <1>2, <2>1
    <3>2. s[Len(s)] = hi /\ s # <<>>
      BY <1>2, <3>1
    <3>3. QED
      BY <3>2
  <2>2. CASE hi = 0
    BY <1>1, <1>2, <2>2
  <2>3. QED
    BY <1>1, <2>1, <2>2
<1>5. QED
  BY <1>2, <1>3, <1>4

-------------------------------------------------------------------------------

LEMMA EndOfType ==
  ASSUME TypeOK
  PROVE  /\ \A k \in 0 .. Len(ends) : EndOf(k) \in Nat
         /\ produced \in Nat
<1>1. ends \in Seq(Nat) /\ Len(ends) \in Nat
  BY DEF TypeOK
<1>2. ASSUME NEW k \in 0 .. Len(ends) PROVE EndOf(k) \in Nat
  BY <1>1 DEF EndOf
<1>3. QED
  BY <1>1, <1>2 DEF produced

\* The one place where the channel grows: the ends of the old chunks stay.
LEMMA PushEnds ==
  ASSUME TypeOK, NEW n \in Nat, ends' = Append(ends, produced + n)
  PROVE  /\ ends' \in Seq(Nat)
         /\ Len(ends') = Len(ends) + 1
         /\ produced' = produced + n
         /\ \A k \in 0 .. Len(ends) :
              (IF k = 0 THEN 0 ELSE ends'[k]) = EndOf(k)
<1>1. ends \in Seq(Nat) /\ produced + n \in Nat
  BY EndOfType DEF TypeOK
<1>2. /\ ends' \in Seq(Nat)
      /\ Len(ends') = Len(ends) + 1
      /\ \A k \in 1 .. Len(ends) : ends'[k] = ends[k]
      /\ ends'[Len(ends) + 1] = produced + n
  BY <1>1, AppendProperties
<1>3. produced' = produced + n
  BY <1>1, <1>2 DEF produced, EndOf
<1>4. ASSUME NEW k \in 0 .. Len(ends)
      PROVE  (IF k = 0 THEN 0 ELSE ends'[k]) = EndOf(k)
  BY <1>1, <1>2 DEF EndOf
<1>5. QED
  BY <1>2, <1>3, <1>4

LEMMA PushPreserves ==
  ASSUME IInv, NEW n \in 1 .. MaxChunk, push(n)
  PROVE  IInv'
<1>1. /\ TypeOK /\ EndsGrow /\ RunTo(ring, produced)
      /\ \A c \in Clients : ViewIsRun(c)
      /\ n \in Nat /\ n > 0 /\ Len(ends) \in Nat
  BY BoundAssumption DEF IInv, TypeOK
<1>2. produced \in Nat /\ \A k \in 0 .. Len(ends) : EndOf(k) \in Nat
  BY <1>1, EndOfType
<1>3. /\ ends' \in Seq(Nat) /\ Len(ends') = Len(ends) + 1
      /\ produced' = produced + n
      /\ \A k \in 0 .. Len(ends) :
           (IF k = 0 THEN 0 ELSE ends'[k]) = EndOf(k)
  BY <1>1, PushEnds DEF push
<1>4. RunTo(ring, produced)'
  <2>1. RunTo(ring \o Span(produced, produced + n), produced + n)
    BY <1>1, <1>2, RunExtends
  <2>2. RunTo(Scroll!Newest(ring \o Span(produced, produced + n), RingCap),
              produced + n)
    BY <1>1, <1>2, <2>1, RingCapAssumption, RunTruncates
  <2>3. ring' = Scroll!Newest(ring \o Span(produced, produced + n), RingCap)
    BY DEF push, Scroll!AfterAppend
  <2>4. RunTo(ring', produced')
    BY <1>3, <2>2, <2>3
  <2>5. QED
    BY <2>4 DEF RunTo, Span
<1>5. EndsGrow'
  <2>1. ASSUME NEW k \in 1 .. Len(ends')
        PROVE  (EndOf(k - 1) < EndOf(k))'
    <3>1. CASE k <= Len(ends)
      <4>1. k \in 1 .. Len(ends) /\ k - 1 \in 0 .. Len(ends)
            /\ k \in 0 .. Len(ends)
        BY <1>1, <1>3, <3>1
      <4>2. EndOf(k - 1) < EndOf(k)
        BY <1>1, <4>1 DEF EndsGrow
      <4>3. QED
        BY <1>3, <4>1, <4>2 DEF EndOf
    <3>2. CASE k = Len(ends) + 1
      <4>1. k - 1 = Len(ends) /\ k - 1 \in 0 .. Len(ends)
        BY <1>1, <3>2
      <4>2. (IF k - 1 = 0 THEN 0 ELSE ends'[k - 1]) = EndOf(k - 1)
        BY <1>3, <4>1
      <4>3. EndOf(k - 1) = produced
        BY <4>1 DEF produced
      <4>4. ends'[k] = produced + n /\ k # 0
        BY <1>1, <1>3, <3>2 DEF produced, EndOf
      <4>5. QED
        BY <1>1, <1>2, <4>2, <4>3, <4>4 DEF EndOf
    <3>3. QED
      BY <1>1, <1>3, <3>1, <3>2
  <2>2. QED
    BY <2>1 DEF EndsGrow
<1>6. ASSUME NEW c \in Clients
      PROVE  ViewIsRun(c)'
  <2>1. PICK hi \in Nat :
          /\ RunTo(got[c], hi)
          /\ next[c] # 0 => next[c] <= Len(ends) + 1 /\ hi = EndOf(next[c] - 1)
    BY <1>1 DEF ViewIsRun
  <2>2. got' = got /\ next' = next
    BY DEF push
  <2>3. RunTo(got[c], hi)'
    BY <2>1, <2>2 DEF RunTo, Span
  <2>4. next[c] # 0 => /\ next[c] <= Len(ends') + 1
                       /\ hi = IF next[c] - 1 = 0 THEN 0 ELSE ends'[next[c] - 1]
    <3>1. SUFFICES ASSUME next[c] # 0
                   PROVE  /\ next[c] <= Len(ends') + 1
                          /\ hi = IF next[c] - 1 = 0 THEN 0 ELSE ends'[next[c] - 1]
      OBVIOUS
    <3>2. next[c] \in Nat
      BY <1>1 DEF TypeOK
    <3>3. next[c] - 1 \in 0 .. Len(ends)
      BY <1>1, <2>1, <3>1, <3>2
    <3>4. QED
      BY <1>1, <1>3, <2>1, <3>1, <3>2, <3>3
  <2>5. QED
    BY <2>2, <2>3, <2>4 DEF ViewIsRun, EndOf
<1>7. TypeOK'
  <2>1. ring' \in Seq(Nat)
    BY <1>2, <1>3, <1>4, RunElements
  <2>2. Len(ring') <= RingCap
    <3> DEFINE all == ring \o Span(produced, produced + n)
    <3>1. all \in Seq(Nat)
      BY <1>1, <1>2, SpanElements DEF TypeOK
    <3>2. ring' = Scroll!Newest(all, RingCap)
      BY DEF push, Scroll!AfterAppend
    <3> HIDE DEF all
    <3>3. QED
      BY <3>1, <3>2, RingCapAssumption DEF Scroll!Newest
  <2>3. QED
    BY <1>1, <1>3, <2>1, <2>2 DEF TypeOK, push
<1>8. QED
  BY <1>4, <1>5, <1>6, <1>7 DEF IInv

LEMMA AttachPreserves ==
  ASSUME IInv, NEW c \in Clients, attach(c)
  PROVE  IInv'
<1>1. /\ TypeOK /\ EndsGrow /\ RunTo(ring, produced)
      /\ \A d \in Clients : ViewIsRun(d)
      /\ Len(ends) \in Nat
  BY DEF IInv, TypeOK
<1>2. /\ ring' = ring /\ ends' = ends
      /\ next' = [next EXCEPT ![c] = Len(ends) + 1]
      /\ got' = [got EXCEPT ![c] = ring]
  BY DEF attach
<1>3. TypeOK'
  BY <1>1, <1>2 DEF TypeOK
<1>4. EndsGrow' /\ RunTo(ring, produced)'
  BY <1>1, <1>2 DEF EndsGrow, EndOf, RunTo, Span, produced
<1>5. ASSUME NEW d \in Clients PROVE ViewIsRun(d)'
  <2>1. CASE d = c
    <3>1. got'[d] = ring /\ next'[d] = Len(ends) + 1
      BY <1>1, <1>2, <2>1 DEF TypeOK
    <3>2. produced \in Nat
      BY <1>1, EndOfType
    <3>3. produced = IF next'[d] - 1 = 0 THEN 0 ELSE ends'[next'[d] - 1]
      BY <1>1, <1>2, <3>1 DEF produced, EndOf
    <3>4. next'[d] <= Len(ends') + 1
      BY <1>1, <1>2, <3>1
    <3>5. RunTo(got'[d], produced)
      BY <1>1, <3>1
    <3>6. QED
      BY <3>2, <3>3, <3>4, <3>5 DEF ViewIsRun, EndOf, RunTo, Span
  <2>2. CASE d # c
    <3>1. got'[d] = got[d] /\ next'[d] = next[d]
      BY <1>1, <1>2, <2>2 DEF TypeOK
    <3>2. QED
      BY <1>1, <1>2, <3>1, ZenonT(40) DEF ViewIsRun, EndOf, RunTo, Span
  <2>3. QED
    BY <2>1, <2>2
<1>6. QED
  BY <1>3, <1>4, <1>5 DEF IInv

LEMMA RecvPreserves ==
  ASSUME IInv, NEW c \in Clients, recv(c)
  PROVE  IInv'
<1> DEFINE k == next[c]
<1>1. /\ TypeOK /\ EndsGrow /\ RunTo(ring, produced)
      /\ \A d \in Clients : ViewIsRun(d)
      /\ Len(ends) \in Nat
  BY DEF IInv, TypeOK
<1>2. /\ ring' = ring /\ ends' = ends
      /\ k \in 1 .. Len(ends)
      /\ next' = [next EXCEPT ![c] = k + 1]
      /\ got' = [got EXCEPT ![c] = got[c] \o Span(EndOf(k - 1), EndOf(k))]
  BY DEF recv, chunk
<1>3. /\ k - 1 \in 0 .. Len(ends) /\ k \in 0 .. Len(ends) /\ k # 0 /\ k \in Nat
  BY <1>1, <1>2
<1>4. /\ EndOf(k - 1) \in Nat /\ EndOf(k) \in Nat /\ EndOf(k - 1) < EndOf(k)
  BY <1>1, <1>2, <1>3, EndOfType DEF EndsGrow
<1>5. RunTo(got[c], EndOf(k - 1))
  BY <1>1, <1>3 DEF ViewIsRun
<1>6. RunTo(got[c] \o Span(EndOf(k - 1), EndOf(k)), EndOf(k))
  BY <1>4, <1>5, RunExtends
<1>7. TypeOK'
  <2>1. got[c] \o Span(EndOf(k - 1), EndOf(k)) \in Seq(Nat)
    BY <1>4, <1>6, RunElements
  <2>2. QED
    BY <1>1, <1>2, <1>3, <2>1 DEF TypeOK
<1>8. EndsGrow' /\ RunTo(ring, produced)'
  BY <1>1, <1>2 DEF EndsGrow, EndOf, RunTo, Span, produced
<1>9. ASSUME NEW d \in Clients PROVE ViewIsRun(d)'
  <2>1. CASE d = c
    <3>1. /\ got'[d] = got[c] \o Span(EndOf(k - 1), EndOf(k))
          /\ next'[d] = k + 1
      BY <1>1, <1>2, <2>1 DEF TypeOK
    <3>2. RunTo(got'[d], EndOf(k))
      BY <1>6, <3>1
    <3>3. EndOf(k) = IF next'[d] - 1 = 0 THEN 0 ELSE ends'[next'[d] - 1]
      BY <1>2, <1>3, <3>1 DEF EndOf
    <3>4. next'[d] <= Len(ends') + 1
      BY <1>1, <1>2, <1>3, <3>1
    <3> HIDE DEF k
    <3>5. PICK hi \in Nat : hi = EndOf(k)
      BY <1>4
    <3>6. RunTo(got'[d], hi) /\ hi = IF next'[d] - 1 = 0 THEN 0 ELSE ends'[next'[d] - 1]
      BY <3>2, <3>3, <3>5
    <3>7. QED
      BY <3>4, <3>6 DEF ViewIsRun, EndOf, RunTo, Span
  <2>2. CASE d # c
    <3>1. got'[d] = got[d] /\ next'[d] = next[d]
      BY <1>1, <1>2, <2>2 DEF TypeOK
    <3>2. QED
      BY <1>1, <1>2, <3>1, ZenonT(40) DEF ViewIsRun, EndOf, RunTo, Span
  <2>3. QED
    BY <2>1, <2>2
<1>10. QED
  BY <1>7, <1>8, <1>9 DEF IInv

\* A client that loses its receiver keeps the view it had.
LEMMA DropPreserves ==
  ASSUME IInv, NEW c \in Clients, lagged(c) \/ detach(c)
  PROVE  IInv'
<1>1. /\ TypeOK /\ EndsGrow /\ RunTo(ring, produced)
      /\ \A d \in Clients : ViewIsRun(d)
  BY DEF IInv
<1>2. /\ ring' = ring /\ ends' = ends /\ got' = got
      /\ next' = [next EXCEPT ![c] = 0]
  BY DEF lagged, detach
<1>3. TypeOK'
  BY <1>1, <1>2 DEF TypeOK
<1>4. EndsGrow' /\ RunTo(ring, produced)'
  BY <1>1, <1>2 DEF EndsGrow, EndOf, RunTo, Span, produced
<1>5. ASSUME NEW d \in Clients PROVE ViewIsRun(d)'
  <2>1. next'[d] # 0 => next'[d] = next[d]
    BY <1>1, <1>2 DEF TypeOK
  <2>2. QED
    BY <1>1, <1>2, <2>1 DEF ViewIsRun, EndOf, RunTo, Span
<1>6. QED
  BY <1>3, <1>4, <1>5 DEF IInv

LEMMA InitHolds == Init => IInv
<1> SUFFICES ASSUME Init PROVE IInv
  OBVIOUS
<1>1. RunTo(<<>>, 0)
  BY DEF RunTo, Span
<1>2. TypeOK
  BY RingCapAssumption DEF Init, new, TypeOK
<1>3. EndsGrow /\ RunTo(ring, produced)
  BY <1>1 DEF Init, new, EndsGrow, produced, EndOf
<1>4. \A c \in Clients : ViewIsRun(c)
  BY <1>1 DEF Init, new, ViewIsRun
<1>5. QED
  BY <1>2, <1>3, <1>4 DEF IInv

LEMMA StepPreserves ==
  ASSUME IInv, [Next]_fanoutVars
  PROVE  IInv'
<1>1. ASSUME NEW n \in 1 .. MaxChunk, push(n) PROVE IInv'
  BY <1>1, PushPreserves
<1>2. ASSUME NEW c \in Clients, attach(c) PROVE IInv'
  BY <1>2, AttachPreserves
<1>3. ASSUME NEW c \in Clients, recv(c) PROVE IInv'
  BY <1>3, RecvPreserves
<1>4. ASSUME NEW c \in Clients, lagged(c) \/ detach(c) PROVE IInv'
  BY <1>4, DropPreserves
<1>5. CASE UNCHANGED fanoutVars
  BY <1>5 DEF fanoutVars, IInv, TypeOK, EndsGrow, ViewIsRun, RunTo, Span,
              produced, EndOf
<1>6. QED
  BY <1>1, <1>2, <1>3, <1>4, <1>5 DEF Next

LEMMA Inductive == Spec => []IInv
<1>1. IInv /\ [Next]_fanoutVars => IInv'
  BY StepPreserves
<1>2. QED
  BY <1>1, InitHolds, PTL DEF Spec

\* The channel positions, the views and the scrollback have their types.
THEOREM TypeCorrect == Spec => []TypeOK
<1>1. IInv => TypeOK
  BY DEF IInv
<1>2. QED
  BY <1>1, Inductive, PTL

\* For every number of clients, ring size, channel size and amount of output,
\* no client's view has a gap, a duplicate or a reordered byte.
THEOREM ViewsHaveNoGap == Spec => []ViewContiguous
<1>1. IInv => ViewContiguous
  <2> SUFFICES ASSUME IInv, NEW c \in Clients
               PROVE  \A i \in 1 .. Len(got[c]) - 1 : got[c][i + 1] = got[c][i] + 1
    BY DEF ViewContiguous
  <2>1. PICK hi \in Nat : RunTo(got[c], hi)
    BY DEF IInv, ViewIsRun
  <2>2. QED
    BY <2>1, RunElements
<1>2. QED
  BY <1>1, Inductive, PTL

\* A client with a receiver has been given everything before the receiver's
\* next chunk: what it will be given continues what it was given.
THEOREM ViewsReachTheCursor == Spec => []ViewReachesCursor
<1>1. IInv => ViewReachesCursor
  <2> SUFFICES ASSUME IInv, NEW c \in Clients, next[c] # 0
               PROVE  LastSeen(c) = EndOf(next[c] - 1)
    BY DEF ViewReachesCursor
  <2>1. PICK hi \in Nat : RunTo(got[c], hi) /\ hi = EndOf(next[c] - 1)
    BY DEF IInv, ViewIsRun
  <2>2. QED
    BY <2>1, RunElements DEF LastSeen
<1>2. QED
  BY <1>1, Inductive, PTL

-------------------------------------------------------------------------------
\* The mutex: push and attach as separate calls are the atomic ones above.

LockedTypeOK ==
  /\ pushing \in {"idle", "locked", "appended", "sent"}
  /\ attaching \in [Clients -> {"idle", "locked", "subscribed", "done"}]
  /\ DOMAIN fresh = Clients

\* What the lock's holder relies on: the push in progress is the next bytes,
\* the scrollback is ahead of the channel by exactly those, and a receiver
\* created by an attach in progress is still at the channel's end.
HolderFacts ==
  /\ pushing \in {"locked", "appended"} =>
       size \in 1 .. MaxChunk /\ produced + size <= MaxBytes
  /\ pushing = "locked" => before = ring
  /\ pushing = "appended" =>
       ring = Scroll!AfterAppend(before, Span(produced, produced + size))
  /\ \A c \in Clients : attaching[c] = "subscribed" => fresh[c] = Len(ends) + 1

LockedInv == LockedTypeOK /\ MutualExclusion /\ HolderFacts

-------------------------------------------------------------------------------

LEMMA PushSteps ==
  ASSUME LockedInv,
         \/ \E n \in 1 .. MaxChunk : pushLock(n)
         \/ pushAppend
         \/ pushSend
         \/ pushUnlock
  PROVE  LockedInv'
<1>1. LockedTypeOK /\ MutualExclusion /\ HolderFacts
  BY DEF LockedInv
<1>2. ASSUME NEW n \in 1 .. MaxChunk, pushLock(n) PROVE LockedInv'
  <2>1. LockedTypeOK' /\ MutualExclusion'
    BY <1>1, <1>2, HolderAssumption
       DEF pushLock, fanoutVars, LockedTypeOK, MutualExclusion
  <2>2. HolderFacts'
    BY <1>1, <1>2 DEF pushLock, fanoutVars, HolderFacts, produced, EndOf
  <2>3. QED
    BY <2>1, <2>2 DEF LockedInv
<1>3. CASE pushAppend
  <2>1. LockedTypeOK' /\ MutualExclusion'
    BY <1>1, <1>3 DEF pushAppend, LockedTypeOK, MutualExclusion
  <2>2. HolderFacts'
    BY <1>1, <1>3 DEF pushAppend, HolderFacts, produced, EndOf, Span,
                      Scroll!AfterAppend, Scroll!Newest
  <2>3. QED
    BY <2>1, <2>2 DEF LockedInv
<1>4. CASE pushSend
  <2>1. LockedTypeOK' /\ MutualExclusion'
    BY <1>1, <1>4 DEF pushSend, LockedTypeOK, MutualExclusion
  <2>2. \A c \in Clients : attaching[c] = "idle"
    BY <1>1, <1>4, HolderAssumption DEF pushSend, MutualExclusion
  <2>3. HolderFacts'
    BY <1>4, <2>2 DEF pushSend, HolderFacts
  <2>4. QED
    BY <2>1, <2>3 DEF LockedInv
<1>5. CASE pushUnlock
  <2>1. LockedTypeOK' /\ MutualExclusion'
    BY <1>1, <1>5, HolderAssumption
       DEF pushUnlock, fanoutVars, LockedTypeOK, MutualExclusion
  <2>2. HolderFacts'
    BY <1>1, <1>5 DEF pushUnlock, fanoutVars, HolderFacts
  <2>3. QED
    BY <2>1, <2>2 DEF LockedInv
<1>6. QED
  BY <1>2, <1>3, <1>4, <1>5

LEMMA AttachSteps ==
  ASSUME LockedInv, NEW c \in Clients,
         \/ attachLock(c)
         \/ attachSubscribe(c)
         \/ attachSnapshot(c)
         \/ attachUnlock(c)
  PROVE  LockedInv'
<1>1. LockedTypeOK /\ MutualExclusion /\ HolderFacts
  BY DEF LockedInv
<1>2. UNCHANGED <<ring, ends, pushing, size, before>>
  BY DEF attachLock, attachSubscribe, attachSnapshot, attachUnlock, fanoutVars
<1>3. LockedTypeOK' /\ MutualExclusion'
  <2>1. CASE attachLock(c)
    BY <1>1, <2>1, HolderAssumption DEF attachLock, LockedTypeOK, MutualExclusion
  <2>2. CASE attachSubscribe(c) \/ attachSnapshot(c)
    BY <1>1, <2>2
       DEF attachSubscribe, attachSnapshot, LockedTypeOK, MutualExclusion
  <2>3. CASE attachUnlock(c)
    BY <1>1, <2>3, HolderAssumption DEF attachUnlock, LockedTypeOK, MutualExclusion
  <2>4. QED
    BY <2>1, <2>2, <2>3
<1>4. \A d \in Clients : attaching'[d] = "subscribed" => fresh'[d] = Len(ends) + 1
  <2>1. CASE attachSubscribe(c)
    BY <1>1, <2>1 DEF attachSubscribe, LockedTypeOK, HolderFacts
  <2>2. CASE attachLock(c) \/ attachSnapshot(c) \/ attachUnlock(c)
    BY <1>1, <2>2
       DEF attachLock, attachSnapshot, attachUnlock, LockedTypeOK, HolderFacts
  <2>3. QED
    BY <2>1, <2>2
<1>5. HolderFacts'
  BY <1>1, <1>2, <1>4 DEF HolderFacts, produced, EndOf, Span
<1>6. QED
  BY <1>3, <1>5 DEF LockedInv

LEMMA OtherSteps ==
  ASSUME LockedInv,
         \/ \E c \in Clients : Receiving(c)
         \/ UNCHANGED lockedVars
  PROVE  LockedInv'
<1>1. LockedTypeOK /\ MutualExclusion /\ HolderFacts
  BY DEF LockedInv
<1>2. UNCHANGED <<ring, ends, holder, pushing, size, before, attaching, fresh>>
  BY DEF Receiving, recv, lagged, detach, lockVars, lockedVars, fanoutVars
<1>3. LockedTypeOK' /\ MutualExclusion'
  BY <1>1, <1>2 DEF LockedTypeOK, MutualExclusion
<1>4. HolderFacts'
  BY <1>1, <1>2 DEF HolderFacts, produced, EndOf, Span
<1>5. QED
  BY <1>3, <1>4 DEF LockedInv

LEMMA LockedInductive == LockedSpec => []LockedInv
<1>1. LockedInit => LockedInv
  BY HolderAssumption DEF LockedInit, LockedInv, LockedTypeOK, MutualExclusion,
                          HolderFacts
<1>2. LockedInv /\ [LockedNext]_lockedVars => LockedInv'
  <2> SUFFICES ASSUME LockedInv, [LockedNext]_lockedVars PROVE LockedInv'
    OBVIOUS
  <2>1. CASE (\E n \in 1 .. MaxChunk : pushLock(n)) \/ pushAppend \/ pushSend \/ pushUnlock
    BY <2>1, PushSteps
  <2>2. ASSUME NEW c \in Clients,
               \/ attachLock(c)
               \/ attachSubscribe(c)
               \/ attachSnapshot(c)
               \/ attachUnlock(c)
        PROVE  LockedInv'
    BY <2>2, AttachSteps
  <2>3. CASE (\E c \in Clients : Receiving(c)) \/ UNCHANGED lockedVars
    BY <2>3, OtherSteps
  <2>4. QED
    BY <2>1, <2>2, <2>3 DEF LockedNext
<1>3. QED
  BY <1>1, <1>2, PTL DEF LockedSpec

\* push and attach exclude each other between lock and unlock.
THEOREM LockExcludes == LockedSpec => []MutualExclusion
<1>1. LockedInv => MutualExclusion
  BY DEF LockedInv
<1>2. QED
  BY <1>1, LockedInductive, PTL

-------------------------------------------------------------------------------

\* The atomic module's operators, at the refinement mapping.
LEMMA AtomicOperators ==
  /\ Atomic!produced = produced
  /\ \A k : Atomic!EndOf(k) = EndOf(k)
  /\ \A k : Atomic!chunk(k) = chunk(k)
  /\ \A a, b : Atomic!Span(a, b) = Span(a, b)
  /\ \A s, d : Atomic!Scroll!AfterAppend(s, d) = Scroll!AfterAppend(s, d)
  /\ \A c : Atomic!Lags(c) = Lags(c)
BY DEF Atomic!produced, produced, Atomic!EndOf, EndOf, Atomic!chunk, chunk,
       Atomic!Span, Span, Atomic!Scroll!AfterAppend, Scroll!AfterAppend,
       Atomic!Scroll!Newest, Scroll!Newest, Atomic!Lags, Lags

\* With the mutex, push and attach behave as the single steps of Fanout.
THEOREM LockRefinesAtomic == LockedSpec => ImplementsFanout
<1>1. LockedInit => Atomic!Init
  BY DEF LockedInit, new, Atomic!Init, Atomic!new, visibleRing
<1>2. LockedInv /\ LockedInv' /\ [LockedNext]_lockedVars
        => [Atomic!Next]_Atomic!fanoutVars
  <2> SUFFICES ASSUME LockedInv, [LockedNext]_lockedVars
               PROVE  Atomic!Next \/ UNCHANGED <<visibleRing, ends, next, got>>
    BY DEF Atomic!fanoutVars
  <2>1. LockedTypeOK /\ MutualExclusion /\ HolderFacts
    BY DEF LockedInv
  <2>2. ASSUME NEW n \in 1 .. MaxChunk, pushLock(n)
        PROVE  UNCHANGED <<visibleRing, ends, next, got>>
    BY <2>2 DEF pushLock, fanoutVars, visibleRing
  <2>3. CASE pushAppend
    BY <2>1, <2>3 DEF pushAppend, visibleRing, HolderFacts
  <2>4. CASE pushSend
    <3>1. visibleRing = before /\ visibleRing' = ring
      BY <2>4 DEF pushSend, visibleRing
    <3>2. ring = Scroll!AfterAppend(before, Span(produced, produced + size))
      BY <2>1, <2>4 DEF pushSend, HolderFacts
    <3>3. size \in 1 .. MaxChunk /\ produced + size <= MaxBytes
      BY <2>1, <2>4 DEF pushSend, HolderFacts
    <3>4. Atomic!push(size)
      BY <2>4, <3>1, <3>2, <3>3, AtomicOperators DEF pushSend, Atomic!push
    <3>5. QED
      BY <3>3, <3>4 DEF Atomic!Next
  <2>5. CASE pushUnlock
    BY <2>5 DEF pushUnlock, fanoutVars, visibleRing
  <2>6. ASSUME NEW c \in Clients, attachLock(c) \/ attachSubscribe(c) \/ attachUnlock(c)
        PROVE  UNCHANGED <<visibleRing, ends, next, got>>
    BY <2>6 DEF attachLock, attachSubscribe, attachUnlock, fanoutVars, visibleRing
  <2>7. ASSUME NEW c \in Clients, attachSnapshot(c)
        PROVE  Atomic!Next
    <3>1. pushing = "idle" /\ fresh[c] = Len(ends) + 1
      BY <2>1, <2>7, HolderAssumption
         DEF attachSnapshot, MutualExclusion, HolderFacts
    <3>2. visibleRing = ring /\ visibleRing' = ring
      BY <2>7, <3>1 DEF attachSnapshot, visibleRing
    <3>3. Atomic!attach(c)
      BY <2>7, <3>1, <3>2 DEF attachSnapshot, Atomic!attach
    <3>4. QED
      BY <3>3 DEF Atomic!Next
  <2>8. ASSUME NEW c \in Clients, Receiving(c)
        PROVE  Atomic!Next
    <3>1. UNCHANGED <<ends, visibleRing>>
      BY <2>8 DEF Receiving, recv, lagged, detach, lockVars, visibleRing
    <3>2. CASE recv(c)
      <4>1. Atomic!recv(c)
        BY <3>1, <3>2, AtomicOperators DEF recv, Atomic!recv
      <4>2. QED
        BY <4>1 DEF Atomic!Next
    <3>3. CASE lagged(c)
      <4>1. Atomic!lagged(c)
        BY <3>1, <3>3, AtomicOperators DEF lagged, Atomic!lagged
      <4>2. QED
        BY <4>1 DEF Atomic!Next
    <3>4. CASE detach(c)
      <4>1. Atomic!detach(c)
        BY <3>1, <3>4 DEF detach, Atomic!detach
      <4>2. QED
        BY <4>1 DEF Atomic!Next
    <3>5. QED
      BY <2>8, <3>2, <3>3, <3>4 DEF Receiving
  <2>9. CASE UNCHANGED lockedVars
    BY <2>9 DEF lockedVars, fanoutVars, lockVars, visibleRing
  <2>10. QED
    BY <2>2, <2>3, <2>4, <2>5, <2>6, <2>7, <2>8, <2>9 DEF LockedNext
<1>3. QED
  BY <1>1, <1>2, LockedInductive, PTL
     DEF LockedSpec, ImplementsFanout, Atomic!Spec
===============================================================================
