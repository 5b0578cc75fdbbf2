----------------------------- MODULE CodecProofs ------------------------------
(***************************************************************************)
(* For every base, longest frame and size of a read: what decode makes of  *)
(* a message that encode wrote, and what a handler is given of a stream    *)
(* that arrives in pieces and may stop anywhere.                           *)
(***************************************************************************)
EXTENDS Codec, SequenceTheorems, TLAPS

\* The bytes written that the handler has not decoded.
Stream == buffer \o wire

\* s has the bytes of t behind position p.
Holds(s, p, t) == p + Len(t) <= Len(s) /\ \A j \in 1 .. Len(t) : s[p + j] = t[j]

\* As far as both go, s and t are the same.
Agree(s, t) == \A j \in 1 .. Len(t) : j <= Len(s) => s[j] = t[j]

\* s begins with the frames of the messages behind the first k; that of
\* message i ends at cut[i].
Framed(cut, msgs, k, s) ==
  /\ cut \in [k .. Len(msgs) -> Nat] /\ cut[k] = 0
  /\ \A i, j \in k .. Len(msgs) : i <= j => cut[i] <= cut[j]
  /\ \A i \in k + 1 .. Len(msgs) :
       /\ cut[i] = cut[i - 1] + Len(encode(msgs[i]))
       /\ Holds(s, cut[i - 1], encode(msgs[i]))

\* Behind these, that is behind position e, there is nothing, unless the client
\* has gone, in the middle of a message perhaps, or wrote something else.
Remainder(e, s, gone, other) ==
  /\ e <= Len(s)
  /\ ~gone /\ ~other => e = Len(s)
  /\ gone /\ ~other =>
       \E m \in Messages :
         /\ Len(s) - e < Len(encode(m))
         /\ \A j \in 1 .. Len(s) - e : s[e + j] = encode(m)[j]

\* Of the messages msgs, s still has what the first k left.
OnItsWay(msgs, k, s, gone, other) ==
  \E cut : Framed(cut, msgs, k, s) /\ Remainder(cut[Len(msgs)], s, gone, other)

Types ==
  /\ sent \in Seq(Messages) /\ closed \in BOOLEAN /\ foreign \in BOOLEAN
  /\ wire \in Seq(Byte) /\ buffer \in Seq(Byte) /\ got \in Seq(Message)
  /\ readable \in BOOLEAN /\ eof \in BOOLEAN /\ ended \in {"no", "refused", "eof"}

\* The socket is read only when there is no frame, which bounds the buffer.
ReadInv ==
  /\ ~readable => decode(buffer) = Incomplete
  /\ Len(buffer) < HEADER_LEN + MaxFrame + MaxRead
  /\ eof => closed /\ wire = <<>>

\* What is missing of the messages sent is on its way.
StreamInv ==
  Len(got) <= Len(sent) => OnItsWay(sent, Len(got), Stream, closed, foreign)

EndInv == ended # "no" => Len(got) >= Len(sent) /\ (closed \/ foreign)

IInv == Types /\ ReadInv /\ FramesInOrder /\ StreamInv /\ EndInv

-------------------------------------------------------------------------------

LEMMA DivMod ==
  ASSUME NEW b \in Nat \ {0}, NEW n \in Nat
  PROVE  /\ n \div b \in Nat /\ n % b \in 0 .. b - 1
         /\ n = b * (n \div b) + (n % b)
  BY SMT

LEMMA DivBound ==
  ASSUME NEW b \in Nat \ {0}, NEW c \in Nat, NEW n \in Nat, n < b * c
  PROVE  n \div b < c
<1>1. n \div b \in Nat /\ b * (n \div b) <= n
  BY DivMod, SMT
<1>2. CASE n \div b >= c
  <2>1. b * (n \div b) >= b * c
    BY <1>1, <1>2, SMT
  <2>2. QED
    BY <2>1, <1>1, SMT
<1>3. QED
  BY <1>1, <1>2

\* A u16 takes two bytes, and is read back as it was.
LEMMA U16Inverse ==
  ASSUME NEW n \in Short
  PROVE  /\ u16(n) \in Seq(Byte) /\ Len(u16(n)) = 2
         /\ u16(n)[1] \in Byte /\ u16(n)[2] \in Byte
         /\ u16Of(u16(n)[1], u16(n)[2]) = n
<1>1. Base \in Nat \ {0} /\ n \in Nat /\ n < Base * Base
  BY SizesAssumption DEF Short
<1>2. n \div Base < Base
  BY <1>1, DivBound
<1>3. n \div Base \in Nat /\ n = Base * (n \div Base) + (n % Base) /\ n % Base \in Byte
  BY <1>1, DivMod DEF Byte
<1>4. (n \div Base) % Base = n \div Base
  BY <1>1, <1>2, <1>3, SMT
<1>5. n \div Base \in Byte
  BY <1>1, <1>2, <1>3 DEF Byte
<1> DEFINE q == n \div Base
           r == n % Base
<1>6. u16(n) = <<q, r>>
  BY <1>4 DEF u16
<1>7. q * Base + r = n
  BY <1>1, <1>3, <1>5, SMT DEF Byte
<1>8. q \in Byte /\ r \in Byte
  BY <1>3, <1>5
<1> HIDE DEF q, r
<1>9. QED
  BY <1>6, <1>7, <1>8 DEF u16Of

\* A length below the largest of four bytes takes four, and is read back as it was.
LEMMA U32Inverse ==
  ASSUME NEW n \in Nat, n < Base * Base * Base * Base
  PROVE  /\ u32(n) \in Seq(Byte) /\ Len(u32(n)) = 4
         /\ u32Of(u32(n)[1], u32(n)[2], u32(n)[3], u32(n)[4]) = n
<1> DEFINE BB == Base * Base
           q == n \div BB
           r == n % BB
<1>1. Base \in Nat \ {0} /\ BB \in Nat \ {0}
  BY SizesAssumption, SMT
<1>2. n < BB * BB
  BY <1>1, SMT
<1>3. q \in Nat /\ r \in 0 .. BB - 1 /\ n = BB * q + r
  <2> HIDE DEF BB
  <2> QED BY <1>1, DivMod
<1>4. q < BB
  <2> HIDE DEF BB
  <2> QED BY <1>1, <1>2, DivBound
<1>5. q \in Short /\ r \in Short
  BY <1>1, <1>3, <1>4 DEF Short
<1>6. u32(n) = u16(q) \o u16(r)
  BY DEF u32
<1>7. q * BB + r = n
  <2> HIDE DEF BB, q, r
  <2> QED BY <1>1, <1>3, <1>5, SMT DEF Short
<1> HIDE DEF q, r
<1>8. /\ u16(q) \in Seq(Byte) /\ Len(u16(q)) = 2 /\ u16(r) \in Seq(Byte) /\ Len(u16(r)) = 2
  BY <1>5, U16Inverse
<1>9. /\ u32(n) \in Seq(Byte) /\ Len(u32(n)) = 4
      /\ u32(n)[1] = u16(q)[1] /\ u32(n)[2] = u16(q)[2]
      /\ u32(n)[3] = u16(r)[1] /\ u32(n)[4] = u16(r)[2]
  BY <1>6, <1>8, ConcatProperties
<1>10. u16Of(u16(q)[1], u16(q)[2]) = q /\ u16Of(u16(r)[1], u16(r)[2]) = r
  BY <1>5, U16Inverse
<1>11. QED
  BY <1>7, <1>9, <1>10 DEF u32Of

-------------------------------------------------------------------------------

\* The length and the elements of bytes behind bytes.
LEMMA Joined ==
  ASSUME NEW a \in Seq(Byte), NEW b \in Seq(Byte), NEW s, s = a \o b
  PROVE  /\ s \in Seq(Byte) /\ Len(s) = Len(a) + Len(b)
         /\ \A i \in 1 .. Len(a) + Len(b) :
              s[i] = IF i <= Len(a) THEN a[i] ELSE b[i - Len(a)]
  BY ConcatProperties

\* The bytes of two numbers of two bytes each.
LEMMA TwoNumbers ==
  ASSUME NEW r \in Short, NEW c \in Short, NEW p, p = u16(r) \o u16(c)
  PROVE  /\ p \in Seq(Byte) /\ Len(p) = 4
         /\ u16Of(p[1], p[2]) = r /\ u16Of(p[3], p[4]) = c
<1> DEFINE a == u16(r)
           b == u16(c)
<1>1. /\ a \in Seq(Byte) /\ Len(a) = 2 /\ b \in Seq(Byte) /\ Len(b) = 2
      /\ u16Of(a[1], a[2]) = r /\ u16Of(b[1], b[2]) = c
  BY U16Inverse
<1>2. a \in Seq(Byte) /\ b \in Seq(Byte) /\ p = a \o b
  BY <1>1
<1> HIDE DEF a, b
<1>3. /\ p \in Seq(Byte) /\ Len(p) = Len(a) + Len(b)
      /\ \A i \in 1 .. Len(a) + Len(b) :
           p[i] = IF i <= Len(a) THEN a[i] ELSE b[i - Len(a)]
  BY ONLY <1>2, Joined
<1>4. /\ Len(p) = 4
      /\ \A i \in 1 .. 4 : p[i] = IF i <= 2 THEN a[i] ELSE b[i - 2]
  BY ONLY <1>1, <1>3
<1>5. p[1] = a[1] /\ p[2] = a[2] /\ p[3] = b[1] /\ p[4] = b[2]
  BY ONLY <1>4
<1>6. QED
  BY <1>1, <1>3, <1>4, <1>5

\* A byte with two numbers behind it.
Redraw(x, r, c) == <<x>> \o u16(r) \o u16(c)

LEMMA ByteAndNumbers ==
  ASSUME NEW x \in Byte, NEW r \in Short, NEW c \in Short
  PROVE  LET p == Redraw(x, r, c)
         IN  /\ p \in Seq(Byte) /\ Len(p) = 5 /\ p[1] = x
             /\ u16Of(p[2], p[3]) = r /\ u16Of(p[4], p[5]) = c
<1> DEFINE p == Redraw(x, r, c)
           a == <<x>>
           b == u16(r)
           ab == a \o b
           d == u16(c)
<1>1. /\ a \in Seq(Byte) /\ Len(a) = 1 /\ a[1] = x
      /\ b \in Seq(Byte) /\ Len(b) = 2 /\ d \in Seq(Byte) /\ Len(d) = 2
      /\ u16Of(b[1], b[2]) = r /\ u16Of(d[1], d[2]) = c
  BY U16Inverse
<1>2. a \in Seq(Byte) /\ b \in Seq(Byte) /\ ab = a \o b
  BY <1>1
<1>3. p = ab \o d /\ d \in Seq(Byte)
  BY <1>1 DEF Redraw
<1> HIDE DEF p, a, b, ab, d
<1>4. /\ ab \in Seq(Byte) /\ Len(ab) = Len(a) + Len(b)
      /\ \A i \in 1 .. Len(a) + Len(b) :
           ab[i] = IF i <= Len(a) THEN a[i] ELSE b[i - Len(a)]
  BY ONLY <1>2, Joined
<1>5. /\ Len(ab) = 3
      /\ \A i \in 1 .. 3 : ab[i] = IF i <= 1 THEN a[i] ELSE b[i - 1]
  BY ONLY <1>1, <1>4
<1>6. ab[1] = a[1] /\ ab[2] = b[1] /\ ab[3] = b[2]
  BY ONLY <1>5
<1>7. /\ p \in Seq(Byte) /\ Len(p) = Len(ab) + Len(d)
      /\ \A i \in 1 .. Len(ab) + Len(d) :
           p[i] = IF i <= Len(ab) THEN ab[i] ELSE d[i - Len(ab)]
  BY ONLY <1>3, <1>4, Joined
<1>8. /\ Len(p) = 5
      /\ \A i \in 1 .. 5 : p[i] = IF i <= 3 THEN ab[i] ELSE d[i - 3]
  BY ONLY <1>1, <1>5, <1>7
<1>9. p[1] = ab[1] /\ p[2] = ab[2] /\ p[3] = ab[3] /\ p[4] = d[1] /\ p[5] = d[2]
  BY ONLY <1>8
<1>10. QED
  BY <1>1, <1>6, <1>7, <1>8, <1>9 DEF p

\* A payload is bytes, and no longer than a frame may be.
LEMMA PayloadType ==
  ASSUME NEW m \in Messages
  PROVE  /\ PayloadOf(m) \in Seq(Byte) /\ Len(PayloadOf(m)) <= MaxFrame
         /\ TagOf[m.type] \in Byte
<1>1. m \in Message /\ (m.type = "push" => Len(m.data) <= MaxFrame)
  BY MessagesAssumption
<1>2. \A n \in 0 .. 5 : n \in Byte
  BY SizesAssumption DEF Byte
<1>3. CASE m \in [type : {"push"}, data : Seq(Byte)]
  BY <1>1, <1>2, <1>3 DEF PayloadOf, TagOf
<1>4. CASE m \in [type : {"attach"}, skip_ring : BOOLEAN]
  BY <1>2, <1>4, SizesAssumption DEF PayloadOf, TagOf
<1>5. CASE m \in [type : {"detach"}]
  BY <1>2, <1>5, SizesAssumption DEF PayloadOf, TagOf
<1>6. CASE m \in [type : {"winch"}, rows : Short, cols : Short]
  <2>1. PayloadOf(m) = u16(m.rows) \o u16(m.cols) /\ TagOf[m.type] = 3
    BY <1>6 DEF PayloadOf, TagOf
  <2>2. PayloadOf(m) \in Seq(Byte) /\ Len(PayloadOf(m)) = 4
    <3>1. m.rows \in Short /\ m.cols \in Short
      BY <1>6
    <3>2. QED
      BY ONLY <2>1, <3>1, TwoNumbers
  <2>3. QED
    BY <2>1, <2>2, <1>2, SizesAssumption
<1>7. CASE m \in [type : {"redraw"}, method : RedrawMethods, rows : Short, cols : Short]
  <2>1. /\ PayloadOf(m) = <<to_u8[m.method]>> \o u16(m.rows) \o u16(m.cols)
        /\ TagOf[m.type] = 4
    BY <1>7 DEF PayloadOf, TagOf
  <2>2. to_u8[m.method] \in Byte
    BY <1>2, <1>7 DEF RedrawMethods, to_u8
  <2>3. PayloadOf(m) \in Seq(Byte) /\ Len(PayloadOf(m)) = 5
    <3>1. m.rows \in Short /\ m.cols \in Short /\ PayloadOf(m) = Redraw(to_u8[m.method], m.rows, m.cols)
      BY <1>7, <2>1 DEF Redraw
    <3>2. QED
      BY <2>2, <3>1, ByteAndNumbers
  <2>4. QED
    BY <2>1, <2>3, <1>2, SizesAssumption
<1>8. CASE m \in [type : {"kill"}, signal : Signals]
  BY <1>2, <1>8, SizesAssumption DEF PayloadOf, TagOf, Signals
<1>9. QED
  BY <1>1, <1>3, <1>4, <1>5, <1>6, <1>7, <1>8 DEF Message

\* A payload is read back as the message it was made of.
LEMMA PayloadInverse ==
  ASSUME NEW m \in Messages
  PROVE  decode_payload(TagOf[m.type], PayloadOf(m)) = m
<1>1. m \in Message
  BY MessagesAssumption
<1>3. CASE m \in [type : {"push"}, data : Seq(Byte)]
  <2>1. m = [type |-> "push", data |-> m.data] /\ PayloadOf(m) = m.data /\ TagOf[m.type] = 0
    BY <1>3 DEF PayloadOf, TagOf
  <2>2. decode_payload(0, m.data) = [type |-> "push", data |-> m.data]
    BY DEF decode_payload, TagOf
  <2>3. QED
    BY <2>1, <2>2
<1>4. CASE m \in [type : {"attach"}, skip_ring : BOOLEAN]
  <2> DEFINE p == PayloadOf(m)
  <2>1. p = <<IF m.skip_ring THEN 1 ELSE 0>> /\ TagOf[m.type] = 1
    BY <1>4 DEF PayloadOf, TagOf
  <2> HIDE DEF p
  <2>2. Len(p) = 1 /\ (p[1] # 0) = m.skip_ring
    <3>1. m.skip_ring \in BOOLEAN
      BY <1>4
    <3>2. QED
      BY <2>1, <3>1
  <2>3. decode_payload(1, p) = [type |-> "attach", skip_ring |-> p[1] # 0]
    BY <2>2 DEF decode_payload, TagOf
  <2>4. m = [type |-> "attach", skip_ring |-> m.skip_ring]
    BY <1>4
  <2>5. QED
    BY <2>1, <2>2, <2>3, <2>4, Zenon DEF p
<1>5. CASE m \in [type : {"detach"}]
  <2>1. m = [type |-> "detach"] /\ PayloadOf(m) = <<>> /\ TagOf[m.type] = 2
    BY <1>5 DEF PayloadOf, TagOf
  <2>2. decode_payload(2, <<>>) = [type |-> "detach"]
    BY DEF decode_payload, TagOf
  <2>3. QED
    BY <2>1, <2>2
<1>6. CASE m \in [type : {"winch"}, rows : Short, cols : Short]
  <2> DEFINE p == PayloadOf(m)
  <2>1. p = u16(m.rows) \o u16(m.cols) /\ TagOf[m.type] = 3
    BY <1>6 DEF PayloadOf, TagOf
  <2> HIDE DEF p
  <2>2. Len(p) = 4 /\ u16Of(p[1], p[2]) = m.rows /\ u16Of(p[3], p[4]) = m.cols
    <3>1. m.rows \in Short /\ m.cols \in Short
      BY <1>6
    <3>2. QED
      BY ONLY <2>1, <3>1, TwoNumbers, ZenonT(40)
  <2>3. decode_payload(3, p) = [type |-> "winch", rows |-> m.rows, cols |-> m.cols]
    BY <2>2 DEF decode_payload, TagOf
  <2>4. QED
    BY <1>6, <2>1, <2>3 DEF p
<1>7. CASE m \in [type : {"redraw"}, method : RedrawMethods, rows : Short, cols : Short]
  <2> DEFINE p == PayloadOf(m)
  <2>1. p = <<to_u8[m.method]>> \o u16(m.rows) \o u16(m.cols) /\ TagOf[m.type] = 4
    BY <1>7 DEF PayloadOf, TagOf
  <2> HIDE DEF p
  <2>2. to_u8[m.method] \in Byte
    BY <1>7, SizesAssumption DEF RedrawMethods, to_u8, Byte
  <2>3. /\ Len(p) = 5 /\ p[1] = to_u8[m.method]
        /\ u16Of(p[2], p[3]) = m.rows /\ u16Of(p[4], p[5]) = m.cols
    <3>1. m.rows \in Short /\ m.cols \in Short /\ p = Redraw(to_u8[m.method], m.rows, m.cols)
      BY <1>7, <2>1 DEF Redraw
    <3>2. QED
      BY <2>2, <3>1, ByteAndNumbers
  <2>4. \A r \in RedrawMethods : to_u8[r] = p[1] => r = m.method
    BY <1>7, <2>3 DEF RedrawMethods, to_u8
  <2>5. (CHOOSE r \in RedrawMethods : to_u8[r] = p[1]) = m.method
    BY <1>7, <2>3, <2>4
  <2>6. \E r \in RedrawMethods : to_u8[r] = p[1]
    BY <1>7, <2>3
  <2>7. decode_payload(4, p) =
          [type |-> "redraw", method |-> CHOOSE r \in RedrawMethods : to_u8[r] = p[1],
           rows |-> u16Of(p[2], p[3]), cols |-> u16Of(p[4], p[5])]
    BY <2>3, <2>6 DEF decode_payload, TagOf
  <2>8. decode_payload(4, p) =
          [type |-> "redraw", method |-> m.method, rows |-> m.rows, cols |-> m.cols]
    BY <2>3, <2>5, <2>7
  <2>9. QED
    BY <1>7, <2>1, <2>8 DEF p
<1>8. CASE m \in [type : {"kill"}, signal : Signals]
  <2> DEFINE p == PayloadOf(m)
  <2>1. p = <<m.signal>> /\ TagOf[m.type] = 5
    BY <1>8 DEF PayloadOf, TagOf
  <2> HIDE DEF p
  <2>2. Len(p) = 1 /\ p[1] = m.signal
    BY <2>1
  <2>3. decode_payload(5, p) = [type |-> "kill", signal |-> p[1]]
    BY <2>2 DEF decode_payload, TagOf
  <2>4. QED
    BY <1>8, <2>1, <2>2, <2>3 DEF p
<1>9. QED
  BY <1>1, <1>3, <1>4, <1>5, <1>6, <1>7, <1>8 DEF Message

-------------------------------------------------------------------------------

\* A tag, a length and a payload behind each other.
Frame(x, p) == <<x>> \o u32(Len(p)) \o p

LEMMA FrameParts ==
  ASSUME NEW x \in Byte, NEW p \in Seq(Byte), Len(p) <= MaxFrame
  PROVE  LET f == Frame(x, p)
         IN  /\ f \in Seq(Byte) /\ Len(f) = 5 + Len(p) /\ f[1] = x
             /\ u32Of(f[2], f[3], f[4], f[5]) = Len(p)
             /\ \A j \in 1 .. Len(p) : f[5 + j] = p[j]
<1> DEFINE f  == Frame(x, p)
           a  == <<x>>
           l  == u32(Len(p))
           al == a \o l
<1>1. /\ a \in Seq(Byte) /\ Len(a) = 1 /\ a[1] = x /\ Len(p) \in Nat
  OBVIOUS
<1>2. Len(p) < Base * Base * Base * Base
  <2> DEFINE N == Base * Base * Base * Base
  <2>1. N \in Nat /\ MaxFrame \in Nat /\ MaxFrame < N
    BY SizesAssumption
  <2> HIDE DEF N
  <2>2. Len(p) < N
    BY <1>1, <2>1
  <2>3. QED
    BY <2>2 DEF N
<1>3. l \in Seq(Byte) /\ Len(l) = 4 /\ u32Of(l[1], l[2], l[3], l[4]) = Len(p)
  BY <1>1, <1>2, U32Inverse
<1>4. a \in Seq(Byte) /\ l \in Seq(Byte) /\ al = a \o l
  BY <1>1, <1>3
<1>5. f = al \o p /\ p \in Seq(Byte)
  BY DEF Frame
<1> HIDE DEF f, a, l, al
<1>6. /\ al \in Seq(Byte) /\ Len(al) = Len(a) + Len(l)
      /\ \A i \in 1 .. Len(a) + Len(l) :
           al[i] = IF i <= Len(a) THEN a[i] ELSE l[i - Len(a)]
  BY ONLY <1>4, Joined
<1>7. /\ Len(al) = 5
      /\ \A i \in 1 .. 5 : al[i] = IF i <= 1 THEN a[i] ELSE l[i - 1]
  BY ONLY <1>1, <1>3, <1>6
<1>8. al[1] = a[1] /\ al[2] = l[1] /\ al[3] = l[2] /\ al[4] = l[3] /\ al[5] = l[4]
  BY ONLY <1>7
<1>9. /\ f \in Seq(Byte) /\ Len(f) = Len(al) + Len(p)
      /\ \A i \in 1 .. Len(al) + Len(p) :
           f[i] = IF i <= Len(al) THEN al[i] ELSE p[i - Len(al)]
  BY ONLY <1>5, <1>6, Joined
<1>10. /\ Len(f) = 5 + Len(p)
       /\ \A i \in 1 .. 5 + Len(p) : f[i] = IF i <= 5 THEN al[i] ELSE p[i - 5]
  BY ONLY <1>7, <1>9
<1>11. f[1] = al[1] /\ f[2] = al[2] /\ f[3] = al[3] /\ f[4] = al[4] /\ f[5] = al[5]
  BY ONLY <1>1, <1>10
<1>12. ASSUME NEW j \in 1 .. Len(p)
       PROVE  f[5 + j] = p[j]
  <2>1. 5 + j \in 1 .. 5 + Len(p) /\ ~(5 + j <= 5) /\ 5 + j - 5 = j
    BY <1>1
  <2>2. QED
    BY <1>10, <2>1
<1>13. QED
  BY <1>1, <1>3, <1>8, <1>9, <1>10, <1>11, <1>12 DEF f

\* What encode writes: the tag, the length of the payload, the payload.
LEMMA EncodeParts ==
  ASSUME NEW m \in Messages
  PROVE  LET e == encode(m)
             p == PayloadOf(m)
         IN  /\ p \in Seq(Byte) /\ Len(p) <= MaxFrame
             /\ e \in Seq(Byte) /\ Len(e) = 5 + Len(p) /\ e[1] = TagOf[m.type]
             /\ u32Of(e[2], e[3], e[4], e[5]) = Len(p)
             /\ \A j \in 1 .. Len(p) : e[5 + j] = p[j]
<1>1. encode(m) = Frame(TagOf[m.type], PayloadOf(m))
  BY DEF encode, Frame
<1>2. /\ PayloadOf(m) \in Seq(Byte) /\ Len(PayloadOf(m)) <= MaxFrame
      /\ TagOf[m.type] \in Byte
  BY PayloadType
<1> DEFINE p == PayloadOf(m)
           x == TagOf[m.type]
           f == Frame(x, p)
<1>3. p \in Seq(Byte) /\ Len(p) <= MaxFrame /\ x \in Byte
  BY <1>2
<1> HIDE DEF p, x
<1>4. /\ f \in Seq(Byte) /\ Len(f) = 5 + Len(p) /\ f[1] = x
      /\ u32Of(f[2], f[3], f[4], f[5]) = Len(p)
      /\ \A j \in 1 .. Len(p) : f[5 + j] = p[j]
  BY ONLY <1>3, FrameParts
<1>5. encode(m) = f
  BY <1>1 DEF p, x
<1> HIDE DEF f
<1>6. QED
  BY <1>3, <1>4, <1>5 DEF p, x

\* A frame is at least a header.
LEMMA EncodeType ==
  ASSUME NEW m \in Messages
  PROVE  encode(m) \in Seq(Byte) /\ Len(encode(m)) \in Nat /\ Len(encode(m)) >= 5
<1>1. /\ PayloadOf(m) \in Seq(Byte) /\ encode(m) \in Seq(Byte)
      /\ Len(encode(m)) = 5 + Len(PayloadOf(m))
  BY EncodeParts
<1>2. QED
  BY <1>1

\* decode waits for the whole of a frame that encode wrote, and gives back its
\* message, whatever follows it.
LEMMA DecodeEncoded ==
  ASSUME NEW m \in Messages, NEW b \in Seq(Byte), Agree(b, encode(m))
  PROVE  /\ Len(b) < Len(encode(m)) => decode(b) = Incomplete
         /\ Len(b) >= Len(encode(m)) => decode(b) = m /\ FrameEnd(b) = Len(encode(m))
<1> DEFINE e == encode(m)
           p == PayloadOf(m)
<1>1. /\ p \in Seq(Byte) /\ Len(p) <= MaxFrame
      /\ e \in Seq(Byte) /\ Len(e) = 5 + Len(p) /\ e[1] = TagOf[m.type]
      /\ u32Of(e[2], e[3], e[4], e[5]) = Len(p)
      /\ \A j \in 1 .. Len(p) : e[5 + j] = p[j]
  BY EncodeParts
<1>2. \A j \in 1 .. Len(e) : j <= Len(b) => b[j] = e[j]
  BY DEF Agree
<1>3. Len(b) \in Nat /\ Len(p) \in Nat /\ MaxFrame \in Nat
  BY <1>1, SizesAssumption
<1>4. decode_payload(TagOf[m.type], p) = m
  BY PayloadInverse
<1> HIDE DEF e, p
<1>5. CASE Len(b) < 5
  BY <1>1, <1>3, <1>5 DEF decode, HEADER_LEN, e
<1>6. CASE Len(b) >= 5
  <2>1. b[1] = e[1] /\ b[2] = e[2] /\ b[3] = e[3] /\ b[4] = e[4] /\ b[5] = e[5]
    BY <1>1, <1>2, <1>3, <1>6
  <2>2. ClaimedLen(b) = Len(p)
    BY <1>1, <2>1 DEF ClaimedLen
  <2>3. FrameEnd(b) = Len(e)
    BY <1>1, <2>2 DEF FrameEnd, HEADER_LEN
  <2>4. CASE Len(b) < Len(e)
    BY <1>1, <1>3, <1>6, <2>2, <2>3, <2>4 DEF decode, HEADER_LEN, e
  <2>5. CASE Len(b) >= Len(e)
    <3>1. SubSeq(b, 6, Len(e)) = p
      <4> DEFINE q == SubSeq(b, 6, Len(e))
      <4>1. /\ q \in Seq(Byte) /\ Len(q) = Len(p)
            /\ \A i \in 1 .. Len(p) : q[i] = b[6 + i - 1]
        <5>1. 6 \in Nat /\ Len(e) \in Nat /\ 6 \in 1 .. Len(b) + 1 /\ Len(e) \in 5 .. Len(b)
          BY <1>1, <1>3, <1>6, <2>5
        <5>2. QED
          BY <1>1, <1>3, <5>1
      <4>2. ASSUME NEW i \in 1 .. Len(p)
            PROVE  q[i] = p[i]
        <5>1. /\ 6 + i - 1 = 5 + i /\ 5 + i \in 1 .. Len(e) /\ 5 + i <= Len(b)
              /\ q[i] = b[6 + i - 1]
          BY <1>1, <1>3, <2>5, <4>1
        <5>2. QED
          BY <1>1, <1>2, <5>1
      <4> HIDE DEF q
      <4>3. q = p
        BY <1>1, <4>1, <4>2, SeqEqual
      <4>4. QED
        BY <4>3 DEF q
    <3>2. decode(b) = decode_payload(b[1], SubSeq(b, 6, Len(e)))
      BY <1>1, <1>3, <1>6, <2>2, <2>3, <2>5 DEF decode, HEADER_LEN
    <3>3. decode(b) = m
      BY <1>1, <1>4, <2>1, <3>1, <3>2
    <3>4. Len(b) >= Len(e) /\ FrameEnd(b) = Len(e) /\ ~(Len(b) < Len(e))
      BY <1>1, <1>3, <2>3, <2>5
    <3>5. QED
      BY <3>3, <3>4 DEF e
  <2>6. QED
    BY <1>1, <1>3, <2>4, <2>5
<1>7. QED
  BY <1>3, <1>5, <1>6

\* A number read from bytes has its size.
LEMMA NumberTypes ==
  ASSUME NEW a \in Byte, NEW b \in Byte
  PROVE  u16Of(a, b) \in Short
<1>1. Base \in Nat /\ a \in Nat /\ b \in Nat /\ a <= Base - 1 /\ b <= Base - 1
  BY SizesAssumption DEF Byte
<1>2. a * Base \in Nat /\ a * Base <= (Base - 1) * Base
  BY <1>1, SMT
<1>3. (Base - 1) * Base = Base * Base - Base /\ Base * Base \in Nat
  BY <1>1, SMT
<1> DEFINE x == a * Base
           s == Base * Base
<1>4. x \in Nat /\ s \in Nat /\ x <= s - Base
  BY <1>1, <1>2, <1>3
<1> HIDE DEF x, s
<1>5. x + b \in 0 .. s - 1
  BY <1>1, <1>4
<1>6. QED
  BY <1>5 DEF u16Of, Short, x, s

LEMMA ClaimedType ==
  ASSUME NEW b \in Seq(Byte), Len(b) >= 5
  PROVE  ClaimedLen(b) \in Nat
<1>1. /\ b[1] \in Byte /\ b[2] \in Byte /\ b[3] \in Byte /\ b[4] \in Byte /\ b[5] \in Byte
  OBVIOUS
<1>2. u16Of(b[2], b[3]) \in Short /\ u16Of(b[4], b[5]) \in Short
  BY ONLY <1>1, NumberTypes
<1> DEFINE x == u16Of(b[2], b[3])
           y == u16Of(b[4], b[5])
<1>3. x \in Nat /\ y \in Nat /\ Base * Base \in Nat
  BY <1>2, SizesAssumption, SMT DEF Short
<1> HIDE DEF x, y
<1>4. x * (Base * Base) + y \in Nat
  BY <1>3, SMT
<1>5. QED
  BY <1>4 DEF ClaimedLen, u32Of, x, y

\* The answers that are no message are told from the others.
LEMMA NoMessage == Incomplete \notin Message /\ Refused \notin Message /\ Incomplete # Refused
  BY DEF Incomplete, Refused, Message

\* A payload is a message or refused.
LEMMA PayloadDecodes ==
  ASSUME NEW ty \in Byte, NEW p \in Seq(Byte)
  PROVE  decode_payload(ty, p) \in Message \cup {Refused}
<1>1. CASE ty = TagOf.push
  <2>1. decode_payload(ty, p) = [type |-> "push", data |-> p]
    BY <1>1 DEF decode_payload, TagOf
  <2>2. QED
    BY <2>1 DEF Message
<1>2. CASE ty = TagOf.attach /\ Len(p) = 1
  <2>1. decode_payload(ty, p) = [type |-> "attach", skip_ring |-> p[1] # 0]
    BY <1>2 DEF decode_payload, TagOf
  <2>2. (p[1] # 0) \in BOOLEAN
    OBVIOUS
  <2>3. QED
    BY <2>1, <2>2 DEF Message
<1>3. CASE ty = TagOf.detach /\ Len(p) = 0
  <2>1. decode_payload(ty, p) = [type |-> "detach"]
    BY <1>3 DEF decode_payload, TagOf
  <2>2. QED
    BY <2>1 DEF Message
<1>4. CASE ty = TagOf.winch /\ Len(p) = 4
  <2>1. decode_payload(ty, p) =
          [type |-> "winch", rows |-> u16Of(p[1], p[2]), cols |-> u16Of(p[3], p[4])]
    BY <1>4 DEF decode_payload, TagOf
  <2>2. p[1] \in Byte /\ p[2] \in Byte /\ p[3] \in Byte /\ p[4] \in Byte
    <3>1. Len(p) >= 4
      BY <1>4
    <3>2. QED
      BY ONLY p \in Seq(Byte), <3>1
  <2>3. u16Of(p[1], p[2]) \in Short /\ u16Of(p[3], p[4]) \in Short
    BY <2>2, NumberTypes
  <2>4. QED
    BY <2>1, <2>3 DEF Message
<1>5. CASE ty = TagOf.redraw /\ Len(p) = 5 /\ \E r \in RedrawMethods : to_u8[r] = p[1]
  <2>1. decode_payload(ty, p) =
          [type |-> "redraw", method |-> CHOOSE r \in RedrawMethods : to_u8[r] = p[1],
           rows |-> u16Of(p[2], p[3]), cols |-> u16Of(p[4], p[5])]
    BY <1>5 DEF decode_payload, TagOf
  <2>2. p[2] \in Byte /\ p[3] \in Byte /\ p[4] \in Byte /\ p[5] \in Byte
    <3>1. Len(p) >= 5
      BY <1>5
    <3>2. QED
      BY ONLY p \in Seq(Byte), <3>1
  <2>3. u16Of(p[2], p[3]) \in Short /\ u16Of(p[4], p[5]) \in Short
    BY <2>2, NumberTypes
  <2>4. (CHOOSE r \in RedrawMethods : to_u8[r] = p[1]) \in RedrawMethods
    BY <1>5
  <2>5. QED
    BY <2>1, <2>3, <2>4 DEF Message
<1>6. CASE ty = TagOf.kill /\ Len(p) = 1
  <2>1. decode_payload(ty, p) = [type |-> "kill", signal |-> p[1]]
    BY <1>6 DEF decode_payload, TagOf
  <2>2. Len(p) = 1
    BY <1>6
  <2>3. p[1] \in Signals
    BY <2>2 DEF Signals
  <2>4. QED
    BY <2>1, <2>3 DEF Message
<1>7. QED
  BY <1>1, <1>2, <1>3, <1>4, <1>5, <1>6 DEF decode_payload

\* While decode waits, the bytes are fewer than the longest frame has; a frame
\* that is given to the handler is there, and is what is taken out.
LEMMA DecodeTypes ==
  ASSUME NEW b \in Seq(Byte)
  PROVE  /\ decode(b) \in Message \cup {Incomplete, Refused}
         /\ decode(b) = Incomplete => Len(b) < HEADER_LEN + MaxFrame
         /\ decode(b) # Incomplete => Len(b) >= HEADER_LEN
         /\ decode(b) \in Message => FrameEnd(b) \in HEADER_LEN .. Len(b)
<1>1. Len(b) \in Nat /\ MaxFrame \in Nat /\ HEADER_LEN = 5
  BY SizesAssumption DEF HEADER_LEN
<1>2. CASE Len(b) < 5
  BY <1>1, <1>2, NoMessage DEF decode, HEADER_LEN
<1>3. CASE Len(b) >= 5
  <2>1. ClaimedLen(b) \in Nat /\ FrameEnd(b) = 5 + ClaimedLen(b)
    BY <1>3, ClaimedType DEF FrameEnd, HEADER_LEN
  <2>2. CASE ClaimedLen(b) > MaxFrame
    <3>1. decode(b) = Refused
      BY <1>1, <1>3, <2>2 DEF decode
    <3>2. QED
      BY <1>1, <1>3, <3>1, NoMessage
  <2>3. CASE ~(ClaimedLen(b) > MaxFrame) /\ Len(b) < FrameEnd(b)
    <3>1. decode(b) = Incomplete
      BY <1>1, <1>3, <2>3 DEF decode
    <3>2. QED
      BY <1>1, <2>1, <2>3, <3>1, NoMessage
  <2>4. CASE ~(ClaimedLen(b) > MaxFrame) /\ ~(Len(b) < FrameEnd(b))
    <3>1. decode(b) = decode_payload(b[1], SubSeq(b, 6, FrameEnd(b)))
      BY <1>1, <1>3, <2>4 DEF decode
    <3>2. b[1] \in Byte /\ SubSeq(b, 6, FrameEnd(b)) \in Seq(Byte)
      <4>1. b[1] \in Byte
        BY <1>3
      <4>2. \A i \in 6 .. FrameEnd(b) : b[i] \in Byte
        BY <1>1, <2>1, <2>4
      <4>3. QED
        BY <4>1, <4>2, <2>1, SubSeqProperties
    <3>3. decode(b) \in Message \cup {Refused}
      BY <3>1, <3>2, PayloadDecodes
    <3>4. QED
      BY <1>1, <1>3, <2>1, <2>4, <3>3, NoMessage
  <2>5. QED
    BY <2>2, <2>3, <2>4
<1>4. QED
  BY <1>1, <1>2, <1>3

-------------------------------------------------------------------------------

\* What s holds, a longer sequence holds too.
LEMMA HoldsLonger ==
  ASSUME NEW s \in Seq(Byte), NEW t \in Seq(Byte), NEW p \in Nat, NEW e \in Seq(Byte),
         Holds(s, p, e)
  PROVE  Holds(s \o t, p, e)
<1> DEFINE u == s \o t
<1>1. /\ u \in Seq(Byte) /\ Len(u) = Len(s) + Len(t)
      /\ \A i \in 1 .. Len(s) + Len(t) : u[i] = IF i <= Len(s) THEN s[i] ELSE t[i - Len(s)]
  BY Joined
<1>2. Len(s) \in Nat /\ Len(t) \in Nat /\ Len(e) \in Nat
  OBVIOUS
<1> HIDE DEF u
<1>3. p + Len(e) <= Len(u)
  BY <1>1, <1>2 DEF Holds
<1>4. ASSUME NEW j \in 1 .. Len(e)
      PROVE  u[p + j] = e[j]
  <2>1. p + j \in 1 .. Len(s) + Len(t) /\ p + j <= Len(s) /\ s[p + j] = e[j]
    BY <1>2 DEF Holds
  <2>2. QED
    BY <1>1, <2>1
<1>5. Holds(u, p, e)
  BY <1>3, <1>4 DEF Holds
<1>6. QED
  BY <1>5 DEF u

LEMMA FramedLonger ==
  ASSUME NEW msgs \in Seq(Messages), NEW k \in 0 .. Len(msgs),
         NEW s \in Seq(Byte), NEW t \in Seq(Byte), NEW cut, Framed(cut, msgs, k, s)
  PROVE  Framed(cut, msgs, k, s \o t)
<1>1. ASSUME NEW i \in k + 1 .. Len(msgs)
      PROVE  Holds(s \o t, cut[i - 1], encode(msgs[i]))
  <2>1. i \in 1 .. Len(msgs) /\ i - 1 \in k .. Len(msgs) /\ msgs[i] \in Messages
    OBVIOUS
  <2>2. encode(msgs[i]) \in Seq(Byte)
    BY <2>1, EncodeType
  <2>3. cut[i - 1] \in Nat /\ Holds(s, cut[i - 1], encode(msgs[i]))
    BY <2>1 DEF Framed
  <2>4. QED
    BY <2>2, <2>3, HoldsLonger
<1>2. QED
  BY <1>1 DEF Framed

\* Where the frames end.
LEMMA FramedEnd ==
  ASSUME NEW msgs \in Seq(Messages), NEW k \in 0 .. Len(msgs), NEW s, NEW cut,
         Framed(cut, msgs, k, s)
  PROVE  cut[Len(msgs)] \in Nat /\ Len(msgs) \in Nat
<1>1. Len(msgs) \in k .. Len(msgs)
  OBVIOUS
<1>2. QED
  BY <1>1 DEF Framed

\* One more message is written whole.
LEMMA WaySend ==
  ASSUME NEW msgs \in Seq(Messages), NEW k \in 0 .. Len(msgs), NEW s \in Seq(Byte),
         NEW m \in Messages, OnItsWay(msgs, k, s, FALSE, FALSE)
  PROVE  OnItsWay(Append(msgs, m), k, s \o encode(m), FALSE, FALSE)
<1> DEFINE e  == encode(m)
           u  == s \o e
           n  == Len(msgs)
           ms == Append(msgs, m)
<1>1. PICK cut : Framed(cut, msgs, k, s) /\ Remainder(cut[n], s, FALSE, FALSE)
  BY DEF OnItsWay
<1>2. n \in Nat /\ cut[n] = Len(s) /\ Len(s) \in Nat /\ k \in 0 .. n
  BY <1>1 DEF Remainder
<1>3. e \in Seq(Byte) /\ Len(e) \in Nat
  BY EncodeType
<1>4. /\ u \in Seq(Byte) /\ Len(u) = Len(s) + Len(e)
      /\ \A i \in 1 .. Len(s) + Len(e) : u[i] = IF i <= Len(s) THEN s[i] ELSE e[i - Len(s)]
  BY <1>3, Joined
<1>5. Framed(cut, msgs, k, u)
  BY <1>1, <1>3, FramedLonger
<1>6. Len(ms) = n + 1 /\ ms[n + 1] = m /\ \A i \in 1 .. n : ms[i] = msgs[i]
  OBVIOUS
<1> HIDE DEF e, u, n, ms
<1> DEFINE c2 == [i \in k .. n + 1 |-> IF i = n + 1 THEN Len(u) ELSE cut[i]]
<1>7. /\ cut \in [k .. n -> Nat] /\ cut[k] = 0
      /\ \A i, j \in k .. n : i <= j => cut[i] <= cut[j]
      /\ \A i \in k + 1 .. n :
           cut[i] = cut[i - 1] + Len(encode(msgs[i])) /\ Holds(u, cut[i - 1], encode(msgs[i]))
  BY <1>5 DEF Framed, n
<1>8. /\ c2 \in [k .. n + 1 -> Nat] /\ c2[n + 1] = Len(u)
      /\ \A i \in k .. n : c2[i] = cut[i]
  BY <1>2, <1>3, <1>4, <1>7
<1>9. n + 1 \in k .. n + 1 /\ k \in k .. n /\ n \in k .. n
  BY <1>2
<1> HIDE DEF c2
<1>10. c2[k] = 0
  BY <1>7, <1>8, <1>9
<1>11. \A i, j \in k .. n + 1 : i <= j => c2[i] <= c2[j]
  <2>1. \A i \in k .. n : c2[i] <= Len(s) /\ c2[i] \in Nat
    BY <1>2, <1>7, <1>8
  <2>2. SUFFICES ASSUME NEW i \in k .. n + 1, NEW j \in k .. n + 1, i <= j
                 PROVE  c2[i] <= c2[j]
    OBVIOUS
  <2>3. CASE j \in k .. n
    BY <1>2, <1>7, <1>8, <2>2, <2>3
  <2>4. CASE j = n + 1 /\ i \in k .. n
    BY <1>2, <1>3, <1>4, <1>8, <2>1, <2>4
  <2>5. CASE j = n + 1 /\ i = n + 1
    BY <1>2, <1>3, <1>4, <1>8, <2>5
  <2>6. QED
    BY <1>2, <2>2, <2>3, <2>4, <2>5
<1>12. ASSUME NEW i \in k + 1 .. n + 1
       PROVE  c2[i] = c2[i - 1] + Len(encode(ms[i])) /\ Holds(u, c2[i - 1], encode(ms[i]))
  <2>1. CASE i \in k + 1 .. n
    <3>1. i \in 1 .. n /\ i \in k .. n /\ i - 1 \in k .. n
      BY <1>2, <2>1
    <3>2. c2[i] = cut[i] /\ c2[i - 1] = cut[i - 1] /\ ms[i] = msgs[i]
      BY <1>6, <1>8, <3>1
    <3>3. QED
      BY <1>7, <2>1, <3>2
  <2>2. CASE i = n + 1
    <3>1. i - 1 = n /\ c2[n] = Len(s) /\ c2[i] = Len(s) + Len(e)
      BY <1>2, <1>4, <1>8, <1>9, <2>2
    <3>2. ms[i] = m
      BY <1>6, <2>2
    <3>3. Holds(u, Len(s), e)
      <4>1. ASSUME NEW j \in 1 .. Len(e)
            PROVE  u[Len(s) + j] = e[j]
        <5>1. /\ Len(s) + j \in 1 .. Len(s) + Len(e) /\ ~(Len(s) + j <= Len(s))
              /\ Len(s) + j - Len(s) = j
          BY <1>2, <1>3
        <5>2. QED
          BY <1>4, <5>1
      <4>2. QED
        BY <1>2, <1>3, <1>4, <4>1 DEF Holds
    <3>4. QED
      BY <3>1, <3>2, <3>3 DEF e
  <2>3. QED
    BY <1>2, <2>1, <2>2
<1>13. Framed(c2, ms, k, u)
  BY <1>6, <1>8, <1>10, <1>11, <1>12 DEF Framed
<1>14. Remainder(c2[Len(ms)], u, FALSE, FALSE)
  BY <1>2, <1>3, <1>4, <1>6, <1>8 DEF Remainder
<1>15. QED
  BY <1>13, <1>14 DEF OnItsWay, u, e, ms

\* The client goes in the middle of a message.
LEMMA WayHangUp ==
  ASSUME NEW msgs \in Seq(Messages), NEW k \in 0 .. Len(msgs), NEW s \in Seq(Byte),
         NEW m \in Messages, NEW n \in 0 .. Len(encode(m)) - 1,
         OnItsWay(msgs, k, s, FALSE, FALSE)
  PROVE  OnItsWay(msgs, k, s \o SubSeq(encode(m), 1, n), TRUE, FALSE)
<1> DEFINE e == encode(m)
           t == SubSeq(e, 1, n)
           u == s \o t
<1>1. PICK cut : Framed(cut, msgs, k, s) /\ Remainder(cut[Len(msgs)], s, FALSE, FALSE)
  BY DEF OnItsWay
<1>2. cut[Len(msgs)] = Len(s) /\ Len(s) \in Nat
  BY <1>1 DEF Remainder
<1>3. e \in Seq(Byte) /\ Len(e) \in Nat /\ n \in Nat /\ n < Len(e)
  <2>1. e \in Seq(Byte) /\ Len(e) \in Nat /\ n \in 0 .. Len(e) - 1
    BY EncodeType
  <2> HIDE DEF e
  <2>2. QED
    BY <2>1
<1>4. t \in Seq(Byte) /\ Len(t) = n /\ \A j \in 1 .. n : t[j] = e[j]
  <2> HIDE DEF e
  <2>1. QED
    BY <1>3
<1>5. /\ u \in Seq(Byte) /\ Len(u) = Len(s) + n
      /\ \A i \in 1 .. Len(s) + n : u[i] = IF i <= Len(s) THEN s[i] ELSE t[i - Len(s)]
  <2> HIDE DEF t
  <2>1. t \in Seq(Byte) /\ u = s \o t
    BY <1>4
  <2>2. /\ u \in Seq(Byte) /\ Len(u) = Len(s) + Len(t)
        /\ \A i \in 1 .. Len(s) + Len(t) : u[i] = IF i <= Len(s) THEN s[i] ELSE t[i - Len(s)]
    BY <2>1, Joined
  <2>3. QED
    BY <1>4, <2>2
<1>6. Framed(cut, msgs, k, u)
  BY <1>1, <1>4, FramedLonger
<1> HIDE DEF e, t, u
<1>7. ASSUME NEW j \in 1 .. n
      PROVE  u[Len(s) + j] = e[j]
  <2>1. /\ Len(s) + j \in 1 .. Len(s) + n /\ ~(Len(s) + j <= Len(s))
        /\ Len(s) + j - Len(s) = j
    BY <1>2, <1>3
  <2>2. QED
    BY <1>4, <1>5, <2>1
<1>8. Remainder(Len(s), u, TRUE, FALSE)
  <2>1. Len(u) - Len(s) = n /\ Len(s) <= Len(u)
    BY <1>2, <1>3, <1>5
  <2>2. Len(u) - Len(s) < Len(e) /\ \A j \in 1 .. Len(u) - Len(s) : u[Len(s) + j] = e[j]
    BY <1>3, <1>7, <2>1
  <2>3. QED
    BY <2>1, <2>2 DEF Remainder, e
<1>9. QED
  BY <1>2, <1>6, <1>8 DEF OnItsWay, u, t, e

\* The client writes something else.
LEMMA WayForeign ==
  ASSUME NEW msgs \in Seq(Messages), NEW k \in 0 .. Len(msgs), NEW s \in Seq(Byte),
         NEW t \in Seq(Byte), OnItsWay(msgs, k, s, FALSE, FALSE)
  PROVE  OnItsWay(msgs, k, s \o t, FALSE, TRUE)
<1>1. PICK cut : Framed(cut, msgs, k, s) /\ Remainder(cut[Len(msgs)], s, FALSE, FALSE)
  BY DEF OnItsWay
<1>2. Framed(cut, msgs, k, s \o t)
  BY <1>1, FramedLonger
<1>3. Len(s) \in Nat /\ Len(t) \in Nat /\ Len(s \o t) = Len(s) + Len(t)
  BY Joined
<1>4. cut[Len(msgs)] <= Len(s \o t)
  BY <1>1, <1>3 DEF Remainder
<1>5. QED
  BY <1>2, <1>4 DEF OnItsWay, Remainder

\* The next message not decoded is in front.
LEMMA WayFront ==
  ASSUME NEW msgs \in Seq(Messages), NEW k \in 0 .. Len(msgs), k < Len(msgs),
         NEW s \in Seq(Byte), NEW gone, NEW other, OnItsWay(msgs, k, s, gone, other)
  PROVE  Holds(s, 0, encode(msgs[k + 1]))
<1>1. PICK cut : Framed(cut, msgs, k, s)
  BY DEF OnItsWay
<1>2. k + 1 \in k + 1 .. Len(msgs) /\ k + 1 - 1 = k
  OBVIOUS
<1>3. Holds(s, cut[k + 1 - 1], encode(msgs[k + 1])) /\ cut[k] = 0
  BY <1>1, <1>2 DEF Framed
<1>4. QED
  BY <1>2, <1>3

\* It is taken out.
LEMMA WayTaken ==
  ASSUME NEW msgs \in Seq(Messages), NEW k \in 0 .. Len(msgs), k < Len(msgs),
         NEW s \in Seq(Byte), NEW gone, NEW other, OnItsWay(msgs, k, s, gone, other)
  PROVE  LET l == Len(encode(msgs[k + 1]))
         IN  OnItsWay(msgs, k + 1, SubSeq(s, l + 1, Len(s)), gone, other)
<1> DEFINE l == Len(encode(msgs[k + 1]))
           u == SubSeq(s, l + 1, Len(s))
           n == Len(msgs)
<1>1. PICK cut : Framed(cut, msgs, k, s) /\ Remainder(cut[n], s, gone, other)
  BY DEF OnItsWay
<1>2. n \in Nat /\ k \in Nat /\ k + 1 \in 1 .. n /\ k + 1 \in k .. n /\ Len(s) \in Nat
  OBVIOUS
<1>3. l \in Nat
  <2>1. msgs[k + 1] \in Messages
    BY <1>2
  <2>2. QED
    BY <2>1, EncodeType
<1>4. Holds(s, 0, encode(msgs[k + 1]))
  BY <1>1, WayFront
<1>5. l <= Len(s)
  BY <1>2, <1>3, <1>4 DEF Holds
<1> HIDE DEF l
<1>6. /\ u \in Seq(Byte) /\ Len(u) = Len(s) - l
      /\ \A i \in 1 .. Len(s) - l : u[i] = s[l + i]
  <2>1. /\ Len(u) = Len(s) - l
        /\ \A i \in 1 .. Len(s) - l : u[i] = s[l + 1 + i - 1]
    BY <1>2, <1>3, <1>5
  <2>2. u \in Seq(Byte)
    BY <1>2, <1>3, <1>5
  <2>3. ASSUME NEW i \in 1 .. Len(s) - l
        PROVE  u[i] = s[l + i]
    <3>1. l + 1 + i - 1 = l + i
      BY <1>2, <1>3, <1>5
    <3>2. u[i] = s[l + 1 + i - 1]
      BY <2>1
    <3>3. QED
      BY <3>1, <3>2
  <2>4. QED
    BY <2>1, <2>2, <2>3
<1>7. /\ cut \in [k .. n -> Nat] /\ cut[k] = 0
      /\ \A i, j \in k .. n : i <= j => cut[i] <= cut[j]
      /\ \A i \in k + 1 .. n :
           cut[i] = cut[i - 1] + Len(encode(msgs[i])) /\ Holds(s, cut[i - 1], encode(msgs[i]))
  BY <1>1 DEF Framed
<1>8. cut[k + 1] = l
  <2>1. k + 1 \in k + 1 .. n /\ k + 1 - 1 = k
    BY <1>2
  <2>2. cut[k + 1] = cut[k + 1 - 1] + Len(encode(msgs[k + 1]))
    BY <1>7, <2>1
  <2>3. QED
    BY <1>3, <1>7, <2>1, <2>2 DEF l
<1> HIDE DEF u, n
<1>9. \A i \in k + 1 .. n : cut[i] \in Nat /\ cut[i] >= l
  <2>1. ASSUME NEW i \in k + 1 .. n
        PROVE  cut[i] \in Nat /\ cut[i] >= l
    <3>1. i \in k .. n /\ k + 1 <= i
      BY <1>2
    <3>2. QED
      BY <1>2, <1>3, <1>7, <1>8, <3>1
  <2>2. QED
    BY <2>1
<1> DEFINE c2 == [i \in k + 1 .. n |-> cut[i] - l]
<1>10. /\ c2 \in [k + 1 .. n -> Nat]
       /\ \A i \in k + 1 .. n : c2[i] = cut[i] - l
  BY <1>3, <1>9
<1> HIDE DEF c2
<1>11. k + 1 \in k + 1 .. n /\ n \in k + 1 .. n
  BY <1>2
<1>12. c2[k + 1] = 0
  BY <1>3, <1>8, <1>10, <1>11
<1>13. \A i, j \in k + 1 .. n : i <= j => c2[i] <= c2[j]
  <2>1. SUFFICES ASSUME NEW i \in k + 1 .. n, NEW j \in k + 1 .. n, i <= j
                 PROVE  c2[i] <= c2[j]
    OBVIOUS
  <2>2. i \in k .. n /\ j \in k .. n
    BY <1>2
  <2>3. cut[i] <= cut[j] /\ cut[i] \in Nat /\ cut[j] \in Nat
    BY <1>7, <2>1, <2>2
  <2>4. QED
    BY <1>3, <1>10, <2>3
<1>14. ASSUME NEW i \in k + 2 .. n
       PROVE  c2[i] = c2[i - 1] + Len(encode(msgs[i])) /\ Holds(u, c2[i - 1], encode(msgs[i]))
  <2> DEFINE e == encode(msgs[i])
             p == cut[i - 1]
  <2>1. i \in k + 1 .. n /\ i - 1 \in k + 1 .. n /\ i \in 1 .. n
    BY <1>2
  <2>2. e \in Seq(Byte) /\ Len(e) \in Nat
    BY <2>1, EncodeType DEF n
  <2>3. cut[i] = p + Len(e) /\ Holds(s, p, e)
    BY <1>7, <2>1
  <2>4. c2[i] = cut[i] - l /\ c2[i - 1] = p - l /\ p \in Nat /\ p >= l
    BY <1>9, <1>10, <2>1
  <2> HIDE DEF e, p
  <2>5. c2[i] = c2[i - 1] + Len(e)
    BY <1>3, <2>2, <2>3, <2>4
  <2>6. Holds(u, p - l, e)
    <3>1. p - l + Len(e) <= Len(u)
      BY <1>2, <1>3, <1>6, <2>2, <2>3, <2>4 DEF Holds
    <3>2. ASSUME NEW j \in 1 .. Len(e)
          PROVE  u[p - l + j] = e[j]
      <4>1. /\ p - l + j \in 1 .. Len(s) - l /\ l + (p - l + j) = p + j
            /\ s[p + j] = e[j]
        BY <1>2, <1>3, <2>2, <2>3, <2>4 DEF Holds
      <4>2. QED
        BY <1>6, <4>1
    <3>3. QED
      BY <3>1, <3>2 DEF Holds
  <2>7. QED
    BY <2>4, <2>5, <2>6 DEF e
<1>15. Framed(c2, msgs, k + 1, u)
  <2>1. k + 1 + 1 = k + 2
    BY <1>2
  <2>2. QED
    BY <1>10, <1>12, <1>13, <1>14, <2>1 DEF Framed, n
<1>16. Remainder(c2[n], u, gone, other)
  <2> DEFINE e == cut[n]
  <2>1. e \in Nat /\ e >= l /\ c2[n] = e - l /\ Remainder(e, s, gone, other)
    BY <1>1, <1>9, <1>10, <1>11
  <2> HIDE DEF e
  <2>2. e <= Len(s) /\ Len(u) - (e - l) = Len(s) - e
    BY <1>2, <1>3, <1>6, <2>1 DEF Remainder
  <2>3. e - l <= Len(u) /\ (e = Len(s) => e - l = Len(u))
    BY <1>2, <1>3, <1>6, <2>1, <2>2
  <2>4. \A j \in 1 .. Len(s) - e : u[e - l + j] = s[e + j]
    <3>1. SUFFICES ASSUME NEW j \in 1 .. Len(s) - e
                   PROVE  u[e - l + j] = s[e + j]
      OBVIOUS
    <3>2. e - l + j \in 1 .. Len(s) - l /\ l + (e - l + j) = e + j
      BY <1>2, <1>3, <2>1, <2>2
    <3>3. QED
      BY <1>6, <3>2
  <2>5. QED
    BY <2>1, <2>2, <2>3, <2>4 DEF Remainder
<1>17. QED
  BY <1>15, <1>16 DEF OnItsWay, n, u, l

\* When all that was sent has been taken there is nothing, or the beginning of
\* a message whose client has gone.
LEMMA WayEnd ==
  ASSUME NEW msgs \in Seq(Messages), NEW s \in Seq(Byte), NEW gone \in BOOLEAN,
         OnItsWay(msgs, Len(msgs), s, gone, FALSE)
  PROVE  \/ gone /\ \E m \in Messages : Len(s) < Len(encode(m)) /\ Agree(s, encode(m))
         \/ ~gone /\ s = <<>>
<1> DEFINE n == Len(msgs)
<1>1. PICK cut : Framed(cut, msgs, n, s) /\ Remainder(cut[n], s, gone, FALSE)
  BY DEF OnItsWay
<1>2. cut[n] = 0 /\ Len(s) \in Nat
  BY <1>1 DEF Framed
<1>3. CASE ~gone
  <2>1. Len(s) = 0
    BY <1>1, <1>2, <1>3 DEF Remainder
  <2>2. QED
    BY <1>3, <2>1, EmptySeq
<1>4. CASE gone
  <2>1. PICK m \in Messages :
          Len(s) < Len(encode(m)) /\ \A j \in 1 .. Len(s) : s[j] = encode(m)[j]
    <3>1. PICK m \in Messages :
            /\ Len(s) - 0 < Len(encode(m))
            /\ \A j \in 1 .. Len(s) - 0 : s[0 + j] = encode(m)[j]
      BY <1>1, <1>2, <1>4 DEF Remainder
    <3>2. Len(s) - 0 = Len(s) /\ \A j \in 1 .. Len(s) : 0 + j = j
      BY <1>2
    <3>3. QED
      BY <3>1, <3>2
  <2>2. Agree(s, encode(m))
    BY <1>2, <2>1, EncodeType DEF Agree
  <2>3. QED
    BY <1>4, <2>1, <2>2
<1>5. QED
  BY <1>3, <1>4

-------------------------------------------------------------------------------

\* The buffer has the beginning of the stream.
LEMMA FrontOfStream ==
  ASSUME NEW b \in Seq(Byte), NEW w \in Seq(Byte), NEW e \in Seq(Byte)
  PROVE  /\ Holds(b \o w, 0, e) => Agree(b, e) /\ Len(e) <= Len(b) + Len(w)
         /\ Agree(b \o w, e) => Agree(b, e)
<1> DEFINE s == b \o w
<1>1. /\ s \in Seq(Byte) /\ Len(s) = Len(b) + Len(w)
      /\ \A i \in 1 .. Len(b) + Len(w) : s[i] = IF i <= Len(b) THEN b[i] ELSE w[i - Len(b)]
  BY Joined
<1>2. Len(b) \in Nat /\ Len(w) \in Nat /\ Len(e) \in Nat
  OBVIOUS
<1> HIDE DEF s
<1>3. \A i \in 1 .. Len(b) : s[i] = b[i] /\ i <= Len(s)
  BY <1>1, <1>2
<1>4. Agree(s, e) => Agree(b, e)
  <2>1. SUFFICES ASSUME Agree(s, e), NEW j \in 1 .. Len(e), j <= Len(b)
                 PROVE  b[j] = e[j]
    BY DEF Agree
  <2>2. j \in 1 .. Len(b)
    BY <1>2, <2>1
  <2>3. QED
    BY <1>3, <2>1, <2>2 DEF Agree
<1>5. ASSUME Holds(s, 0, e)
      PROVE  Agree(s, e) /\ Len(e) <= Len(b) + Len(w)
  <2>1. 0 + Len(e) <= Len(s) /\ \A j \in 1 .. Len(e) : s[0 + j] = e[j]
    BY <1>5 DEF Holds
  <2>2. \A j \in 1 .. Len(e) : 0 + j = j
    BY <1>2
  <2>3. \A j \in 1 .. Len(e) : s[j] = e[j]
    BY <2>1, <2>2
  <2>4. QED
    BY <1>1, <1>2, <2>1, <2>3 DEF Agree
<1>6. QED
  BY <1>4, <1>5 DEF s

\* A read moves bytes from the socket to the buffer; the stream is the same.
LEMMA ReadKeeps ==
  ASSUME NEW b \in Seq(Byte), NEW w \in Seq(Byte), NEW n \in 0 .. Len(w)
  PROVE  /\ SubSeq(w, 1, n) \in Seq(Byte) /\ Len(SubSeq(w, 1, n)) = n
         /\ SubSeq(w, n + 1, Len(w)) \in Seq(Byte)
         /\ (b \o SubSeq(w, 1, n)) \o SubSeq(w, n + 1, Len(w)) = b \o w
<1> DEFINE x == SubSeq(w, 1, n)
           y == SubSeq(w, n + 1, Len(w))
<1>1. Len(w) \in Nat /\ n \in Nat /\ n <= Len(w)
  OBVIOUS
<1>2. x \in Seq(Byte) /\ Len(x) = n /\ \A i \in 1 .. n : x[i] = w[i]
  BY <1>1
<1>3. y \in Seq(Byte) /\ Len(y) = Len(w) - n /\ \A i \in 1 .. Len(w) - n : y[i] = w[n + i]
  <2>1. /\ y \in Seq(Byte) /\ Len(y) = Len(w) - n
        /\ \A i \in 1 .. Len(w) - n : y[i] = w[n + 1 + i - 1]
    BY <1>1
  <2>2. ASSUME NEW i \in 1 .. Len(w) - n
        PROVE  y[i] = w[n + i]
    <3>1. n + 1 + i - 1 = n + i
      BY <1>1
    <3>2. y[i] = w[n + 1 + i - 1]
      BY <2>1
    <3>3. QED
      BY <3>1, <3>2
  <2>3. QED
    BY <2>1, <2>2
<1> HIDE DEF x, y
<1>4. x \o y = w
  <2> DEFINE z == x \o y
  <2>1. /\ z \in Seq(Byte) /\ Len(z) = Len(x) + Len(y)
        /\ \A i \in 1 .. Len(x) + Len(y) : z[i] = IF i <= Len(x) THEN x[i] ELSE y[i - Len(x)]
    BY <1>2, <1>3, Joined, ZenonT(40)
  <2> HIDE DEF z
  <2>2. Len(z) = Len(w)
    BY <1>1, <1>2, <1>3, <2>1
  <2>3. ASSUME NEW i \in 1 .. Len(w)
        PROVE  z[i] = w[i]
    <3>1. CASE i <= n
      BY <1>1, <1>2, <1>3, <2>1, <3>1
    <3>2. CASE ~(i <= n)
      <4>1. i - n \in 1 .. Len(w) - n /\ n + (i - n) = i
        BY <1>1, <3>2
      <4>2. z[i] = y[i - n]
        BY <1>1, <1>2, <1>3, <2>1, <3>2
      <4>3. y[i - n] = w[n + (i - n)]
        BY <1>3, <4>1
      <4>4. QED
        BY <4>1, <4>2, <4>3
    <3>3. QED
      BY <3>1, <3>2
  <2>4. z = w
    BY <2>1, <2>2, <2>3, SeqEqual
  <2>5. QED
    BY <2>4 DEF z
<1>5. (b \o x) \o y = b \o (x \o y)
  BY <1>2, <1>3, ConcatAssociative, SMTT(30)
<1>6. QED
  BY <1>2, <1>3, <1>4, <1>5 DEF x, y

\* What is taken out of the buffer is taken out of the front of the stream.
LEMMA TakenFromStream ==
  ASSUME NEW b \in Seq(Byte), NEW w \in Seq(Byte), NEW l \in 0 .. Len(b)
  PROVE  /\ SubSeq(b, l + 1, Len(b)) \in Seq(Byte)
         /\ Len(SubSeq(b, l + 1, Len(b))) = Len(b) - l
         /\ SubSeq(b, l + 1, Len(b)) \o w = SubSeq(b \o w, l + 1, Len(b \o w))
<1> DEFINE s == b \o w
           x == SubSeq(b, 1, l)
           y == SubSeq(b, l + 1, Len(b))
           u == y \o w
           v == SubSeq(s, l + 1, Len(s))
<1>1. /\ s \in Seq(Byte) /\ Len(s) = Len(b) + Len(w)
      /\ \A i \in 1 .. Len(b) + Len(w) : s[i] = IF i <= Len(b) THEN b[i] ELSE w[i - Len(b)]
  BY Joined
<1>2. Len(b) \in Nat /\ Len(w) \in Nat /\ l \in Nat /\ l <= Len(b)
  OBVIOUS
<1> HIDE DEF s
<1>3. y \in Seq(Byte) /\ Len(y) = Len(b) - l /\ \A i \in 1 .. Len(b) - l : y[i] = b[l + 1 + i - 1]
  BY <1>2
<1>4. v \in Seq(Byte) /\ Len(v) = Len(s) - l /\ \A i \in 1 .. Len(s) - l : v[i] = s[l + 1 + i - 1]
  BY <1>1, <1>2
<1> HIDE DEF y, v
<1>5. /\ u \in Seq(Byte) /\ Len(u) = Len(y) + Len(w)
      /\ \A i \in 1 .. Len(y) + Len(w) : u[i] = IF i <= Len(y) THEN y[i] ELSE w[i - Len(y)]
  BY <1>3, Joined, ZenonT(40)
<1> HIDE DEF u
<1>6. Len(u) = Len(v) /\ Len(u) = Len(b) - l + Len(w) /\ Len(s) - l = Len(b) - l + Len(w)
  BY <1>1, <1>2, <1>3, <1>4, <1>5
<1>7. ASSUME NEW i \in 1 .. Len(b) - l + Len(w)
      PROVE  u[i] = v[i]
  <2>1. v[i] = s[l + i]
    <3>1. l + 1 + i - 1 = l + i /\ i \in 1 .. Len(s) - l
      BY <1>2, <1>6
    <3>2. v[i] = s[l + 1 + i - 1]
      BY <1>4, <3>1
    <3>3. QED
      BY <3>1, <3>2
  <2>2. CASE i <= Len(b) - l
    <3>1. i \in 1 .. Len(b) - l /\ l + 1 + i - 1 = l + i
      BY <1>2, <2>2
    <3>2. y[i] = b[l + 1 + i - 1]
      BY <1>3, <3>1
    <3>3. u[i] = y[i]
      BY <1>2, <1>3, <1>5, <2>2
    <3>4. s[l + i] = b[l + i]
      BY <1>1, <1>2, <2>2
    <3>5. QED
      BY <2>1, <3>1, <3>2, <3>3, <3>4
  <2>3. CASE ~(i <= Len(b) - l)
    <3>1. u[i] = w[i - Len(y)] /\ i - Len(y) = l + i - Len(b)
      BY <1>2, <1>3, <1>5, <2>3
    <3>2. l + i \in 1 .. Len(b) + Len(w) /\ ~(l + i <= Len(b))
      BY <1>2, <2>3
    <3>3. s[l + i] = w[l + i - Len(b)]
      BY <1>1, <3>2
    <3>4. QED
      BY <2>1, <3>1, <3>3
  <2>4. QED
    BY <2>2, <2>3
<1>8. u = v
  BY <1>4, <1>5, <1>6, <1>7, SeqEqual
<1>9. QED
  BY <1>3, <1>8 DEF s, u, v, y

-------------------------------------------------------------------------------

\* While the handler has not been given all that was sent, the next message is
\* what decode waits for or finds; it finds it when the socket is empty.
LEMMA NextFrame ==
  ASSUME Types, StreamInv, Len(got) < Len(sent)
  PROVE  LET m == sent[Len(got) + 1]
         IN  /\ m \in Messages
             /\ decode(buffer) \in {Incomplete, m}
             /\ decode(buffer) = m =>
                  FrameEnd(buffer) = Len(encode(m)) /\ Len(encode(m)) \in 0 .. Len(buffer)
             /\ wire = <<>> => decode(buffer) = m
<1> DEFINE m == sent[Len(got) + 1]
           e == encode(m)
<1>1. /\ sent \in Seq(Messages) /\ got \in Seq(Message) /\ buffer \in Seq(Byte) /\ wire \in Seq(Byte)
      /\ Len(got) \in 0 .. Len(sent) /\ Len(got) + 1 \in 1 .. Len(sent)
  BY DEF Types
<1>2. m \in Messages
  BY <1>1
<1>3. e \in Seq(Byte) /\ Len(e) \in Nat
  BY <1>2, EncodeType
<1>4. OnItsWay(sent, Len(got), Stream, closed, foreign)
  BY <1>1 DEF StreamInv
<1>5. Stream \in Seq(Byte) /\ Stream = buffer \o wire
  BY <1>1, Joined DEF Stream
<1>6. Holds(Stream, 0, e)
  BY <1>1, <1>4, <1>5, WayFront
<1> HIDE DEF e, m
<1>7. Agree(buffer, e) /\ Len(e) <= Len(buffer) + Len(wire)
  BY <1>1, <1>3, <1>5, <1>6, FrontOfStream
<1>8. /\ Len(buffer) < Len(e) => decode(buffer) = Incomplete
      /\ Len(buffer) >= Len(e) => decode(buffer) = m /\ FrameEnd(buffer) = Len(e)
  BY <1>1, <1>2, <1>7, DecodeEncoded DEF e
<1>9. Len(buffer) \in Nat /\ m # Incomplete
  BY <1>1, <1>2, NoMessage, MessagesAssumption
<1>10. wire = <<>> => Len(wire) = 0
  OBVIOUS
<1>11. QED
  BY <1>2, <1>3, <1>7, <1>8, <1>9, <1>10 DEF m, e

\* When it has, and the client speaks this protocol, decode finds nothing; in
\* the buffer there is nothing, or a piece that a client left that has gone.
LEMMA NoMoreFrames ==
  ASSUME Types, StreamInv, Len(got) = Len(sent), ~foreign
  PROVE  decode(buffer) = Incomplete
<1>1. /\ sent \in Seq(Messages) /\ buffer \in Seq(Byte) /\ wire \in Seq(Byte)
      /\ closed \in BOOLEAN /\ foreign = FALSE /\ Len(sent) \in Nat
  BY DEF Types
<1>2. OnItsWay(sent, Len(sent), Stream, closed, FALSE)
  <2>1. Len(got) <= Len(sent)
    BY <1>1
  <2>2. OnItsWay(sent, Len(got), Stream, closed, foreign)
    BY <2>1 DEF StreamInv
  <2>3. QED
    BY <1>1, <2>2, Zenon
<1>3. Stream \in Seq(Byte) /\ Stream = buffer \o wire /\ Len(Stream) = Len(buffer) + Len(wire)
  BY <1>1, Joined DEF Stream
<1>4. CASE Stream = <<>>
  <2>1. Len(buffer) = 0
    BY <1>1, <1>3, <1>4
  <2>2. QED
    BY <2>1 DEF decode, HEADER_LEN
<1>5. CASE \E m \in Messages : Len(Stream) < Len(encode(m)) /\ Agree(Stream, encode(m))
  <2>1. PICK m \in Messages : Len(Stream) < Len(encode(m)) /\ Agree(Stream, encode(m))
    BY <1>5
  <2>2. encode(m) \in Seq(Byte) /\ Len(encode(m)) \in Nat
    BY EncodeType
  <2>3. Agree(buffer, encode(m))
    BY <1>1, <1>3, <2>1, <2>2, FrontOfStream
  <2>4. Len(buffer) < Len(encode(m))
    BY <1>1, <1>3, <2>1, <2>2
  <2>5. QED
    BY <1>1, <2>3, <2>4, DecodeEncoded
<1>6. QED
  BY <1>1, <1>2, <1>3, <1>4, <1>5, WayEnd

-------------------------------------------------------------------------------

\* What is written comes behind the stream.
LEMMA StreamGrows ==
  ASSUME NEW b \in Seq(Byte), NEW w \in Seq(Byte), NEW t \in Seq(Byte)
  PROVE  b \o w \in Seq(Byte) /\ b \o (w \o t) = (b \o w) \o t
<1>1. b \o w \in Seq(Byte)
  BY Joined
<1>2. b \o (w \o t) = (b \o w) \o t
  BY ConcatAssociative
<1>3. QED
  BY <1>1, <1>2

LEMMA InitInv == Init => IInv
<1> SUFFICES ASSUME Init PROVE IInv
  OBVIOUS
<1> USE DEF Init
<1>1. Types
  <2>1. /\ sent \in Seq(Messages) /\ wire \in Seq(Byte) /\ buffer \in Seq(Byte)
        /\ got \in Seq(Message)
    OBVIOUS
  <2>2. QED
    BY <2>1 DEF Types
<1>2. ReadInv
  <2>1. decode(buffer) = Incomplete
    BY DEF decode, HEADER_LEN
  <2>2. QED
    BY <2>1, SizesAssumption DEF ReadInv, HEADER_LEN
<1>3. FramesInOrder
  BY DEF FramesInOrder
<1>4. StreamInv
  <2> DEFINE cut == [i \in 0 .. 0 |-> 0]
  <2>1. Stream = <<>> /\ Len(sent) = 0 /\ Len(got) = 0 /\ Len(<<>>) = 0
    BY DEF Stream
  <2>2. Framed(cut, <<>>, 0, <<>>)
    BY DEF Framed
  <2>3. Remainder(cut[0], <<>>, FALSE, FALSE)
    BY DEF Remainder
  <2>4. OnItsWay(<<>>, 0, <<>>, FALSE, FALSE)
    BY <2>2, <2>3 DEF OnItsWay
  <2>5. QED
    BY <2>1, <2>4 DEF StreamInv
<1>5. EndInv
  BY DEF EndInv
<1>6. QED
  BY <1>1, <1>2, <1>3, <1>4, <1>5 DEF IInv

LEMMA SendStep ==
  ASSUME IInv, NEW m \in Messages, send(m)
  PROVE  IInv'
<1>1. /\ Types /\ ReadInv /\ FramesInOrder /\ StreamInv /\ EndInv
      /\ closed = FALSE /\ foreign = FALSE
      /\ sent' = Append(sent, m) /\ wire' = wire \o encode(m)
      /\ closed' = closed /\ foreign' = foreign /\ buffer' = buffer
      /\ readable' = readable /\ eof' = eof /\ got' = got /\ ended' = ended
  BY DEF IInv, send, reader, Types
<1>2. /\ sent \in Seq(Messages) /\ got \in Seq(Message) /\ buffer \in Seq(Byte) /\ wire \in Seq(Byte)
      /\ encode(m) \in Seq(Byte)
  BY <1>1, EncodeType DEF Types
<1>3. Len(sent') = Len(sent) + 1 /\ \A i \in 1 .. Len(sent) : sent'[i] = sent[i]
  BY <1>1, <1>2
<1>4. Len(got) <= Len(sent) /\ Len(got) \in 0 .. Len(sent)
  BY <1>1, <1>2 DEF FramesInOrder
<1>5. Types'
  <2>1. wire' \in Seq(Byte) /\ sent' \in Seq(Messages)
    BY <1>1, <1>2, Joined
  <2>2. QED
    BY <1>1, <2>1 DEF Types
<1>6. eof = FALSE
  BY <1>1 DEF ReadInv, Types
<1>7. ReadInv'
  BY <1>1, <1>6 DEF ReadInv
<1>8. FramesInOrder'
  BY <1>1, <1>2, <1>3, <1>4 DEF FramesInOrder
<1>9. StreamInv'
  <2>1. OnItsWay(sent, Len(got), Stream, closed, foreign)
    BY <1>1, <1>4 DEF StreamInv
  <2>2. OnItsWay(sent, Len(got), Stream, FALSE, FALSE)
    BY <1>1, <2>1, Zenon
  <2>3. Stream \in Seq(Byte)
    BY <1>2, Joined DEF Stream
  <2>4. OnItsWay(Append(sent, m), Len(got), Stream \o encode(m), FALSE, FALSE)
    BY <1>2, <1>4, <2>2, <2>3, WaySend
  <2>5. Stream' = Stream \o encode(m)
    <3>1. buffer \o (wire \o encode(m)) = (buffer \o wire) \o encode(m)
      BY ONLY <1>2, StreamGrows
    <3>2. QED
      BY <1>1, <3>1 DEF Stream
  <2>6. OnItsWay(sent', Len(got'), Stream', closed', foreign')
    BY <1>1, <2>4, <2>5, Zenon
  <2>7. QED
    BY <2>6 DEF StreamInv
<1>10. EndInv'
  BY <1>1 DEF EndInv
<1>11. QED
  BY <1>5, <1>7, <1>8, <1>9, <1>10 DEF IInv

LEMMA HangUpStep ==
  ASSUME IInv, NEW m \in Messages, NEW n \in 0 .. Len(encode(m)) - 1, hangUp(m, n)
  PROVE  IInv'
<1> DEFINE t == SubSeq(encode(m), 1, n)
<1>1. /\ Types /\ ReadInv /\ FramesInOrder /\ StreamInv /\ EndInv
      /\ closed = FALSE /\ closed' = TRUE /\ (foreign => n = 0)
      /\ wire' = wire \o t /\ sent' = sent /\ foreign' = foreign /\ buffer' = buffer
      /\ readable' = readable /\ eof' = eof /\ got' = got /\ ended' = ended
  BY DEF IInv, hangUp, reader, Types
<1>2. /\ sent \in Seq(Messages) /\ got \in Seq(Message) /\ buffer \in Seq(Byte) /\ wire \in Seq(Byte)
      /\ t \in Seq(Byte) /\ foreign \in BOOLEAN
  <2>1. encode(m) \in Seq(Byte) /\ Len(encode(m)) \in Nat
    BY EncodeType
  <2> DEFINE e == encode(m)
  <2>2. e \in Seq(Byte) /\ n \in 0 .. Len(e) - 1
    BY <2>1
  <2>3. t = SubSeq(e, 1, n)
    OBVIOUS
  <2> HIDE DEF e, t
  <2>4. t \in Seq(Byte)
    BY <2>2, <2>3
  <2>5. QED
    BY <1>1, <2>4 DEF Types
<1> HIDE DEF t
<1>3. Types'
  <2>1. wire' \in Seq(Byte)
    BY <1>1, <1>2, Joined
  <2>2. QED
    BY <1>1, <2>1 DEF Types
<1>4. ReadInv'
  BY <1>1 DEF ReadInv, Types
<1>5. FramesInOrder'
  BY <1>1 DEF FramesInOrder
<1>6. StreamInv'
  <2>1. SUFFICES ASSUME Len(got) <= Len(sent)
                 PROVE  OnItsWay(sent, Len(got), Stream', TRUE, foreign)
    BY <1>1, Zenon DEF StreamInv
  <2>2. Len(got) \in 0 .. Len(sent)
    BY <1>2, <2>1
  <2>3. OnItsWay(sent, Len(got), Stream, closed, foreign)
    BY <1>1, <2>1 DEF StreamInv
  <2>4. Stream \in Seq(Byte) /\ Stream' = Stream \o t
    <3>1. buffer \o wire \in Seq(Byte) /\ buffer \o (wire \o t) = (buffer \o wire) \o t
      BY ONLY <1>2, StreamGrows, SMTT(30)
    <3>2. QED
      BY <1>1, <3>1 DEF Stream
  <2>5. CASE foreign = FALSE
    <3>1. OnItsWay(sent, Len(got), Stream, FALSE, FALSE)
      BY <1>1, <2>3, <2>5, Zenon
    <3>2. OnItsWay(sent, Len(got), Stream \o SubSeq(encode(m), 1, n), TRUE, FALSE)
      BY <1>2, <2>2, <2>4, <3>1, WayHangUp
    <3>3. QED
      BY <2>4, <2>5, <3>2, Zenon DEF t
  <2>6. CASE foreign = TRUE
    <3>1. OnItsWay(sent, Len(got), Stream, FALSE, TRUE)
      BY <1>1, <2>3, <2>6, Zenon
    <3>2. OnItsWay(sent, Len(got), Stream, TRUE, TRUE)
      BY <3>1 DEF OnItsWay, Remainder
    <3>3. t = <<>>
      <4>1. n = 0
        BY <1>1, <2>6
      <4>2. QED
        BY <4>1, SubSeqEmpty DEF t
    <3>4. Stream' = Stream
      BY <2>4, <3>3, ConcatEmptySeq
    <3>5. QED
      BY <2>6, <3>2, <3>4, Zenon
  <2>7. QED
    BY <1>2, <2>5, <2>6
<1>7. EndInv'
  BY <1>1 DEF EndInv
<1>8. QED
  BY <1>3, <1>4, <1>5, <1>6, <1>7 DEF IInv

LEMMA ForeignStep ==
  ASSUME IInv, NEW bytes \in Foreign, writeForeign(bytes)
  PROVE  IInv'
<1>1. /\ Types /\ ReadInv /\ FramesInOrder /\ StreamInv /\ EndInv
      /\ closed = FALSE /\ foreign = FALSE /\ foreign' = TRUE
      /\ wire' = wire \o bytes /\ sent' = sent /\ closed' = closed /\ buffer' = buffer
      /\ readable' = readable /\ eof' = eof /\ got' = got /\ ended' = ended
  BY DEF IInv, writeForeign, reader, Types
<1>2. /\ sent \in Seq(Messages) /\ got \in Seq(Message) /\ buffer \in Seq(Byte) /\ wire \in Seq(Byte)
      /\ bytes \in Seq(Byte)
  BY <1>1, MessagesAssumption DEF Types
<1>3. Len(got) \in 0 .. Len(sent)
  BY <1>1, <1>2 DEF FramesInOrder
<1>4. Types'
  <2>1. wire' \in Seq(Byte)
    BY <1>1, <1>2, Joined
  <2>2. QED
    BY <1>1, <2>1 DEF Types
<1>5. ReadInv'
  BY <1>1 DEF ReadInv, Types
<1>6. FramesInOrder'
  BY <1>1 DEF FramesInOrder
<1>7. StreamInv'
  <2>1. Len(got) <= Len(sent)
    BY <1>2, <1>3
  <2>2. OnItsWay(sent, Len(got), Stream, closed, foreign)
    BY <1>1, <2>1 DEF StreamInv
  <2>3. OnItsWay(sent, Len(got), Stream, FALSE, FALSE)
    BY <1>1, <2>2, Zenon
  <2>4. Stream \in Seq(Byte) /\ Stream' = Stream \o bytes
    <3>1. /\ buffer \o wire \in Seq(Byte)
          /\ buffer \o (wire \o bytes) = (buffer \o wire) \o bytes
      BY ONLY <1>2, StreamGrows
    <3>2. QED
      BY <1>1, <3>1 DEF Stream
  <2>5. OnItsWay(sent, Len(got), Stream \o bytes, FALSE, TRUE)
    BY <1>2, <1>3, <2>3, <2>4, WayForeign
  <2>6. OnItsWay(sent', Len(got'), Stream', closed', foreign')
    BY <1>1, <2>4, <2>5, Zenon
  <2>7. QED
    BY <2>6 DEF StreamInv
<1>8. EndInv'
  BY <1>1 DEF EndInv
<1>9. QED
  BY <1>4, <1>5, <1>6, <1>7, <1>8 DEF IInv

LEMMA ReadStep ==
  ASSUME IInv, NEW n \in 1 .. MaxRead, read(n)
  PROVE  IInv'
<1>1. /\ Types /\ ReadInv /\ FramesInOrder /\ StreamInv /\ EndInv
      /\ readable = FALSE /\ readable' = TRUE /\ eof' = FALSE /\ n <= Len(wire)
      /\ buffer' = buffer \o SubSeq(wire, 1, n) /\ wire' = SubSeq(wire, n + 1, Len(wire))
      /\ sent' = sent /\ closed' = closed /\ foreign' = foreign /\ got' = got /\ ended' = ended
  BY DEF IInv, read, Types
<1>2. buffer \in Seq(Byte) /\ wire \in Seq(Byte) /\ n \in 0 .. Len(wire)
  BY <1>1, SizesAssumption DEF Types
<1>3. /\ SubSeq(wire, 1, n) \in Seq(Byte) /\ Len(SubSeq(wire, 1, n)) = n
      /\ SubSeq(wire, n + 1, Len(wire)) \in Seq(Byte)
      /\ (buffer \o SubSeq(wire, 1, n)) \o SubSeq(wire, n + 1, Len(wire)) = buffer \o wire
  BY ONLY <1>2, ReadKeeps
<1>4. buffer' \in Seq(Byte) /\ wire' \in Seq(Byte) /\ Len(buffer') = Len(buffer) + n
  <2> DEFINE x == SubSeq(wire, 1, n)
  <2>1. x \in Seq(Byte) /\ Len(x) = n /\ buffer' = buffer \o x
    BY <1>1, <1>3
  <2> HIDE DEF x
  <2>2. buffer' \in Seq(Byte) /\ Len(buffer') = Len(buffer) + Len(x)
    BY <1>2, <2>1, Joined
  <2>3. QED
    BY <1>1, <1>3, <2>1, <2>2
<1>5. Types'
  BY <1>1, <1>4 DEF Types
<1>6. ReadInv'
  <2>1. Len(buffer) < HEADER_LEN + MaxFrame
    BY <1>1, <1>2, DecodeTypes DEF ReadInv
  <2>2. Len(buffer') < HEADER_LEN + MaxFrame + MaxRead
    BY <1>2, <1>4, <2>1, SizesAssumption DEF HEADER_LEN
  <2>3. QED
    BY <1>1, <2>2 DEF ReadInv
<1>7. FramesInOrder'
  BY <1>1 DEF FramesInOrder
<1>8. Stream' = Stream
  BY <1>1, <1>3 DEF Stream
<1>9. StreamInv'
  BY <1>1, <1>8 DEF StreamInv
<1>10. EndInv'
  BY <1>1 DEF EndInv
<1>11. QED
  BY <1>5, <1>6, <1>7, <1>9, <1>10 DEF IInv

\* Steps that move no byte.
LEMMA ReadEofStep ==
  ASSUME IInv, readEof
  PROVE  IInv'
<1>1. /\ Types /\ ReadInv /\ FramesInOrder /\ StreamInv /\ EndInv
      /\ closed = TRUE /\ wire = <<>> /\ readable' = TRUE /\ eof' = TRUE
      /\ sent' = sent /\ closed' = closed /\ foreign' = foreign /\ wire' = wire
      /\ buffer' = buffer /\ got' = got /\ ended' = ended
  BY DEF IInv, readEof, Types
<1>2. Types' /\ ReadInv' /\ FramesInOrder' /\ EndInv'
  BY <1>1 DEF Types, ReadInv, FramesInOrder, EndInv
<1>3. Stream' = Stream
  BY <1>1 DEF Stream
<1>4. StreamInv'
  BY <1>1, <1>3 DEF StreamInv
<1>5. QED
  BY <1>2, <1>4 DEF IInv

\* What is decoded while messages are missing is the next of them; after that
\* only a client that wrote something else can leave anything to decode.
LEMMA DecodeFrameStep ==
  ASSUME IInv, decodeFrame
  PROVE  IInv'
<1> DEFINE answer == decode(buffer)
           l      == FrameEnd(buffer)
<1>1. /\ Types /\ ReadInv /\ FramesInOrder /\ StreamInv /\ EndInv
      /\ ended = "no" /\ readable = TRUE /\ answer \notin {Incomplete, Refused}
      /\ got' = Append(got, answer) /\ buffer' = SubSeq(buffer, l + 1, Len(buffer))
      /\ sent' = sent /\ closed' = closed /\ foreign' = foreign /\ wire' = wire
      /\ readable' = readable /\ eof' = eof /\ ended' = ended
  BY DEF IInv, decodeFrame, AfterFrame, Types
<1>2. /\ sent \in Seq(Messages) /\ got \in Seq(Message) /\ buffer \in Seq(Byte) /\ wire \in Seq(Byte)
      /\ Len(sent) \in Nat /\ Len(got) \in Nat /\ Len(buffer) \in Nat
  BY <1>1 DEF Types
<1>3. answer \in Message /\ l \in 5 .. Len(buffer)
  BY <1>1, <1>2, DecodeTypes DEF HEADER_LEN
<1>4. Len(got) = Len(sent) => foreign
  BY <1>1, NoMoreFrames
<1>5. Len(got) < Len(sent) =>
        /\ sent[Len(got) + 1] \in Messages /\ answer = sent[Len(got) + 1]
        /\ l = Len(encode(sent[Len(got) + 1]))
  BY <1>1, NextFrame
<1> HIDE DEF answer, l
<1>6. l \in 0 .. Len(buffer)
  BY <1>2, <1>3
<1>7. /\ SubSeq(buffer, l + 1, Len(buffer)) \in Seq(Byte)
      /\ Len(SubSeq(buffer, l + 1, Len(buffer))) = Len(buffer) - l
      /\ SubSeq(buffer, l + 1, Len(buffer)) \o wire =
           SubSeq(buffer \o wire, l + 1, Len(buffer \o wire))
  BY ONLY <1>2, <1>6, TakenFromStream
<1>8. /\ Len(got') = Len(got) + 1 /\ got' \in Seq(Message) /\ got'[Len(got) + 1] = answer
      /\ \A i \in 1 .. Len(got) : got'[i] = got[i]
  BY <1>1, <1>2, <1>3
<1>9. Types'
  BY <1>1, <1>7, <1>8 DEF Types
<1>10. ReadInv'
  <2>1. Len(buffer') = Len(buffer) - l
    BY <1>1, <1>7
  <2>2. Len(buffer') < HEADER_LEN + MaxFrame + MaxRead
    BY <1>1, <1>2, <1>6, <2>1, SizesAssumption DEF ReadInv, HEADER_LEN
  <2>3. QED
    BY <1>1, <2>2 DEF ReadInv
<1>11. FramesInOrder'
  <2>1. ASSUME NEW i \in 1 .. Len(got'), i <= Len(sent)
        PROVE  got'[i] = sent[i]
    <3>1. CASE i <= Len(got)
      BY <1>1, <1>2, <1>8, <2>1, <3>1 DEF FramesInOrder
    <3>2. CASE i = Len(got) + 1
      BY <1>2, <1>5, <1>8, <2>1, <3>2
    <3>3. QED
      BY <1>2, <1>8, <3>1, <3>2
  <2>2. Len(got') > Len(sent) => foreign
    BY <1>1, <1>2, <1>4, <1>8 DEF FramesInOrder
  <2>3. QED
    BY <1>1, <2>1, <2>2 DEF FramesInOrder
<1>12. StreamInv'
  <2>1. SUFFICES ASSUME Len(got') <= Len(sent')
                 PROVE  OnItsWay(sent', Len(got'), Stream', closed', foreign')
    BY DEF StreamInv
  <2>2. Len(got) < Len(sent) /\ Len(got) <= Len(sent) /\ Len(got) \in 0 .. Len(sent)
    BY <1>1, <1>2, <1>8, <2>1
  <2>3. OnItsWay(sent, Len(got), Stream, closed, foreign)
    BY <1>1, <2>2 DEF StreamInv
  <2>4. Stream \in Seq(Byte) /\ Stream' = SubSeq(Stream, l + 1, Len(Stream))
    BY <1>1, <1>2, <1>7, Joined DEF Stream
  <2>5. l = Len(encode(sent[Len(got) + 1]))
    BY <1>5, <2>2
  <2>6. OnItsWay(sent, Len(got) + 1,
                 SubSeq(Stream, Len(encode(sent[Len(got) + 1])) + 1, Len(Stream)), closed, foreign)
    BY <1>2, <2>2, <2>3, <2>4, WayTaken
  <2>7. OnItsWay(sent, Len(got) + 1, Stream', closed, foreign)
    BY <2>4, <2>5, <2>6
  <2>8. QED
    BY <1>1, <1>8, <2>7
<1>13. EndInv'
  BY <1>1 DEF EndInv
<1>14. QED
  BY <1>9, <1>10, <1>11, <1>12, <1>13 DEF IInv

\* The handler ends with nothing missing: at the end of the stream every
\* message of it has been decoded.
LEMMA DecodeNothingStep ==
  ASSUME IInv, decodeNothing
  PROVE  IInv'
<1>1. /\ Types /\ ReadInv /\ FramesInOrder /\ StreamInv /\ EndInv
      /\ ended = "no" /\ decode(buffer) = Incomplete /\ readable' = FALSE
      /\ (eof = FALSE => ended' = "no") /\ ended' \in {"no", "refused", "eof"}
      /\ sent' = sent /\ closed' = closed /\ foreign' = foreign /\ wire' = wire
      /\ buffer' = buffer /\ eof' = eof /\ got' = got
  <2>1. /\ Types /\ ReadInv /\ FramesInOrder /\ StreamInv /\ EndInv
    BY DEF IInv
  <2>2. /\ ended = "no" /\ decode(buffer) = Incomplete /\ readable' = FALSE
        /\ ended' = IF ~eof THEN "no" ELSE IF buffer = <<>> THEN "eof" ELSE "refused"
        /\ sent' = sent /\ closed' = closed /\ foreign' = foreign /\ wire' = wire
        /\ buffer' = buffer /\ eof' = eof /\ got' = got
    BY DEF decodeNothing
  <2>3. CASE eof = FALSE
    BY <2>1, <2>2, <2>3
  <2>4. CASE eof = TRUE
    <3>1. CASE buffer = <<>>
      BY <2>1, <2>2, <2>4, <3>1
    <3>2. CASE buffer # <<>>
      BY <2>1, <2>2, <2>4, <3>2
    <3>3. QED
      BY <3>1, <3>2
  <2>5. QED
    BY <2>1, <2>3, <2>4 DEF Types
<1>2. Types' /\ ReadInv' /\ FramesInOrder'
  BY <1>1 DEF Types, ReadInv, FramesInOrder
<1>3. Stream' = Stream
  BY <1>1 DEF Stream
<1>4. StreamInv'
  BY <1>1, <1>3 DEF StreamInv
<1>5. EndInv'
  <2>1. SUFFICES ASSUME eof = TRUE
                 PROVE  Len(got) >= Len(sent) /\ closed
    BY <1>1 DEF EndInv, Types
  <2>2. closed /\ wire = <<>>
    BY <1>1, <2>1 DEF ReadInv
  <2>3. CASE Len(got) < Len(sent)
    <3>1. sent[Len(got) + 1] \in Messages /\ decode(buffer) = sent[Len(got) + 1]
      BY <1>1, <2>2, <2>3, NextFrame
    <3>2. QED
      BY <1>1, <3>1, MessagesAssumption, NoMessage
  <2>4. Len(got) \in Nat /\ Len(sent) \in Nat
    BY <1>1 DEF Types
  <2>5. QED
    BY <2>2, <2>3, <2>4
<1>6. QED
  BY <1>2, <1>4, <1>5 DEF IInv

LEMMA DecodeRefusedStep ==
  ASSUME IInv, decodeRefused
  PROVE  IInv'
<1>1. /\ Types /\ ReadInv /\ FramesInOrder /\ StreamInv /\ EndInv
      /\ decode(buffer) = Refused /\ ended' = "refused"
      /\ sent' = sent /\ closed' = closed /\ foreign' = foreign /\ wire' = wire
      /\ buffer' = buffer /\ readable' = readable /\ eof' = eof /\ got' = got
  BY DEF IInv, decodeRefused, Types
<1>2. Types' /\ ReadInv' /\ FramesInOrder'
  BY <1>1 DEF Types, ReadInv, FramesInOrder
<1>3. Stream' = Stream
  BY <1>1 DEF Stream
<1>4. StreamInv'
  BY <1>1, <1>3 DEF StreamInv
<1>5. Len(got) \in Nat /\ Len(sent) \in Nat
  BY <1>1 DEF Types
<1>6. ~(Len(got) < Len(sent))
  <2>1. SUFFICES ASSUME Len(got) < Len(sent) PROVE FALSE
    OBVIOUS
  <2>2. /\ sent[Len(got) + 1] \in Messages
        /\ decode(buffer) \in {Incomplete, sent[Len(got) + 1]}
    BY <1>1, <2>1, NextFrame
  <2>3. QED
    BY <1>1, <2>2, MessagesAssumption, NoMessage
<1>7. foreign
  <2>1. CASE Len(got) > Len(sent)
    BY <1>1, <2>1 DEF FramesInOrder
  <2>2. CASE Len(got) = Len(sent)
    BY <1>1, <2>2, NoMoreFrames, NoMessage
  <2>3. QED
    BY <1>5, <1>6, <2>1, <2>2
<1>8. EndInv'
  BY <1>1, <1>5, <1>6, <1>7 DEF EndInv
<1>9. QED
  BY <1>2, <1>4, <1>8 DEF IInv

LEMMA Inductive ==
  ASSUME IInv, [Next]_vars
  PROVE  IInv'
<1>1. CASE UNCHANGED vars
  BY <1>1 DEF vars, reader, IInv, Types, ReadInv, FramesInOrder, StreamInv, Stream, EndInv
<1>2. CASE Next
  <2>1. ASSUME NEW m \in Messages, send(m) PROVE IInv'
    BY <2>1, SendStep
  <2>2. ASSUME NEW m \in Messages, NEW n \in 0 .. Len(encode(m)) - 1, hangUp(m, n) PROVE IInv'
    BY <2>2, HangUpStep
  <2>3. ASSUME NEW bytes \in Foreign, writeForeign(bytes) PROVE IInv'
    BY <2>3, ForeignStep
  <2>4. ASSUME NEW n \in 1 .. MaxRead, read(n) PROVE IInv'
    BY <2>4, ReadStep
  <2>5. CASE readEof
    BY <2>5, ReadEofStep
  <2>6. CASE decodeFrame
    BY <2>6, DecodeFrameStep
  <2>7. CASE decodeNothing
    BY <2>7, DecodeNothingStep
  <2>8. CASE decodeRefused
    BY <2>8, DecodeRefusedStep
  <2>9. QED
    BY <1>2, <2>1, <2>2, <2>3, <2>4, <2>5, <2>6, <2>7, <2>8 DEF Next, ReaderStep
<1>3. QED
  BY <1>1, <1>2

-------------------------------------------------------------------------------

\* The invariant of a connection: what is missing of the messages sent is whole
\* and in order between the client and the handler.
THEOREM Invariance == Spec => []IInv
<1>1. Init => IInv
  BY InitInv
<1>2. IInv /\ [Next]_vars => IInv'
  BY Inductive
<1>3. QED
  BY <1>1, <1>2, PTL DEF Spec

\* For every base, frame limit and size of a read, whatever a peer writes and
\* whatever length it claims: the buffer holds less than one header, one frame
\* and one read.
THEOREM TypeCorrect == Spec => []TypeOK
<1>1. IInv => TypeOK
  BY DEF IInv, Types, ReadInv, TypeOK
<1>2. QED
  BY <1>1, Invariance, PTL

\* For all messages, and however the stream is cut into reads: the handler is
\* given what was sent, in order and unchanged, and nothing else from a client
\* of this protocol.
THEOREM MessagesArrive == Spec => []FramesInOrder
<1>1. IInv => FramesInOrder
  BY DEF IInv
<1>2. QED
  BY <1>1, Invariance, PTL

\* A handler that has returned, or that waits with an empty socket, has been
\* given every message that was sent, for every sequence of messages and reads.
THEOREM NothingIsLeft == Spec => []NothingLeftBehind
<1>1. IInv => NothingLeftBehind
  <2>1. SUFFICES ASSUME IInv, ended # "no" \/ (~readable /\ wire = <<>>)
                 PROVE  Len(got) >= Len(sent)
    BY DEF NothingLeftBehind
  <2>2. Types /\ ReadInv /\ StreamInv /\ EndInv /\ Len(got) \in Nat /\ Len(sent) \in Nat
    BY <2>1 DEF IInv, Types
  <2>3. CASE ended # "no"
    BY <2>2, <2>3 DEF EndInv
  <2>4. CASE ~readable /\ wire = <<>> /\ Len(got) < Len(sent)
    <3>1. decode(buffer) = Incomplete
      BY <2>2, <2>4 DEF ReadInv
    <3>2. sent[Len(got) + 1] \in Messages /\ decode(buffer) = sent[Len(got) + 1]
      BY <2>2, <2>4, NextFrame
    <3>3. QED
      BY <3>1, <3>2, MessagesAssumption, NoMessage
  <2>5. QED
    BY <2>1, <2>2, <2>3, <2>4
<1>2. QED
  BY <1>1, Invariance, PTL
===============================================================================
