-------------------------- MODULE AttachClientProofs --------------------------
(***************************************************************************)
(* For every capacity and every input and history of the terminal: the     *)
(* first special character decides, a suspended client is detached, and    *)
(* the pty never goes back to an earlier size.                             *)
(***************************************************************************)
EXTENDS AttachClient, SequenceTheorems, NaturalsInduction, WellFoundedInduction, TLAPS

-------------------------------------------------------------------------------
(* Keys: what comes before the first special character.                      *)

LEMMA FirstIsLeast ==
  ASSUME NEW S, S \subseteq Nat, S # {}
  PROVE  First(S) \in S /\ \A j \in S : First(S) <= j
<1>1. PICK i \in S : \A j \in S : <<j, i>> \notin OpToRel(<, Nat)
  BY NatLessThanWellFounded, WFMin
<1>2. \A j \in S : ~(j < i)
  BY <1>1, Zenon DEF OpToRel
<1>3. \A j \in S : i <= j
  BY <1>2
<1>4. QED
  BY <1>3 DEF First

LEMMA KeysAll ==
  ASSUME NEW s \in Seq(Byte), \A i \in 1 .. Len(s) : s[i].is = "key"
  PROVE  Keys(s) = s
BY DEF Keys

LEMMA KeysUpTo ==
  ASSUME NEW s \in Seq(Byte), NEW at \in 1 .. Len(s), s[at].is # "key",
         \A j \in 1 .. at - 1 : s[j].is = "key"
  PROVE  Keys(s) = SubSeq(s, 1, at - 1)
<1> DEFINE special == {i \in 1 .. Len(s) : s[i].is # "key"}
<1>1. special \subseteq Nat /\ at \in special
  OBVIOUS
<1>2. First(special) \in special /\ First(special) <= at
  BY <1>1, FirstIsLeast
<1>3. \A i \in special : at <= i
  OBVIOUS
<1>4. First(special) = at
  BY <1>1, <1>2, <1>3
<1>5. QED
  BY <1>1, <1>4 DEF Keys

\* find_special_char finds what Keys stops at.
LEMMA FindSpecial ==
  ASSUME NEW s \in Seq(Byte)
  PROVE  LET at == find_special_char(s)
         IN  \/ at = 0 /\ \A i \in 1 .. Len(s) : s[i].is = "key"
             \/ /\ at \in 1 .. Len(s) /\ s[at].is \in {"detach", "suspend"}
                /\ \A j \in 1 .. at - 1 : s[j].is = "key"
<1> DEFINE special == Special(s, {"detach", "suspend"})
<1>1. \A i \in 1 .. Len(s) : s[i].is = "key" <=> i \notin special
  <2>1. ASSUME NEW i \in 1 .. Len(s) PROVE s[i].is \in {"key", "detach", "suspend"}
    <3>1. s[i] \in Byte
      OBVIOUS
    <3>2. QED
      BY <3>1 DEF Byte
  <2>2. QED
    BY <2>1 DEF Special
<1>2. CASE special = {}
  BY <1>1, <1>2 DEF find_special_char
<1>3. CASE special # {}
  <2>1. special \subseteq Nat
    BY DEF Special
  <2>2. First(special) \in special /\ \A j \in special : First(special) <= j
    BY <1>3, <2>1, FirstIsLeast
  <2>3. find_special_char(s) = First(special)
    BY <1>3 DEF find_special_char
  <2>4. First(special) \in 1 .. Len(s) /\ s[First(special)].is \in {"detach", "suspend"}
    BY <2>2 DEF Special
  <2>5. ASSUME NEW j \in 1 .. First(special) - 1 PROVE s[j].is = "key"
    <3>1. j \in 1 .. Len(s) /\ ~(First(special) <= j)
      BY <2>4
    <3>2. QED
      BY <1>1, <2>2, <3>1
  <2>6. QED
    BY <2>3, <2>4, <2>5
<1>4. QED
  BY <1>2, <1>3

-------------------------------------------------------------------------------
(* Cuts: adding a message at the end, taking the first one away.              *)

LEMMA PartOfPrefix ==
  ASSUME NEW S, NEW s \in Seq(S), NEW t \in Seq(S),
         NEW a \in Nat, NEW b \in Nat, a <= b, b <= Len(s)
  PROVE  SubSeq(s \o t, a + 1, b) = SubSeq(s, a + 1, b)
<1> DEFINE n == Len(s)
           u == s \o t
<1>1. u \in Seq(S) /\ Len(u) = n + Len(t) /\ n \in Nat /\ Len(t) \in Nat
      /\ \A i \in 1 .. n : u[i] = s[i] /\ s[i] \in S
  BY ConcatProperties
<1>2. b <= n
  OBVIOUS
<1> HIDE DEF n, u
<1>3. \A i \in a + 1 .. b : u[i] \in S /\ s[i] \in S /\ u[i] = s[i]
  BY <1>1, <1>2
<1>4. /\ SubSeq(u, a + 1, b) \in Seq(S) /\ SubSeq(s, a + 1, b) \in Seq(S)
      /\ Len(SubSeq(u, a + 1, b)) = IF a + 1 <= b THEN b - (a + 1) + 1 ELSE 0
      /\ Len(SubSeq(s, a + 1, b)) = IF a + 1 <= b THEN b - (a + 1) + 1 ELSE 0
      /\ \A i \in 1 .. b - (a + 1) + 1 : SubSeq(u, a + 1, b)[i] = u[a + 1 + i - 1]
      /\ \A i \in 1 .. b - (a + 1) + 1 : SubSeq(s, a + 1, b)[i] = s[a + 1 + i - 1]
  <2>1. a + 1 \in Int /\ b \in Int
    OBVIOUS
  <2>2. QED
    BY <1>3, <2>1, SubSeqProperties
<1>5. Len(SubSeq(u, a + 1, b)) = b - a /\ Len(SubSeq(s, a + 1, b)) = b - a
  BY <1>4
<1>6. ASSUME NEW i \in 1 .. b - a PROVE SubSeq(u, a + 1, b)[i] = SubSeq(s, a + 1, b)[i]
  <2>1. i \in 1 .. b - (a + 1) + 1 /\ a + 1 + i - 1 \in a + 1 .. b
    OBVIOUS
  <2>2. QED
    BY <1>3, <1>4, <2>1
<1>7. SubSeq(u, a + 1, b) = SubSeq(s, a + 1, b)
  BY <1>4, <1>5, <1>6, SeqEqual
<1>8. QED
  BY <1>7 DEF u

LEMMA PartIsSuffix ==
  ASSUME NEW S, NEW s \in Seq(S), NEW t \in Seq(S)
  PROVE  SubSeq(s \o t, Len(s) + 1, Len(s) + Len(t)) = t
<1> DEFINE u  == s \o t
           lo == Len(s) + 1
           hi == Len(s) + Len(t)
           v  == SubSeq(u, lo, hi)
<1>1. /\ u \in Seq(S) /\ Len(u) = hi
      /\ \A i \in 1 .. hi : u[i] = IF i <= Len(s) THEN s[i] ELSE t[i - Len(s)]
      /\ \A i \in 1 .. hi : u[i] \in S
  BY ConcatProperties
<1>2. Len(s) \in Nat /\ Len(t) \in Nat /\ lo \in Int /\ hi \in Int
  OBVIOUS
<1> HIDE DEF u
<1>3. \A i \in lo .. hi : u[i] \in S
  BY <1>1, <1>2
<1> HIDE DEF lo, hi
<1>4. /\ v \in Seq(S) /\ Len(v) = IF lo <= hi THEN hi - lo + 1 ELSE 0
      /\ \A i \in 1 .. hi - lo + 1 : v[i] = u[lo + i - 1]
  BY <1>2, <1>3, SubSeqProperties
<1> HIDE DEF v
<1>5. Len(v) = Len(t)
  BY ONLY <1>2, <1>4 DEF lo, hi
<1>6. ASSUME NEW i \in 1 .. Len(t) PROVE v[i] = t[i]
  <2>1. /\ i \in 1 .. hi - lo + 1 /\ lo + i - 1 = Len(s) + i
        /\ Len(s) + i \in 1 .. hi /\ ~(Len(s) + i <= Len(s)) /\ Len(s) + i - Len(s) = i
    BY <1>2 DEF lo, hi
  <2>2. QED
    BY <1>1, <1>4, <2>1
<1>7. v = t
  BY <1>4, <1>5, <1>6, SeqEqual
<1>8. QED
  BY <1>7 DEF v, u, lo, hi

LEMMA JoinParts ==
  ASSUME NEW S, NEW s \in Seq(S), NEW a \in Nat, NEW b \in Nat, a <= b, b <= Len(s)
  PROVE  /\ SubSeq(s, 1, a) \o SubSeq(s, a + 1, b) = SubSeq(s, 1, b)
         /\ Len(SubSeq(s, 1, b)) = b
<1> DEFINE n == Len(s)
           p == SubSeq(s, 1, a)
           q == SubSeq(s, a + 1, b)
           r == SubSeq(s, 1, b)
<1>1. n \in Nat /\ \A i \in 1 .. n : s[i] \in S
  OBVIOUS
<1>2. b <= n
  OBVIOUS
<1> HIDE DEF n
<1>3. /\ p \in Seq(S) /\ Len(p) = a /\ \A i \in 1 .. a : p[i] = s[i]
  <2>1. \A i \in 1 .. a : s[i] \in S
    BY <1>1, <1>2
  <2>2. /\ p \in Seq(S) /\ Len(p) = IF 1 <= a THEN a - 1 + 1 ELSE 0
        /\ \A i \in 1 .. a - 1 + 1 : p[i] = s[1 + i - 1]
    BY <2>1, SubSeqProperties
  <2>3. a - 1 + 1 = a /\ \A i \in 1 .. a : 1 + i - 1 = i
    OBVIOUS
  <2>4. QED
    BY ONLY <2>2, <2>3, a \in Nat
<1>4. /\ r \in Seq(S) /\ Len(r) = b /\ \A i \in 1 .. b : r[i] = s[i]
  <2>1. \A i \in 1 .. b : s[i] \in S
    BY <1>1, <1>2
  <2>2. /\ r \in Seq(S) /\ Len(r) = IF 1 <= b THEN b - 1 + 1 ELSE 0
        /\ \A i \in 1 .. b - 1 + 1 : r[i] = s[1 + i - 1]
    BY <2>1, SubSeqProperties
  <2>3. b - 1 + 1 = b /\ \A i \in 1 .. b : 1 + i - 1 = i
    OBVIOUS
  <2>4. QED
    BY ONLY <2>2, <2>3, b \in Nat
<1>5. /\ q \in Seq(S) /\ Len(q) = b - a /\ \A i \in 1 .. b - a : q[i] = s[a + i]
  <2>1. \A i \in a + 1 .. b : s[i] \in S
    BY <1>1, <1>2
  <2>2. /\ q \in Seq(S) /\ Len(q) = IF a + 1 <= b THEN b - (a + 1) + 1 ELSE 0
        /\ \A i \in 1 .. b - (a + 1) + 1 : q[i] = s[a + 1 + i - 1]
    BY <2>1, SubSeqProperties
  <2>3. b - (a + 1) + 1 = b - a /\ \A i \in 1 .. b - a : a + 1 + i - 1 = a + i
    OBVIOUS
  <2>4. Len(q) = b - a
    BY <2>2
  <2>5. QED
    BY ONLY <2>2, <2>3, <2>4
<1> HIDE DEF p, q, r
<1>6. /\ p \o q \in Seq(S) /\ Len(p \o q) = a + (b - a)
      /\ \A i \in 1 .. a + (b - a) : (p \o q)[i] = IF i <= a THEN p[i] ELSE q[i - a]
  <2>1. /\ p \o q \in Seq(S) /\ Len(p \o q) = Len(p) + Len(q)
        /\ \A i \in 1 .. Len(p) + Len(q) :
             (p \o q)[i] = IF i <= Len(p) THEN p[i] ELSE q[i - Len(p)]
    BY <1>3, <1>5, ConcatProperties
  <2>2. QED
    BY ONLY <1>3, <1>5, <2>1
<1>7. ASSUME NEW i \in 1 .. b PROVE (p \o q)[i] = r[i]
  <2>1. CASE i <= a
    BY <1>3, <1>4, <1>6, <2>1
  <2>2. CASE ~(i <= a)
    <3>1. i - a \in 1 .. b - a /\ a + (i - a) = i /\ i \in 1 .. a + (b - a)
      BY <2>2
    <3>2. q[i - a] = s[i] /\ r[i] = s[i]
      BY <1>4, <1>5, <3>1
    <3>3. (p \o q)[i] = q[i - a]
      BY ONLY <1>6, <2>2, <3>1
    <3>4. QED
      BY ONLY <3>2, <3>3
  <2>3. QED
    BY <2>1, <2>2
<1>8. p \o q = r
  <2>1. Len(p \o q) = Len(r) /\ a + (b - a) = b
    BY <1>4, <1>6
  <2>2. QED
    BY <1>4, <1>6, <1>7, <2>1, SeqEqual
<1>9. QED
  BY <1>4, <1>8 DEF p, q, r

LEMMA CutAppend ==
  ASSUME NEW S, NEW keys \in Seq(S), NEW done, NEW M, NEW msgs \in Seq(M), NEW m \in M,
         KeysIn(m) \in Seq(S), IsCutInto(keys, done, msgs)
  PROVE  IsCutInto(keys \o KeysIn(m), done, Append(msgs, m))
<1>1. PICK cut \in [0 .. Len(msgs) -> 0 .. Len(keys)] :
        /\ cut[0] = Len(done) /\ done = SubSeq(keys, 1, cut[0])
        /\ \A i \in 1 .. Len(msgs) :
             cut[i - 1] <= cut[i] /\ KeysIn(msgs[i]) = SubSeq(keys, cut[i - 1] + 1, cut[i])
        /\ cut[Len(msgs)] = Len(keys)
  BY DEF IsCutInto
<1> DEFINE n    == Len(msgs)
           k    == KeysIn(m)
           all  == keys \o k
           more == Append(msgs, m)
           next == [i \in 0 .. n + 1 |-> IF i <= n THEN cut[i] ELSE Len(all)]
<1>2. /\ more \in Seq(M) /\ Len(more) = n + 1 /\ more[n + 1] = m
      /\ \A i \in 1 .. n : more[i] = msgs[i]
  BY AppendProperties
<1>3. n \in Nat /\ Len(keys) \in Nat /\ k \in Seq(S) /\ Len(k) \in Nat
  OBVIOUS
<1>4. all \in Seq(S) /\ Len(all) = Len(keys) + Len(k)
  BY <1>3, ConcatProperties
<1>5. \A i \in 0 .. n : cut[i] \in Nat /\ cut[i] <= Len(keys)
  BY <1>1, <1>3
<1> HIDE DEF n, k, all, more
<1>6. next \in [0 .. Len(more) -> 0 .. Len(all)]
  BY <1>2, <1>3, <1>4, <1>5
<1>7. next[0] = cut[0] /\ cut[0] = Len(done) /\ done = SubSeq(keys, 1, cut[0])
  BY <1>1, <1>3
<1>8. SubSeq(all, 1, cut[0]) = SubSeq(keys, 1, cut[0])
  <2>1. cut[0] \in Nat /\ cut[0] <= Len(keys) /\ 0 \in Nat /\ 0 <= cut[0] /\ 0 + 1 = 1
    BY <1>3, <1>5
  <2>2. SubSeq(keys \o k, 0 + 1, cut[0]) = SubSeq(keys, 0 + 1, cut[0])
    BY <1>3, <2>1, PartOfPrefix
  <2>3. QED
    BY <2>1, <2>2 DEF all
<1>9. next[Len(more)] = Len(all)
  BY <1>2, <1>3
<1>10. ASSUME NEW i \in 1 .. Len(more)
       PROVE  next[i - 1] <= next[i] /\ KeysIn(more[i]) = SubSeq(all, next[i - 1] + 1, next[i])
  <2>1. CASE i = n + 1
    <3>1. next[i - 1] = Len(keys) /\ next[i] = Len(all) /\ KeysIn(more[i]) = k
      <4>1. i - 1 = n /\ i - 1 \in 0 .. n + 1 /\ i \in 0 .. n + 1 /\ n <= n /\ ~(i <= n)
        BY <1>3, <2>1
      <4>2. cut[n] = Len(keys)
        BY <1>1 DEF n
      <4>3. KeysIn(more[i]) = k
        BY <1>2, <2>1 DEF k
      <4>4. QED
        BY <4>1, <4>2, <4>3
    <3>2. SubSeq(keys \o k, Len(keys) + 1, Len(keys) + Len(k)) = k
      BY <1>3, PartIsSuffix
    <3>3. SubSeq(all, next[i - 1] + 1, next[i]) = k
      BY ONLY <1>4, <3>1, <3>2 DEF all
    <3>4. Len(keys) <= Len(all)
      BY <1>3, <1>4
    <3>5. QED
      BY ONLY <3>1, <3>3, <3>4
  <2>2. CASE i # n + 1
    <3>1. i \in 1 .. n /\ i - 1 \in 0 .. n
      BY <1>2, <1>3, <2>2
    <3>2. next[i] = cut[i] /\ next[i - 1] = cut[i - 1] /\ more[i] = msgs[i]
      BY <1>2, <1>3, <3>1
    <3>3. cut[i - 1] <= cut[i] /\ KeysIn(msgs[i]) = SubSeq(keys, cut[i - 1] + 1, cut[i])
      BY <1>1, <3>1 DEF n
    <3>4. SubSeq(keys \o k, cut[i - 1] + 1, cut[i]) = SubSeq(keys, cut[i - 1] + 1, cut[i])
      <4>1. cut[i] \in Nat /\ cut[i - 1] \in Nat /\ cut[i] <= Len(keys)
        BY <1>3, <1>5, <3>1
      <4>2. QED
        BY <1>3, <3>3, <4>1, PartOfPrefix, ZenonT(40)
    <3>5. QED
      BY ONLY <3>2, <3>3, <3>4 DEF all
  <2>3. QED
    BY <2>1, <2>2
<1> HIDE DEF next
<1>11. IsCutInto(all, done, more)
  <2>1. next[0] = Len(done) /\ done = SubSeq(all, 1, next[0])
    BY ONLY <1>7, <1>8
  <2>2. QED
    BY <1>6, <1>9, <1>10, <2>1 DEF IsCutInto
<1>12. QED
  BY <1>11 DEF all, k, more

LEMMA CutTail ==
  ASSUME NEW S, NEW keys \in Seq(S), NEW done, NEW M, NEW msgs \in Seq(M), msgs # <<>>,
         IsCutInto(keys, done, msgs)
  PROVE  IsCutInto(keys, done \o KeysIn(Head(msgs)), Tail(msgs))
<1>1. PICK cut \in [0 .. Len(msgs) -> 0 .. Len(keys)] :
        /\ cut[0] = Len(done) /\ done = SubSeq(keys, 1, cut[0])
        /\ \A i \in 1 .. Len(msgs) :
             cut[i - 1] <= cut[i] /\ KeysIn(msgs[i]) = SubSeq(keys, cut[i - 1] + 1, cut[i])
        /\ cut[Len(msgs)] = Len(keys)
  BY DEF IsCutInto
<1> DEFINE n     == Len(msgs)
           rest  == Tail(msgs)
           more  == done \o KeysIn(Head(msgs))
           next  == [i \in 0 .. n - 1 |-> cut[i + 1]]
<1>2. /\ rest \in Seq(M) /\ Len(rest) = n - 1 /\ \A i \in 1 .. n - 1 : rest[i] = msgs[i + 1]
      /\ Head(msgs) = msgs[1]
  BY HeadTailProperties
<1>3. n \in Nat /\ n >= 1 /\ Len(keys) \in Nat
  OBVIOUS
<1>4. \A i \in 0 .. n : cut[i] \in Nat /\ cut[i] <= Len(keys)
  <2>1. ASSUME NEW i \in 0 .. n PROVE cut[i] \in 0 .. Len(keys)
    BY ONLY <2>1, cut \in [0 .. n -> 0 .. Len(keys)]
  <2>2. QED
    BY <1>3, <2>1
<1>5. /\ cut[0] <= cut[1] /\ KeysIn(msgs[1]) = SubSeq(keys, cut[0] + 1, cut[1])
      /\ cut[0] \in Nat /\ cut[1] \in Nat /\ cut[1] <= Len(keys)
  <2>1. 1 - 1 = 0 /\ 0 \in 0 .. n /\ 1 \in 0 .. n
    BY <1>3
  <2>2. QED
    <3>1. cut[1 - 1] <= cut[1] /\ KeysIn(msgs[1]) = SubSeq(keys, cut[1 - 1] + 1, cut[1])
      BY <1>1, <1>3
    <3>2. QED
      BY <1>4, <2>1, <3>1
<1> HIDE DEF n, rest, more
<1>6. more = SubSeq(keys, 1, cut[1]) /\ Len(more) = cut[1]
  <2>1. /\ SubSeq(keys, 1, cut[0]) \o SubSeq(keys, cut[0] + 1, cut[1]) = SubSeq(keys, 1, cut[1])
        /\ Len(SubSeq(keys, 1, cut[1])) = cut[1]
    BY <1>5, JoinParts
  <2>2. more = SubSeq(keys, 1, cut[0]) \o SubSeq(keys, cut[0] + 1, cut[1])
    BY ONLY <1>1, <1>2, <1>5 DEF more
  <2>3. QED
    BY <2>1, <2>2
<1>7. next \in [0 .. Len(rest) -> 0 .. Len(keys)]
  <2>1. \A i \in 0 .. n - 1 : cut[i + 1] \in 0 .. Len(keys)
    BY <1>3, <1>4
  <2>2. QED
    BY <1>2, <2>1
<1>8. next[0] = cut[1]
  BY <1>3
<1>9. next[Len(rest)] = Len(keys)
  <2>1. n - 1 \in 0 .. n - 1 /\ n - 1 + 1 = n /\ cut[n] = Len(keys)
    BY <1>1, <1>3 DEF n
  <2>2. QED
    BY <1>2, <2>1
<1>10. ASSUME NEW i \in 1 .. Len(rest)
       PROVE  next[i - 1] <= next[i] /\ KeysIn(rest[i]) = SubSeq(keys, next[i - 1] + 1, next[i])
  <2>1. i \in 1 .. n - 1 /\ i - 1 \in 0 .. n - 1 /\ i \in 0 .. n - 1 /\ i - 1 + 1 = i
        /\ i + 1 \in 1 .. n /\ i + 1 - 1 = i
    BY <1>2, <1>3
  <2>2. next[i - 1] = cut[i] /\ next[i] = cut[i + 1] /\ rest[i] = msgs[i + 1]
    BY <1>2, <2>1
  <2>3. /\ cut[i + 1 - 1] <= cut[i + 1]
        /\ KeysIn(msgs[i + 1]) = SubSeq(keys, cut[i + 1 - 1] + 1, cut[i + 1])
    BY <1>1, <2>1 DEF n
  <2>4. QED
    BY ONLY <2>1, <2>2, <2>3
<1> HIDE DEF next
<1>11. IsCutInto(keys, more, rest)
  <2>1. next[0] = Len(more) /\ more = SubSeq(keys, 1, next[0])
    BY <1>6, <1>8
  <2>2. QED
    BY <1>7, <1>9, <1>10, <2>1 DEF IsCutInto
<1>12. QED
  BY <1>11 DEF more, rest

-------------------------------------------------------------------------------
(* The inductive invariant, one part per property.                           *)

Messages ==
  [type : {"attach", "detach"}, content : {<<>>}]
    \cup [type : {"push"}, content : Seq(Byte)]
    \cup [type : {"redraw", "winch"}, content : 1 .. MaxSizes]

Types == TypeOK /\ sock \in Seq(Messages) /\ todo \in Seq(Messages)

\* What the client has sent or is sending and the handler has not read.
way == sock \o todo

\* Where the client is, or will be when its messages are sent.
Verdict == IF client = "sending" THEN outcome ELSE client

\* Before the handshake nothing is on its way, and only a client that sends or
\* whose send failed has something left to send.
SetUp ==
  /\ client = "start" => ~watching /\ ~pending
  /\ client \in {"start", "watching"} =>
       sock = <<>> /\ ctl = <<>> /\ resizes = <<>> /\ held = 0 /\ ptySize = 0
  /\ client \notin {"sending", "failed"} => todo = <<>>

\* A client in its loop has read keys only; one that leaves it for a special
\* character has that one in its input, and keys before it.
Decided(v, bytes) ==
  /\ v \in {"start", "watching", "loop", "closed", "ended"} =>
       \A i \in 1 .. Len(bytes) : bytes[i].is = "key"
  /\ v \in {"detached", "suspended"} =>
       \E i \in 1 .. Len(bytes) :
         /\ \A j \in 1 .. i - 1 : bytes[j].is = "key"
         /\ bytes[i].is = IF v = "detached" THEN "detach" ELSE "suspend"

InputKept == IsCutInto(Keys(typed), pushed, way) /\ Decided(Verdict, typed)

\* The last message of a client that suspends is its detach.
LastIsDetach ==
  Verdict = "suspended" =>
    IF way = <<>> THEN ~attached ELSE way[Len(way)].type = "detach"

\* s rises, between lo and hi.
Rising(s, lo, hi) ==
  \A i \in 1 .. Len(s) :
    lo <= s[i] /\ s[i] <= hi /\ \A j \in i .. Len(s) : s[i] <= s[j]

IsSize(msg) == msg.type \in {"redraw", "winch"}

\* So do the sizes among the messages.
SizesRise(msgs, lo, hi) ==
  \A i \in 1 .. Len(msgs) :
    IsSize(msgs[i]) =>
      /\ lo <= msgs[i].content /\ msgs[i].content <= hi
      /\ \A j \in i .. Len(msgs) : IsSize(msgs[j]) => msgs[i].content <= msgs[j].content

\* From the pty to the terminal a size is never older than those ahead of it:
\* in the control channel up to a, in the messages up to b, in the watcher's
\* channel up to c.
SizesFlow ==
  \E a, b, c \in 0 .. MaxSizes :
    /\ ptySize <= a /\ a <= b /\ b <= c /\ c <= size
    /\ Rising(ctl, ptySize, a)
    /\ SizesRise(way, a, b)
    /\ Rising(resizes, b, c)
    /\ held # 0 => c <= held /\ held <= size

IInv ==
  /\ Types
  /\ SetUp
  /\ InputKept
  /\ LastIsDetach
  /\ SizesFlow

-------------------------------------------------------------------------------
(* Types.                                                                    *)

LEMMA Sizes ==
  /\ SockCap \in Nat /\ ResizeCap \in Nat /\ CtlCap \in Nat /\ MaxChunk \in Nat
  /\ MaxSizes \in Nat /\ MaxSizes >= 1 /\ MaxTyped \in Nat
BY SizesAssumption

LEMMA TailType ==
  ASSUME NEW S, NEW s \in Seq(S), s # <<>>
  PROVE  Head(s) \in S /\ Tail(s) \in Seq(S) /\ Len(Tail(s)) = Len(s) - 1
BY HeadTailProperties

LEMMA AppendType ==
  ASSUME NEW S, NEW s \in Seq(S), NEW e \in S
  PROVE  Append(s, e) \in Seq(S) /\ Len(Append(s, e)) = Len(s) + 1
BY AppendProperties

LEMMA MessageTypes ==
  /\ Message("attach", <<>>) \in Messages /\ Message("detach", <<>>) \in Messages
  /\ \A b \in Seq(Byte) : Message("push", b) \in Messages
  /\ \A n \in 1 .. MaxSizes : Message("redraw", n) \in Messages
                             /\ Message("winch", n) \in Messages
BY DEF Message, Messages

\* What a message holds, by its type.
LEMMA MessageContent ==
  ASSUME NEW m \in Messages
  PROVE  /\ KeysIn(m) \in Seq(Byte)
         /\ m.type \in {"attach", "detach", "push", "redraw", "winch"}
         /\ m.type = "push" => m.content \in Seq(Byte)
         /\ IsSize(m) => m.content \in 1 .. MaxSizes
BY DEF Messages, KeysIn, IsSize

LEMMA ChunkType ==
  ASSUME NEW chunk \in Chunks, typed \in Seq(Byte)
  PROVE  chunk \in Seq(Byte) /\ Len(chunk) \in Nat \ {0}
<1> DEFINE n   == Len(typed)
           top == IF MaxTyped - n < MaxChunk THEN MaxTyped - n ELSE MaxChunk
<1>1. PICK m \in 1 .. top : \E k \in [1 .. m -> {"key", "detach", "suspend"}] :
        chunk = [i \in 1 .. m |-> [pos |-> n + i, is |-> k[i]]]
  BY DEF Chunks
<1>2. PICK k \in [1 .. m -> {"key", "detach", "suspend"}] :
        chunk = [i \in 1 .. m |-> [pos |-> n + i, is |-> k[i]]]
  BY <1>1
<1>3. n \in Nat /\ top \in Int /\ top <= MaxTyped - n
  BY Sizes
<1>4. ASSUME NEW i \in 1 .. m PROVE [pos |-> n + i, is |-> k[i]] \in Byte
  <2>1. n + i \in 1 .. MaxTyped
    BY <1>1, <1>3, Sizes
  <2>2. QED
    BY <2>1, <1>2 DEF Byte
<1>5. m \in Nat \ {0}
  BY <1>1, <1>3
<1>6. QED
  BY <1>2, <1>4, <1>5

\* The keys of a chunk up to its first special character.
LEMMA ChunkPart ==
  ASSUME NEW chunk \in Seq(Byte), NEW at \in 1 .. Len(chunk)
  PROVE  /\ SubSeq(chunk, 1, at - 1) \in Seq(Byte)
         /\ Len(SubSeq(chunk, 1, at - 1)) = at - 1
<1>1. \A i \in 1 .. at - 1 : chunk[i] \in Byte
  OBVIOUS
<1>2. 1 \in Int /\ at - 1 \in Int
  OBVIOUS
<1>3. /\ SubSeq(chunk, 1, at - 1) \in Seq(Byte)
      /\ Len(SubSeq(chunk, 1, at - 1)) = IF 1 <= at - 1 THEN at - 1 - 1 + 1 ELSE 0
  BY <1>1, <1>2, SubSeqProperties
<1>4. QED
  BY <1>3

\* What a read of the terminal sends.
LEMMA InputSends ==
  ASSUME Types, SetUp, NEW chunk \in Chunks, input(chunk)
  PROVE  /\ client = "loop" /\ client' = "sending" /\ todo = <<>> /\ typed' = typed \o chunk
         /\ UNCHANGED <<watchVars, sock, daemonVars>>
         /\ chunk \in Seq(Byte) /\ chunk # <<>>
         /\ \/ /\ \A i \in 1 .. Len(chunk) : chunk[i].is = "key"
               /\ todo' = <<Message("push", chunk)>> /\ outcome' = "loop"
            \/ \E at \in 1 .. Len(chunk) :
                 LET keys == SubSeq(chunk, 1, at - 1)
                     Push == IF keys = <<>> THEN <<>> ELSE <<Message("push", keys)>>
                 IN  /\ \A j \in 1 .. at - 1 : chunk[j].is = "key"
                     /\ keys \in Seq(Byte)
                     /\ \/ /\ chunk[at].is = "suspend" /\ outcome' = "suspended"
                           /\ todo' = Append(Push, Message("detach", <<>>))
                        \/ /\ chunk[at].is = "detach" /\ outcome' = "detached"
                           /\ todo' = Push
<1> DEFINE at   == find_special_char(chunk)
           keys == SubSeq(chunk, 1, at - 1)
           Push == IF keys = <<>> THEN <<>> ELSE <<Message("push", keys)>>
<1>1. chunk \in Seq(Byte) /\ Len(chunk) \in Nat \ {0}
  BY ChunkType DEF Types, TypeOK
<1>2. chunk # <<>>
  BY <1>1
<1>3. /\ client = "loop" /\ client' = "sending" /\ todo = <<>> /\ typed' = typed \o chunk
      /\ UNCHANGED <<watchVars, sock, daemonVars>>
  BY DEF input, Send, SetUp
<1>4. \/ at = 0 /\ \A i \in 1 .. Len(chunk) : chunk[i].is = "key"
      \/ /\ at \in 1 .. Len(chunk) /\ chunk[at].is \in {"detach", "suspend"}
         /\ \A j \in 1 .. at - 1 : chunk[j].is = "key"
  BY <1>1, FindSpecial
<1>5. CASE at = 0
  <2>1. todo' = <<Message("push", chunk)>> /\ outcome' = "loop"
    BY <1>2, <1>5 DEF input, Send
  <2>2. QED
    BY <1>1, <1>2, <1>3, <1>4, <1>5, <2>1
<1>6. CASE at \in 1 .. Len(chunk)
  <2>1. at # 0
    BY <1>6
  <2>2. keys \in Seq(Byte)
    BY <1>1, <1>6, ChunkPart
  <2>3. IF chunk[at].is = "suspend"
        THEN todo' = Append(Push, Message("detach", <<>>)) /\ outcome' = "suspended"
        ELSE todo' = Push /\ outcome' = "detached"
    BY <2>1 DEF input, Send
  <2>4. chunk[at].is \in {"detach", "suspend"} /\ \A j \in 1 .. at - 1 : chunk[j].is = "key"
    BY <1>4, <2>1
  <2> HIDE DEF at
  <2>5. QED
    BY <1>1, <1>2, <1>3, <1>6, <2>2, <2>3, <2>4
<1>7. QED
  BY <1>4, <1>5, <1>6

LEMMA TypesKept ==
  ASSUME Types, SetUp, Next
  PROVE  Types'
<1> USE DEF Types, TypeOK, watchVars, daemonVars, clientVars, Outcomes
<1>1. CASE spawn_watcher
  BY <1>1 DEF spawn_watcher
<1>2. CASE handshake
  <2>1. <<Message("attach", <<>>), Message("redraw", size)>> \in Seq(Messages)
    BY MessageTypes
  <2>2. QED
    BY <1>2, <2>1 DEF handshake, Send
<1>3. CASE sendOne
  <2>1. Head(todo) \in Messages /\ Tail(todo) \in Seq(Messages)
    BY <1>3, TailType DEF sendOne
  <2>2. Append(sock, Head(todo)) \in Seq(Messages) /\ Len(Append(sock, Head(todo))) = Len(sock) + 1
    BY <2>1, AppendType
  <2>3. Len(sock') <= SockCap
    BY <1>3, <2>2, Sizes DEF sendOne
  <2>4. QED
    BY <1>3, <2>1, <2>2, <2>3 DEF sendOne
<1>4. CASE sendDone \/ sendFails
  BY <1>4 DEF sendDone, sendFails
<1>5. CASE inputEnds \/ seeEnd
  BY <1>5 DEF inputEnds, seeEnd
<1>6. ASSUME NEW chunk \in Chunks, input(chunk) PROVE Types'
  <2>1. /\ client' = "sending" /\ typed' = typed \o chunk /\ chunk \in Seq(Byte)
        /\ UNCHANGED <<watchVars, sock, daemonVars>>
    BY <1>6, InputSends
  <2>2. typed' \in Seq(Byte)
    BY <2>1, ConcatProperties
  <2>3. todo' \in Seq(Messages) /\ outcome' \in {"loop", "suspended", "detached"}
    <3>1. CASE todo' = <<Message("push", chunk)>> /\ outcome' = "loop"
      <4>1. Message("push", chunk) \in Messages
        BY <2>1, MessageTypes
      <4>2. QED
        BY <3>1, <4>1
    <3>2. CASE \E keys \in Seq(Byte) :
                 LET Push == IF keys = <<>> THEN <<>> ELSE <<Message("push", keys)>>
                 IN  \/ outcome' = "suspended" /\ todo' = Append(Push, Message("detach", <<>>))
                     \/ outcome' = "detached" /\ todo' = Push
      <4>1. PICK keys \in Seq(Byte) :
              LET Push == IF keys = <<>> THEN <<>> ELSE <<Message("push", keys)>>
              IN  \/ outcome' = "suspended" /\ todo' = Append(Push, Message("detach", <<>>))
                  \/ outcome' = "detached" /\ todo' = Push
        BY <3>2
      <4> DEFINE Push == IF keys = <<>> THEN <<>> ELSE <<Message("push", keys)>>
      <4>2. Message("push", keys) \in Messages /\ Message("detach", <<>>) \in Messages
        BY MessageTypes
      <4>3. Push \in Seq(Messages)
        BY <4>2
      <4>4. Append(Push, Message("detach", <<>>)) \in Seq(Messages)
        BY <4>2, <4>3, AppendType
      <4>5. QED
        BY <4>1, <4>3, <4>4
    <3>3. QED
      BY <1>6, <3>1, <3>2, InputSends
  <2>4. QED
    BY <2>1, <2>2, <2>3
<1>7. CASE takeResize
  <2>1. /\ Head(resizes) \in 1 .. MaxSizes /\ Tail(resizes) \in Seq(1 .. MaxSizes)
        /\ Len(Tail(resizes)) = Len(resizes) - 1 /\ Len(resizes) \in Nat
    <3>1. resizes \in Seq(1 .. MaxSizes) /\ resizes # <<>>
      BY <1>7 DEF takeResize
    <3>2. QED
      BY ONLY <3>1, TailType, Len(resizes) \in Nat
  <2>2. <<Message("winch", Head(resizes))>> \in Seq(Messages)
    BY <2>1, MessageTypes
  <2>3. QED
    BY <1>7, <2>1, <2>2, Sizes DEF takeResize, Send
<1>8. CASE resize
  BY <1>8, Sizes DEF resize
<1>9. CASE seeSignal
  <2>1. held' \in 0 .. MaxSizes
    BY <1>9, Sizes DEF seeSignal
  <2>2. {watching', pending', open', attached'} \subseteq BOOLEAN
    BY <1>9 DEF seeSignal
  <2>3. QED
    BY <1>9, <2>1, <2>2 DEF seeSignal
<1>10. CASE tellSize
  <2>1. held \in 1 .. MaxSizes /\ Len(resizes) \in Nat
    BY <1>10, Sizes DEF tellSize
  <2>2. Append(resizes, held) \in Seq(1 .. MaxSizes) /\ Len(Append(resizes, held)) = Len(resizes) + 1
    BY <2>1, AppendType
  <2>3. Len(Append(resizes, held)) <= ResizeCap
    BY <1>10, <2>1, <2>2, Sizes DEF tellSize
  <2>4. QED
    BY <1>10, <2>2, <2>3, Sizes DEF tellSize
<1>11. CASE handle
  <2> DEFINE msg == Head(sock)
  <2>1. /\ msg \in Messages /\ Tail(sock) \in Seq(Messages)
        /\ Len(Tail(sock)) = Len(sock) - 1 /\ Len(sock) \in Nat
    BY <1>11, TailType DEF handle
  <2>2. Len(sock') <= SockCap /\ sock' \in Seq(Messages)
    BY <1>11, <2>1, Sizes DEF handle
  <2>3. /\ msg.type \in {"attach", "detach", "push", "redraw", "winch"}
        /\ msg.type = "push" => msg.content \in Seq(Byte)
        /\ msg.type \in {"redraw", "winch"} => msg.content \in 1 .. MaxSizes
    BY <2>1, MessageContent DEF IsSize
  <2>4. attached' \in BOOLEAN /\ pushed' \in Seq(Byte) /\ ctl' \in Seq(1 .. MaxSizes)
        /\ Len(ctl') <= CtlCap
    <3>1. CASE msg.type \in {"attach", "detach"}
      BY <1>11, <3>1 DEF handle
    <3>2. CASE msg.type = "push"
      <4>1. pushed' = pushed \o msg.content /\ UNCHANGED <<attached, ctl>>
        BY <1>11, <3>2 DEF handle
      <4>2. QED
        BY <2>3, <3>2, <4>1, ConcatProperties
    <3>3. CASE msg.type \in {"redraw", "winch"}
      <4>1. Len(ctl) < CtlCap /\ ctl' = Append(ctl, msg.content) /\ UNCHANGED <<attached, pushed>>
        BY <1>11, <3>3 DEF handle
      <4>2. ctl' \in Seq(1 .. MaxSizes) /\ Len(ctl') = Len(ctl) + 1
        BY <2>3, <3>3, <4>1, AppendType
      <4>3. Len(ctl') <= CtlCap
        BY <4>1, <4>2, Sizes
      <4>4. QED
        BY <4>1, <4>2, <4>3
    <3>4. QED
      BY <2>3, <3>1, <3>2, <3>3
  <2>5. UNCHANGED <<clientVars, open, blocked, serving, ptySize>>
    BY <1>11 DEF handle
  <2>6. QED
    BY <2>2, <2>4, <2>5
<1>12. CASE setSize
  <2>1. /\ Head(ctl) \in 1 .. MaxSizes /\ Tail(ctl) \in Seq(1 .. MaxSizes)
        /\ Len(Tail(ctl)) = Len(ctl) - 1 /\ Len(ctl) \in Nat
    <3>1. ctl \in Seq(1 .. MaxSizes) /\ ctl # <<>>
      BY <1>12 DEF setSize
    <3>2. QED
      BY ONLY <3>1, TailType, Len(ctl) \in Nat
  <2>2. QED
    BY <1>12, <2>1, Sizes DEF setSize
<1>13. CASE WriteStep \/ endLoop \/ hangUp
  BY <1>13 DEF WriteStep, fillSocket, readOutput, writeFails, endLoop, hangUp
<1>14. QED
  BY <1>1, <1>2, <1>3, <1>4, <1>5, <1>6, <1>7, <1>8, <1>9, <1>10, <1>11, <1>12, <1>13
     DEF Next, SetUpStep, SendStep, InputStep, WatcherStep

LEMMA SetUpKept ==
  ASSUME Types, SetUp, Next
  PROVE  SetUp'
<1> USE DEF SetUp, Types, TypeOK, watchVars, daemonVars, clientVars, Outcomes
<1>1. CASE SetUpStep \/ SendStep \/ inputEnds \/ seeEnd
  BY <1>1 DEF SetUpStep, SendStep, spawn_watcher, handshake, sendOne, sendDone, sendFails,
     Send, inputEnds, seeEnd
<1>2. ASSUME NEW chunk \in Chunks, input(chunk) PROVE SetUp'
  BY <1>2 DEF input, Send
<1>3. CASE takeResize
  BY <1>3 DEF takeResize, Send
<1>4. CASE resize \/ WatcherStep
  BY <1>4 DEF WatcherStep, resize, seeSignal, tellSize
<1>5. CASE handle
  <2>1. sock # <<>> /\ UNCHANGED clientVars
    BY <1>5 DEF handle
  <2>2. QED
    BY <2>1
<1>6. CASE WriteStep \/ setSize \/ endLoop \/ hangUp
  BY <1>6 DEF WriteStep, fillSocket, readOutput, writeFails, setSize, endLoop, hangUp
<1>7. QED
  BY <1>1, <1>2, <1>3, <1>4, <1>5, <1>6 DEF Next, InputStep

-------------------------------------------------------------------------------
(* The messages on their way: sending one moves it, reading one takes it off *)
(* the front, and the client adds at the end.                                *)

LEMMA ShiftOne ==
  ASSUME NEW M, NEW s \in Seq(M), NEW t \in Seq(M), t # <<>>
  PROVE  Append(s, Head(t)) \o Tail(t) = s \o t
<1> DEFINE u == Append(s, Head(t))
           v == Tail(t)
<1>1. /\ Head(t) \in M /\ Head(t) = t[1] /\ v \in Seq(M) /\ Len(v) = Len(t) - 1
      /\ \A i \in 1 .. Len(t) - 1 : v[i] = t[i + 1]
  BY HeadTailProperties
<1>2. /\ u \in Seq(M) /\ Len(u) = Len(s) + 1 /\ u[Len(s) + 1] = t[1]
      /\ \A i \in 1 .. Len(s) : u[i] = s[i]
  BY <1>1, AppendProperties
<1> HIDE DEF u, v
<1>3. /\ u \o v \in Seq(M) /\ Len(u \o v) = Len(u) + Len(v)
      /\ \A i \in 1 .. Len(u) + Len(v) : (u \o v)[i] = IF i <= Len(u) THEN u[i] ELSE v[i - Len(u)]
  BY <1>1, <1>2, ConcatProperties
<1>4. /\ s \o t \in Seq(M) /\ Len(s \o t) = Len(s) + Len(t)
      /\ \A i \in 1 .. Len(s) + Len(t) : (s \o t)[i] = IF i <= Len(s) THEN s[i] ELSE t[i - Len(s)]
  BY ConcatProperties
<1>5. Len(s) \in Nat /\ Len(t) \in Nat /\ Len(u) + Len(v) = Len(s) + Len(t)
  BY <1>1, <1>2
<1>6. ASSUME NEW i \in 1 .. Len(s) + Len(t) PROVE (u \o v)[i] = (s \o t)[i]
  <2>1. CASE i <= Len(s)
    <3>1. i \in 1 .. Len(s) /\ i <= Len(u)
      BY <1>2, <1>5, <2>1
    <3>2. QED
      BY <1>2, <1>3, <1>4, <1>5, <2>1, <3>1
  <2>2. CASE i = Len(s) + 1
    <3>1. ~(i <= Len(s)) /\ i - Len(s) = 1 /\ i <= Len(u)
      BY <1>2, <1>5, <2>2
    <3>2. QED
      BY <1>2, <1>3, <1>4, <1>5, <2>2, <3>1
  <2>3. CASE i > Len(s) + 1
    <3>1. /\ ~(i <= Len(s)) /\ ~(i <= Len(u)) /\ i - Len(u) \in 1 .. Len(t) - 1
          /\ i - Len(u) + 1 = i - Len(s)
      BY <1>2, <1>5, <2>3
    <3>2. (u \o v)[i] = v[i - Len(u)] /\ (s \o t)[i] = t[i - Len(s)]
      BY <1>3, <1>4, <1>5, <3>1
    <3>3. v[i - Len(u)] = t[i - Len(u) + 1]
      BY <1>1, <3>1
    <3>4. QED
      BY ONLY <3>1, <3>2, <3>3
  <2>4. QED
    BY <1>5, <2>1, <2>2, <2>3, SMTT(30)
<1>7. u \o v = s \o t
  BY <1>3, <1>4, <1>5, <1>6, SeqEqual
<1>8. QED
  BY <1>7 DEF u, v

LEMMA FrontOfTwo ==
  ASSUME NEW M, NEW s \in Seq(M), NEW t \in Seq(M), s # <<>>
  PROVE  s \o t # <<>> /\ Head(s \o t) = Head(s) /\ Tail(s \o t) = Tail(s) \o t
<1> DEFINE u == s \o t
           v == Tail(s)
           w == Tail(u)
<1>1. /\ u \in Seq(M) /\ Len(u) = Len(s) + Len(t)
      /\ \A i \in 1 .. Len(s) + Len(t) : u[i] = IF i <= Len(s) THEN s[i] ELSE t[i - Len(s)]
  BY ConcatProperties
<1>2. Len(s) \in Nat /\ Len(t) \in Nat /\ Len(s) >= 1
  OBVIOUS
<1>3. u # <<>> /\ 1 \in 1 .. Len(s) + Len(t)
  BY <1>1, <1>2
<1>4. /\ v \in Seq(M) /\ Len(v) = Len(s) - 1 /\ \A i \in 1 .. Len(v) : v[i] = s[i + 1]
  BY HeadTailProperties
<1>5. Head(s) = s[1] /\ Head(u) = u[1] /\ u[1] = s[1]
  BY <1>1, <1>2, <1>3
<1> HIDE DEF u, v
<1>6. /\ w \in Seq(M) /\ Len(w) = Len(u) - 1 /\ \A i \in 1 .. Len(w) : w[i] = u[i + 1]
  BY <1>1, <1>3, HeadTailProperties
<1>7. /\ v \o t \in Seq(M) /\ Len(v \o t) = Len(v) + Len(t)
      /\ \A i \in 1 .. Len(v) + Len(t) : (v \o t)[i] = IF i <= Len(v) THEN v[i] ELSE t[i - Len(v)]
  BY <1>4, ConcatProperties
<1> HIDE DEF w
<1>8. Len(w) = Len(v) + Len(t)
  BY <1>1, <1>2, <1>4, <1>6
<1>9. ASSUME NEW i \in 1 .. Len(w) PROVE w[i] = (v \o t)[i]
  <2>1. i + 1 \in 1 .. Len(s) + Len(t) /\ w[i] = u[i + 1] /\ i \in 1 .. Len(v) + Len(t)
    BY <1>1, <1>2, <1>6, <1>8
  <2>2. CASE i <= Len(v)
    <3>1. i + 1 <= Len(s) /\ i \in 1 .. Len(v)
      BY <1>2, <1>4, <2>1, <2>2
    <3>2. QED
      BY <1>1, <1>4, <1>7, <2>1, <2>2, <3>1
  <2>3. CASE ~(i <= Len(v))
    <3>1. ~(i + 1 <= Len(s)) /\ i + 1 - Len(s) = i - Len(v)
      BY <1>2, <1>4, <2>1, <2>3
    <3>2. u[i + 1] = t[i + 1 - Len(s)] /\ (v \o t)[i] = t[i - Len(v)]
      BY ONLY <1>1, <1>7, <2>1, <2>3, <3>1, SMTT(30)
    <3>3. QED
      BY ONLY <2>1, <3>1, <3>2
  <2>4. QED
    BY <2>2, <2>3
<1>10. w = v \o t
  <2>1. Len(w) = Len(v \o t)
    BY <1>7, <1>8
  <2>2. QED
    BY <1>6, <1>7, <1>9, <2>1, SeqEqual
<1>11. QED
  BY <1>3, <1>5, <1>10 DEF u, v, w

LEMMA BackOfTwo ==
  ASSUME NEW M, NEW s \in Seq(M), NEW t \in Seq(M), NEW e \in M
  PROVE  s \o Append(t, e) = Append(s \o t, e) /\ s \o <<e>> = Append(s, e) /\ s \o <<>> = s
<1>1. <<e>> \in Seq(M) /\ <<>> \in Seq(M)
  OBVIOUS
<1>2. ASSUME NEW r \in Seq(M) PROVE Append(r, e) = r \o <<e>>
  BY AppendProperties
<1>3. s \o (t \o <<e>>) = (s \o t) \o <<e>> /\ s \o t \in Seq(M)
  BY <1>1, ConcatAssociative, ConcatProperties
<1>4. QED
  BY <1>1, <1>2, <1>3, ConcatEmptySeq

LEMMA TwoMessages ==
  ASSUME NEW M, NEW l \in M, NEW m \in M
  PROVE  Append(<<l>>, m) = <<l, m>>
<1>1. /\ <<l>> \in Seq(M) /\ Len(<<l>>) = 1 /\ <<l>>[1] = l
      /\ <<l, m>> \in Seq(M) /\ Len(<<l, m>>) = 2 /\ <<l, m>>[1] = l /\ <<l, m>>[2] = m
  OBVIOUS
<1> DEFINE s == <<l>>
           u == <<l, m>>
<1> HIDE DEF s, u
<1>2. /\ Append(s, m) \in Seq(M) /\ Len(Append(s, m)) = 2
      /\ Append(s, m)[1] = l /\ Append(s, m)[2] = m
  <2>1. s \in Seq(M) /\ Len(s) = 1 /\ s[1] = l
    BY <1>1 DEF s
  <2>2. /\ Append(s, m) \in Seq(M) /\ Len(Append(s, m)) = Len(s) + 1
        /\ Append(s, m)[Len(s) + 1] = m
        /\ \A i \in 1 .. Len(s) : Append(s, m)[i] = s[i]
    BY <2>1, AppendProperties, ZenonT(40)
  <2>3. QED
    BY <2>1, <2>2
<1>3. u \in Seq(M) /\ Len(u) = 2 /\ u[1] = l /\ u[2] = m
  BY <1>1 DEF u
<1>4. \A i \in 1 .. 2 : Append(s, m)[i] = u[i]
  BY <1>2, <1>3
<1>5. Append(s, m) = u
  BY <1>2, <1>3, <1>4, SeqEqual
<1>6. QED
  BY <1>5 DEF s, u

LEMMA WayType ==
  ASSUME Types
  PROVE  way \in Seq(Messages)
BY ConcatProperties DEF way, Types

LEMMA WaySame ==
  ASSUME Types, UNCHANGED <<sock, todo>> \/ sendOne
  PROVE  way' = way
<1>1. CASE sendOne
  <2>1. Append(sock, Head(todo)) \o Tail(todo) = sock \o todo
    BY <1>1, ShiftOne DEF sendOne, Types
  <2>2. QED
    BY <1>1, <2>1 DEF sendOne, way
<1>2. CASE UNCHANGED <<sock, todo>>
  BY <1>2 DEF way
<1>3. QED
  BY <1>1, <1>2

\* One message, or two, sent by a client that had nothing left to send.
LEMMA WayGrows ==
  ASSUME Types, todo = <<>>, UNCHANGED sock, NEW m \in Messages
  PROVE  /\ todo' = <<>> => way' = way
         /\ todo' = <<m>> => way' = Append(way, m)
         /\ \A l \in Messages : todo' = <<l, m>> => way' = Append(Append(way, l), m)
<1>1. sock \in Seq(Messages) /\ <<>> \in Seq(Messages)
  BY DEF Types
<1>2. way = sock
  BY <1>1, BackOfTwo DEF way
<1>3. todo' = <<>> => way' = way
  BY <1>2 DEF way
<1>4. todo' = <<m>> => way' = Append(way, m)
  BY <1>1, <1>2, BackOfTwo DEF way
<1>5. ASSUME NEW l \in Messages, todo' = <<l, m>> PROVE way' = Append(Append(way, l), m)
  <2>1. <<l>> \in Seq(Messages) /\ todo' = Append(<<l>>, m)
    BY <1>5
  <2>2. sock \o Append(<<l>>, m) = Append(sock \o <<l>>, m) /\ sock \o <<l>> = Append(sock, l)
    BY <1>1, <2>1, BackOfTwo
  <2>3. QED
    BY <1>2, <2>1, <2>2 DEF way
<1>6. QED
  BY <1>3, <1>4, <1>5

LEMMA WayRead ==
  ASSUME Types, handle
  PROVE  way # <<>> /\ Head(way) = Head(sock) /\ way' = Tail(way)
<1>1. sock \in Seq(Messages) /\ todo \in Seq(Messages) /\ sock # <<>>
  BY DEF Types, handle
<1>2. UNCHANGED todo /\ sock' = Tail(sock)
  BY DEF handle, clientVars
<1>3. QED
  BY <1>1, <1>2, FrontOfTwo DEF way

-------------------------------------------------------------------------------
(* The input is kept, and the first special character decides.               *)

LEMMA CutAppendOther ==
  ASSUME NEW S, NEW keys \in Seq(S), NEW done, NEW msgs \in Seq(Messages), NEW m \in Messages,
         m.type # "push", IsCutInto(keys, done, msgs)
  PROVE  IsCutInto(keys, done, Append(msgs, m))
<1>1. KeysIn(m) = <<>> /\ <<>> \in Seq(S)
  BY DEF KeysIn
<1>2. IsCutInto(keys \o KeysIn(m), done, Append(msgs, m))
  BY <1>1, CutAppend
<1>3. keys \o KeysIn(m) = keys
  BY <1>1, ConcatEmptySeq
<1>4. QED
  BY <1>2, <1>3

\* All keys: the chunk is added.
LEMMA KeysLonger ==
  ASSUME NEW s \in Seq(Byte), \A i \in 1 .. Len(s) : s[i].is = "key",
         NEW t \in Seq(Byte), \A i \in 1 .. Len(t) : t[i].is = "key"
  PROVE  /\ \A i \in 1 .. Len(s \o t) : (s \o t)[i].is = "key"
         /\ Keys(s \o t) = Keys(s) \o t
<1>1. /\ s \o t \in Seq(Byte) /\ Len(s \o t) = Len(s) + Len(t)
      /\ \A i \in 1 .. Len(s) + Len(t) : (s \o t)[i] = IF i <= Len(s) THEN s[i] ELSE t[i - Len(s)]
  BY ConcatProperties
<1>2. ASSUME NEW i \in 1 .. Len(s \o t) PROVE (s \o t)[i].is = "key"
  <2>1. CASE i <= Len(s)
    BY <1>1, <2>1
  <2>2. CASE ~(i <= Len(s))
    <3>1. i - Len(s) \in 1 .. Len(t)
      BY <1>1, <2>2
    <3>2. QED
      BY <1>1, <2>2, <3>1
  <2>3. QED
    BY <2>1, <2>2
<1>3. Keys(s \o t) = s \o t /\ Keys(s) = s
  BY <1>1, <1>2, KeysAll
<1>4. QED
  BY <1>2, <1>3

\* A special character: the keys before it are added.
LEMMA KeysCut ==
  ASSUME NEW s \in Seq(Byte), \A i \in 1 .. Len(s) : s[i].is = "key",
         NEW t \in Seq(Byte), NEW at \in 1 .. Len(t), t[at].is # "key",
         \A j \in 1 .. at - 1 : t[j].is = "key"
  PROVE  /\ Len(s) + at \in 1 .. Len(s \o t)
         /\ (s \o t)[Len(s) + at] = t[at]
         /\ \A j \in 1 .. Len(s) + at - 1 : (s \o t)[j].is = "key"
         /\ Keys(s \o t) = Keys(s) \o SubSeq(t, 1, at - 1)
<1> DEFINE n == Len(s)
           u == s \o t
           p == SubSeq(t, 1, at - 1)
           q == SubSeq(u, 1, n + at - 1)
<1>1. /\ u \in Seq(Byte) /\ Len(u) = n + Len(t) /\ n \in Nat /\ Len(t) \in Nat
      /\ \A i \in 1 .. n + Len(t) : u[i] = IF i <= n THEN s[i] ELSE t[i - n]
      /\ \A i \in 1 .. n + Len(t) : u[i] \in Byte
  BY ConcatProperties
<1> HIDE DEF u
<1>2. n + at \in 1 .. Len(u) /\ ~(n + at <= n) /\ n + at - n = at
  BY <1>1
<1>3. u[n + at] = t[at]
  BY <1>1, <1>2
<1>4. ASSUME NEW j \in 1 .. n + at - 1
      PROVE  u[j].is = "key" /\ u[j] = IF j <= n THEN s[j] ELSE t[j - n]
  <2>1. j \in 1 .. n + Len(t)
    BY <1>1
  <2>2. CASE j <= n
    BY <1>1, <2>1, <2>2
  <2>3. CASE ~(j <= n)
    <3>1. j - n \in 1 .. at - 1
      BY <1>1, <2>3
    <3>2. QED
      BY <1>1, <2>1, <2>3, <3>1
  <2>4. QED
    BY <2>2, <2>3
<1>5. Keys(u) = q /\ Keys(s) = s
  <2>1. \A j \in 1 .. n + at - 1 : u[j].is = "key"
    BY <1>4
  <2>2. u[n + at].is # "key"
    BY <1>3
  <2>3. Keys(u) = SubSeq(u, 1, n + at - 1)
    <3> DEFINE k == n + at
    <3>1. /\ u \in Seq(Byte) /\ k \in 1 .. Len(u) /\ u[k].is # "key"
          /\ \A j \in 1 .. k - 1 : u[j].is = "key"
      BY ONLY <1>1, <1>2, <2>1, <2>2
    <3> HIDE DEF k
    <3>2. Keys(u) = SubSeq(u, 1, k - 1)
      BY ONLY <3>1, KeysUpTo
    <3>3. QED
      BY ONLY <3>2 DEF k
  <2>4. QED
    BY <2>3, KeysAll
<1>6. /\ p \in Seq(Byte) /\ Len(p) = at - 1 /\ \A i \in 1 .. at - 1 : p[i] = t[i]
  <2>1. p \in Seq(Byte) /\ Len(p) = at - 1
    BY ChunkPart
  <2>2. ASSUME NEW i \in 1 .. at - 1 PROVE p[i] = t[i]
    <3>1. 1 \in Int /\ at - 1 \in Int /\ \A k \in 1 .. at - 1 : t[k] \in Byte
      OBVIOUS
    <3>2. \A k \in 1 .. at - 1 - 1 + 1 : p[k] = t[1 + k - 1]
      BY <3>1, SubSeqProperties
    <3>3. i \in 1 .. at - 1 - 1 + 1 /\ 1 + i - 1 = i
      OBVIOUS
    <3>4. QED
      BY <3>2, <3>3
  <2>3. QED
    BY <2>1, <2>2
<1>7. /\ q \in Seq(Byte) /\ Len(q) = n + at - 1 /\ \A i \in 1 .. n + at - 1 : q[i] = u[i]
  <2>1. q \in Seq(Byte) /\ Len(q) = n + at - 1
    BY <1>1, <1>2, ChunkPart
  <2>2. ASSUME NEW i \in 1 .. n + at - 1 PROVE q[i] = u[i]
    <3>1. 1 \in Int /\ n + at - 1 \in Int /\ \A k \in 1 .. n + at - 1 : u[k] \in Byte
      BY <1>1
    <3>2. \A k \in 1 .. n + at - 1 - 1 + 1 : q[k] = u[1 + k - 1]
      BY <3>1, SubSeqProperties
    <3>3. i \in 1 .. n + at - 1 - 1 + 1 /\ 1 + i - 1 = i
      BY <1>1
    <3>4. QED
      BY <3>2, <3>3
  <2>3. QED
    BY <2>1, <2>2
<1> HIDE DEF p, q
<1>8. /\ s \o p \in Seq(Byte) /\ Len(s \o p) = n + (at - 1)
      /\ \A i \in 1 .. n + (at - 1) : (s \o p)[i] = IF i <= n THEN s[i] ELSE p[i - n]
  <2>1. /\ s \o p \in Seq(Byte) /\ Len(s \o p) = Len(s) + Len(p)
        /\ \A i \in 1 .. Len(s) + Len(p) :
             (s \o p)[i] = IF i <= Len(s) THEN s[i] ELSE p[i - Len(s)]
    BY <1>6, ConcatProperties
  <2>2. QED
    BY ONLY <1>6, <2>1
<1>9. ASSUME NEW i \in 1 .. n + at - 1 PROVE q[i] = (s \o p)[i]
  <2>1. i \in 1 .. n + (at - 1)
    BY <1>1
  <2>2. CASE i <= n
    BY <1>4, <1>7, <1>8, <2>1, <2>2
  <2>3. CASE ~(i <= n)
    <3>1. i - n \in 1 .. at - 1
      BY <1>1, <2>3
    <3>2. QED
      BY <1>4, <1>6, <1>7, <1>8, <2>1, <2>3, <3>1
  <2>4. QED
    BY <2>2, <2>3
<1>10. q = s \o p
  <2>1. n + (at - 1) = n + at - 1
    BY <1>1
  <2>2. QED
    BY ONLY <1>7, <1>8, <1>9, <2>1, SeqEqual
<1>11. QED
  BY <1>2, <1>3, <1>4, <1>5, <1>10 DEF u, p

LEMMA KeysType ==
  ASSUME NEW s \in Seq(Byte)
  PROVE  Keys(s) \in Seq(Byte)
<1>1. \/ \A i \in 1 .. Len(s) : s[i].is = "key"
      \/ \E at \in 1 .. Len(s) : s[at].is # "key" /\ \A j \in 1 .. at - 1 : s[j].is = "key"
  BY FindSpecial
<1>2. QED
  BY <1>1, KeysAll, KeysUpTo, ChunkPart

\* Where the client is may change as long as it was before the first special
\* character and is so after the step, or gives up.
LEMMA DecidedKept ==
  ASSUME Decided(Verdict, typed), UNCHANGED typed,
         \/ UNCHANGED Verdict
         \/ Verdict' = "failed"
         \/ /\ Verdict \in {"start", "watching", "loop"}
            /\ Verdict' \in {"watching", "loop", "closed", "ended"}
  PROVE  Decided(Verdict, typed)'
BY DEF Decided

LEMMA QuietInput ==
  ASSUME InputKept, UNCHANGED <<typed, pushed>>, way' = way, Decided(Verdict, typed)'
  PROVE  InputKept'
BY DEF InputKept

LEMMA InputByInput ==
  ASSUME Types, SetUp, InputKept, NEW chunk \in Chunks, input(chunk)
  PROVE  InputKept'
<1>1. /\ client = "loop" /\ client' = "sending" /\ todo = <<>> /\ typed' = typed \o chunk
      /\ UNCHANGED <<sock, pushed>> /\ chunk \in Seq(Byte) /\ chunk # <<>>
  BY InputSends DEF daemonVars
<1>2. typed \in Seq(Byte) /\ \A i \in 1 .. Len(typed) : typed[i].is = "key"
  BY <1>1 DEF Types, TypeOK, InputKept, Decided, Verdict
<1>3. /\ way \in Seq(Messages) /\ IsCutInto(Keys(typed), pushed, way)
      /\ Keys(typed) \in Seq(Byte)
  BY <1>2, WayType, KeysType DEF InputKept
<1>4. CASE (\A i \in 1 .. Len(chunk) : chunk[i].is = "key")
           /\ todo' = <<Message("push", chunk)>> /\ outcome' = "loop"
  <2> DEFINE m == Message("push", chunk)
  <2>1. m \in Messages /\ KeysIn(m) = chunk
    BY <1>1, MessageTypes DEF Message, KeysIn
  <2>2. way' = Append(way, m)
    BY <1>1, <1>4, <2>1, WayGrows
  <2> HIDE DEF m
  <2>3. IsCutInto(Keys(typed) \o chunk, pushed, Append(way, m))
    BY <1>1, <1>3, <2>1, CutAppend
  <2>4. /\ \A i \in 1 .. Len(typed') : typed'[i].is = "key"
        /\ Keys(typed') = Keys(typed) \o chunk
    BY <1>1, <1>2, <1>4, KeysLonger
  <2>5. IsCutInto(Keys(typed), pushed, way)'
    BY <1>1, <2>2, <2>3, <2>4
  <2>6. Decided(Verdict, typed)'
    BY <1>1, <1>4, <2>4 DEF Decided, Verdict
  <2>7. QED
    BY <2>5, <2>6 DEF InputKept
<1>5. ASSUME NEW at \in 1 .. Len(chunk), NEW keys, keys = SubSeq(chunk, 1, at - 1),
             NEW Push, Push = IF keys = <<>> THEN <<>> ELSE <<Message("push", keys)>>,
             \A j \in 1 .. at - 1 : chunk[j].is = "key",
             keys \in Seq(Byte),
             \/ /\ chunk[at].is = "suspend" /\ outcome' = "suspended"
                /\ todo' = Append(Push, Message("detach", <<>>))
             \/ /\ chunk[at].is = "detach" /\ outcome' = "detached"
                /\ todo' = Push
      PROVE  InputKept'
  <2> DEFINE m == Message("push", keys)
             d == Message("detach", <<>>)
  <2>1. m \in Messages /\ KeysIn(m) = keys /\ d \in Messages /\ d.type # "push"
    BY <1>5, MessageTypes DEF Message, KeysIn
  <2>2. /\ Len(typed) + at \in 1 .. Len(typed') /\ typed'[Len(typed) + at] = chunk[at]
        /\ \A j \in 1 .. Len(typed) + at - 1 : typed'[j].is = "key"
        /\ Keys(typed') = Keys(typed) \o keys
    <3>1. chunk[at].is # "key"
      BY <1>5
    <3>2. /\ Len(typed) + at \in 1 .. Len(typed \o chunk)
          /\ (typed \o chunk)[Len(typed) + at] = chunk[at]
          /\ \A j \in 1 .. Len(typed) + at - 1 : (typed \o chunk)[j].is = "key"
          /\ Keys(typed \o chunk) = Keys(typed) \o SubSeq(chunk, 1, at - 1)
      BY ONLY <1>1, <1>2, <1>5, <3>1, KeysCut, ZenonT(40)
    <3>3. QED
      BY ONLY <1>1, <1>5, <3>2
  <2> HIDE DEF m, d
  <2>3. Decided(Verdict, typed)'
    <3>1. Verdict' = outcome' /\ outcome' \in {"suspended", "detached"}
      BY <1>1, <1>5 DEF Verdict
    <3>2. chunk[at].is = IF outcome' = "detached" THEN "detach" ELSE "suspend"
      BY <1>5
    <3>3. QED
      BY ONLY <2>2, <3>1, <3>2, SMTT(30) DEF Decided
  <2>4. CASE keys = <<>>
    <3>1. Push = <<>> /\ Append(Push, d) = <<d>>
      <4>1. Push = <<>>
        BY ONLY <1>5, <2>4, Zenon
      <4>2. QED
        BY ONLY <4>1
    <3>2. todo' = <<d>> \/ todo' = <<>>
      BY <1>5, <3>1 DEF d
    <3>3. way' = Append(way, d) \/ way' = way
      BY <1>1, <2>1, <3>2, WayGrows
    <3>4. IsCutInto(Keys(typed), pushed, Append(way, d))
      BY <1>3, <2>1, CutAppendOther
    <3>5. Keys(typed') = Keys(typed)
      BY <1>3, <2>2, <2>4, ConcatEmptySeq
    <3>6. IsCutInto(Keys(typed), pushed, way)'
      BY <1>1, <1>3, <3>3, <3>4, <3>5
    <3>7. QED
      BY <2>3, <3>6 DEF InputKept
  <2>5. CASE keys # <<>>
    <3>1. Push = <<m>> /\ Append(Push, d) = <<m, d>>
      <4>1. Push = <<m>>
        BY ONLY <1>5, <2>5, Zenon DEF m
      <4>2. Append(<<m>>, d) = <<m, d>>
        BY ONLY <2>1, TwoMessages
      <4>3. QED
        BY ONLY <4>1, <4>2
    <3>2. todo' = <<m, d>> \/ todo' = <<m>>
      BY <1>5, <3>1 DEF d
    <3>3. way' = Append(Append(way, m), d) \/ way' = Append(way, m)
      BY <1>1, <2>1, <3>2, WayGrows
    <3>4. IsCutInto(Keys(typed) \o keys, pushed, Append(way, m))
      BY <1>3, <1>5, <2>1, CutAppend
    <3>5. IsCutInto(Keys(typed) \o keys, pushed, Append(Append(way, m), d))
      <4>1. Append(way, m) \in Seq(Messages) /\ Keys(typed) \o keys \in Seq(Byte)
        BY <1>3, <1>5, <2>1, AppendType, ConcatProperties
      <4>2. QED
        BY <2>1, <3>4, <4>1, CutAppendOther
    <3>6. IsCutInto(Keys(typed), pushed, way)'
      BY <1>1, <2>2, <3>3, <3>4, <3>5
    <3>7. QED
      BY <2>3, <3>6 DEF InputKept
  <2>6. QED
    BY <2>4, <2>5
<1>6. QED
  BY <1>4, <1>5, InputSends

LEMMA InputKeptByStep ==
  ASSUME Types, SetUp, InputKept, Next
  PROVE  InputKept'
<1> USE DEF watchVars, daemonVars, clientVars
<1>1. /\ way \in Seq(Messages) /\ IsCutInto(Keys(typed), pushed, way) /\ Keys(typed) \in Seq(Byte)
      /\ Decided(Verdict, typed)
  BY WayType, KeysType DEF InputKept, Types, TypeOK
<1>2. CASE spawn_watcher \/ SendStep \/ inputEnds \/ seeEnd
  <2>1. UNCHANGED <<typed, pushed>> /\ (UNCHANGED <<sock, todo>> \/ sendOne)
    BY <1>2 DEF spawn_watcher, SendStep, sendOne, sendDone, sendFails, inputEnds, seeEnd
  <2>2. Decided(Verdict, typed)'
    <3>1. \/ UNCHANGED Verdict
          \/ Verdict' = "failed"
          \/ /\ Verdict \in {"start", "watching", "loop"}
             /\ Verdict' \in {"watching", "loop", "closed", "ended"}
      BY <1>2 DEF spawn_watcher, SendStep, sendOne, sendDone, sendFails, inputEnds, seeEnd,
         Verdict, Types, TypeOK, Outcomes
    <3>2. QED
      BY <1>1, <2>1, <3>1, DecidedKept
  <2>3. QED
    BY <2>1, <2>2, WaySame, QuietInput
<1>3. CASE handshake
  <2> DEFINE l == Message("attach", <<>>)
             m == Message("redraw", size)
  <2>1. l \in Messages /\ m \in Messages /\ l.type # "push" /\ m.type # "push"
    BY MessageTypes DEF Message, Types, TypeOK
  <2>2. todo = <<>> /\ todo' = <<l, m>> /\ UNCHANGED <<sock, typed, pushed>>
    BY <1>3 DEF handshake, Send, SetUp
  <2> HIDE DEF l, m
  <2>3. way' = Append(Append(way, l), m)
    BY <2>1, <2>2, WayGrows
  <2>4. IsCutInto(Keys(typed), pushed, Append(way, l)) /\ Append(way, l) \in Seq(Messages)
    BY <1>1, <2>1, CutAppendOther, AppendType
  <2>5. IsCutInto(Keys(typed), pushed, Append(Append(way, l), m))
    BY <1>1, <2>1, <2>4, CutAppendOther
  <2>6. Decided(Verdict, typed)'
    <3>1. Verdict = "watching" /\ Verdict' = "loop"
      BY <1>3 DEF handshake, Send, Verdict
    <3>2. QED
      BY <1>1, <2>2, <3>1, DecidedKept
  <2>7. QED
    BY <2>2, <2>3, <2>5, <2>6 DEF InputKept
<1>4. ASSUME NEW chunk \in Chunks, input(chunk) PROVE InputKept'
  BY <1>4, InputByInput
<1>5. CASE takeResize
  <2> DEFINE m == Message("winch", Head(resizes))
  <2>1. m \in Messages /\ m.type # "push"
    <3>1. resizes \in Seq(1 .. MaxSizes) /\ resizes # <<>>
      BY <1>5 DEF takeResize, Types, TypeOK
    <3>2. Head(resizes) \in 1 .. MaxSizes
      BY ONLY <3>1, TailType
    <3>3. QED
      BY <3>2, MessageTypes DEF Message
  <2>2. todo = <<>> /\ todo' = <<m>> /\ UNCHANGED <<sock, typed, pushed>>
    BY <1>5 DEF takeResize, Send, SetUp
  <2> HIDE DEF m
  <2>3. way' = Append(way, m)
    BY <2>1, <2>2, WayGrows
  <2>4. IsCutInto(Keys(typed), pushed, Append(way, m))
    BY <1>1, <2>1, CutAppendOther
  <2>5. Decided(Verdict, typed)'
    <3>1. Verdict = "loop" /\ Verdict' = "loop"
      BY <1>5 DEF takeResize, Send, Verdict
    <3>2. QED
      BY <1>1, <2>2, <3>1, DecidedKept
  <2>6. QED
    BY <2>2, <2>3, <2>4, <2>5 DEF InputKept
<1>6. CASE resize \/ WatcherStep \/ WriteStep \/ setSize \/ endLoop \/ hangUp
  <2>1. UNCHANGED <<typed, pushed, sock, todo, client, outcome>>
    BY <1>6 DEF resize, WatcherStep, seeSignal, tellSize, WriteStep, fillSocket, readOutput,
       writeFails, setSize, endLoop, hangUp
  <2>2. UNCHANGED Verdict
    BY <2>1 DEF Verdict
  <2>3. QED
    BY <1>1, <2>1, <2>2, DecidedKept, WaySame, QuietInput
<1>7. CASE handle
  <2>1. way # <<>> /\ Head(way) = Head(sock) /\ way' = Tail(way)
    BY <1>7, WayRead
  <2>2. pushed' = pushed \o KeysIn(Head(way))
    <3>1. CASE Head(sock).type = "push"
      BY <1>7, <2>1, <3>1 DEF handle, KeysIn
    <3>2. CASE Head(sock).type # "push"
      <4>1. pushed' = pushed /\ KeysIn(Head(way)) = <<>>
        BY <1>7, <2>1, <3>2 DEF handle, KeysIn
      <4>2. QED
        BY <4>1, ConcatEmptySeq DEF Types, TypeOK
    <3>3. QED
      BY <3>1, <3>2
  <2>3. IsCutInto(Keys(typed), pushed \o KeysIn(Head(way)), Tail(way))
    BY <1>1, <2>1, CutTail
  <2>4. UNCHANGED typed /\ UNCHANGED Verdict
    BY <1>7 DEF handle, Verdict
  <2>5. QED
    BY <1>1, <2>1, <2>2, <2>3, <2>4, DecidedKept DEF InputKept
<1>8. QED
  BY <1>2, <1>3, <1>4, <1>5, <1>6, <1>7 DEF Next, SetUpStep, InputStep

-------------------------------------------------------------------------------
(* A suspended client's last message is its detach.                           *)

LEMMA LastIsDetachKept ==
  ASSUME Types, SetUp, LastIsDetach, Next
  PROVE  LastIsDetach'
<1> USE DEF watchVars, daemonVars, clientVars
<1>1. ASSUME way' = way, UNCHANGED attached, Verdict' = "suspended" => Verdict = "suspended"
      PROVE  LastIsDetach'
  BY <1>1 DEF LastIsDetach
<1>2. CASE spawn_watcher \/ SendStep \/ inputEnds \/ seeEnd
  <2>1. UNCHANGED attached /\ (UNCHANGED <<sock, todo>> \/ sendOne)
    BY <1>2 DEF spawn_watcher, SendStep, sendOne, sendDone, sendFails, inputEnds, seeEnd
  <2>2. Verdict' = "suspended" => Verdict = "suspended"
    BY <1>2 DEF spawn_watcher, SendStep, sendOne, sendDone, sendFails, inputEnds, seeEnd,
       Verdict, Types, TypeOK, Outcomes
  <2>3. QED
    BY <1>1, <2>1, <2>2, WaySame
<1>3. CASE handshake \/ takeResize
  BY <1>3 DEF handshake, takeResize, Send, LastIsDetach, Verdict
<1>4. ASSUME NEW chunk \in Chunks, input(chunk) PROVE LastIsDetach'
  <2>1. UNCHANGED sock
    BY <1>4, InputSends
  <2>2. SUFFICES ASSUME Verdict' = "suspended"
                 PROVE  way' # <<>> /\ way'[Len(way')].type = "detach"
    BY DEF LastIsDetach
  <2>3. client' = "sending" /\ outcome' = "suspended"
    <3>1. client' = "sending"
      BY <1>4, InputSends
    <3>2. QED
      BY <2>2, <3>1 DEF Verdict
  <2> DEFINE d == Message("detach", <<>>)
  <2>4. \E Push \in Seq(Messages) : todo' = Append(Push, d)
    <3>1. PICK keys \in Seq(Byte) :
            todo' = Append(IF keys = <<>> THEN <<>> ELSE <<Message("push", keys)>>, d)
      BY <1>4, <2>3, InputSends
    <3>2. (IF keys = <<>> THEN <<>> ELSE <<Message("push", keys)>>) \in Seq(Messages)
      <4>1. Message("push", keys) \in Messages
        BY MessageTypes
      <4>2. QED
        BY <4>1
    <3>3. QED
      BY <3>1, <3>2
  <2>5. PICK Push \in Seq(Messages) : todo' = Append(Push, d)
    BY <2>4
  <2>6. d \in Messages /\ d.type = "detach"
    BY MessageTypes DEF Message
  <2> HIDE DEF d
  <2>7. sock \in Seq(Messages) /\ sock \o Push \in Seq(Messages)
    BY <2>5, ConcatProperties DEF Types
  <2>8. way' = Append(sock \o Push, d)
    BY <2>1, <2>5, <2>6, <2>7, BackOfTwo DEF way
  <2>9. /\ Append(sock \o Push, d) # <<>>
        /\ Append(sock \o Push, d)[Len(Append(sock \o Push, d))] = d
    BY <2>6, <2>7, AppendProperties
  <2>10. QED
    BY <2>6, <2>8, <2>9
<1>5. CASE resize \/ WatcherStep \/ WriteStep \/ setSize \/ endLoop \/ hangUp
  <2>1. UNCHANGED <<sock, todo, client, outcome>> /\ (UNCHANGED attached \/ ~attached')
    BY <1>5 DEF resize, WatcherStep, seeSignal, tellSize, WriteStep, fillSocket, readOutput,
       writeFails, setSize, endLoop, hangUp
  <2>2. UNCHANGED Verdict
    BY <2>1 DEF Verdict
  <2>3. way' = way
    BY <2>1, WaySame
  <2>4. QED
    BY <2>1, <2>2, <2>3 DEF LastIsDetach
<1>6. CASE handle
  <2>1. way # <<>> /\ Head(way) = Head(sock) /\ way' = Tail(way) /\ way \in Seq(Messages)
    BY <1>6, WayRead, WayType
  <2>2. UNCHANGED Verdict
    BY <1>6 DEF handle, Verdict
  <2>3. SUFFICES ASSUME Verdict = "suspended"
                 PROVE  IF way' = <<>> THEN ~attached' ELSE way'[Len(way')].type = "detach"
    BY <2>2 DEF LastIsDetach
  <2>4. way[Len(way)].type = "detach"
    BY <2>1, <2>3 DEF LastIsDetach
  <2>5. /\ Len(Tail(way)) = Len(way) - 1 /\ Len(way) \in Nat /\ Head(way) = way[1]
        /\ Tail(way) \in Seq(Messages)
        /\ \A i \in 1 .. Len(Tail(way)) : Tail(way)[i] = way[i + 1]
    BY <2>1, HeadTailProperties
  <2> DEFINE n == Len(way)
             w == Tail(way)
  <2> HIDE DEF n, w
  <2>6. CASE w = <<>>
    <3>1. n = 1
      <4>1. Len(w) = 0
        BY <2>6
      <4>2. Len(w) = n - 1 /\ n \in Nat
        BY <2>5 DEF n, w
      <4>3. QED
        BY ONLY <4>1, <4>2
    <3>2. Head(sock).type = "detach"
      BY <2>1, <2>4, <2>5, <3>1 DEF n
    <3>3. attached' = FALSE
      BY <1>6, <3>2 DEF handle
    <3>4. QED
      BY <2>1, <2>6, <3>3 DEF w
  <2>7. CASE w # <<>>
    <3>1. Len(w) \in Nat /\ Len(w) # 0 /\ Len(w) = n - 1 /\ n \in Nat
          /\ \A i \in 1 .. Len(w) : w[i] = way[i + 1]
      BY <2>5, <2>7 DEF w, n
    <3>2. Len(w) \in 1 .. Len(w) /\ Len(w) + 1 = n
      BY <3>1
    <3>3. w[Len(w)] = way[n]
      BY <3>1, <3>2
    <3>4. QED
      BY <2>1, <2>4, <2>7, <3>3 DEF w, n
  <2>8. QED
    BY <2>6, <2>7
<1>7. QED
  BY <1>2, <1>3, <1>4, <1>5, <1>6 DEF Next, SetUpStep, InputStep

-------------------------------------------------------------------------------
(* Sizes on their way from the terminal to the pty.                          *)

LEMMA RisingTail ==
  ASSUME NEW N \in Nat, NEW s \in Seq(1 .. N), s # <<>>, NEW lo \in Nat, NEW hi \in Nat,
         Rising(s, lo, hi)
  PROVE  /\ Head(s) \in 1 .. N /\ lo <= Head(s) /\ Head(s) <= hi
         /\ Rising(Tail(s), Head(s), hi)
<1>1. /\ Tail(s) \in Seq(1 .. N) /\ Len(Tail(s)) = Len(s) - 1 /\ Len(s) \in Nat
      /\ Head(s) \in 1 .. N /\ Head(s) = s[1] /\ 1 \in 1 .. Len(s)
      /\ \A i \in 1 .. Len(Tail(s)) : Tail(s)[i] = s[i + 1]
  BY HeadTailProperties
<1> DEFINE t == Tail(s)
<1> HIDE DEF t
<1>2. \A i \in 1 .. Len(t) : i + 1 \in 1 .. Len(s) /\ t[i] = s[i + 1]
  BY <1>1 DEF t
<1>3. lo <= s[1] /\ s[1] <= hi /\ \A j \in 1 .. Len(s) : s[1] <= s[j]
  BY <1>1 DEF Rising
<1>4. ASSUME NEW i \in 1 .. Len(t)
      PROVE  s[1] <= t[i] /\ t[i] <= hi /\ \A j \in i .. Len(t) : t[i] <= t[j]
  <2>1. s[1] <= s[i + 1] /\ s[i + 1] <= hi
    BY <1>2, <1>3 DEF Rising
  <2>2. ASSUME NEW j \in i .. Len(t) PROVE t[i] <= t[j]
    <3>1. j \in 1 .. Len(t) /\ j + 1 \in i + 1 .. Len(s) /\ i + 1 \in 1 .. Len(s)
      BY <1>1, <1>2 DEF t
    <3>2. s[i + 1] <= s[j + 1]
      BY <3>1 DEF Rising
    <3>3. QED
      BY <1>2, <3>1, <3>2
  <2>3. QED
    BY <1>2, <2>1, <2>2
<1>5. Rising(t, s[1], hi)
  BY <1>4 DEF Rising
<1>6. QED
  BY <1>1, <1>3, <1>5 DEF t

LEMMA RisingAppend ==
  ASSUME NEW N \in Nat, NEW s \in Seq(1 .. N), NEW lo \in Nat, NEW hi \in Nat,
         Rising(s, lo, hi), NEW e \in 1 .. N, lo <= hi, hi <= e
  PROVE  Rising(Append(s, e), lo, e)
<1> DEFINE t == Append(s, e)
<1>1. /\ Len(t) = Len(s) + 1 /\ t[Len(s) + 1] = e /\ Len(s) \in Nat
      /\ \A i \in 1 .. Len(s) : t[i] = s[i] /\ s[i] \in 1 .. N
  BY AppendProperties
<1> HIDE DEF t
<1>2. ASSUME NEW i \in 1 .. Len(t)
      PROVE  lo <= t[i] /\ t[i] <= e /\ \A j \in i .. Len(t) : t[i] <= t[j]
  <2>1. CASE i \in 1 .. Len(s)
    <3>1. lo <= s[i] /\ s[i] <= hi /\ \A j \in i .. Len(s) : s[i] <= s[j]
      BY <2>1 DEF Rising
    <3>2. ASSUME NEW j \in i .. Len(t) PROVE t[i] <= t[j]
      <4>1. (j \in 1 .. Len(s) /\ j \in i .. Len(s)) \/ j = Len(s) + 1
        <5>1. Len(t) = Len(s) + 1 /\ Len(s) \in Nat
          BY <1>1
        <5>2. QED
          BY ONLY <2>1, <5>1, j \in i .. Len(t)
      <4>2. QED
        BY <1>1, <2>1, <3>1, <4>1
    <3>3. QED
      BY <1>1, <2>1, <3>1, <3>2
  <2>2. CASE i = Len(s) + 1
    <3>1. \A j \in i .. Len(t) : j = i
      BY <1>1, <2>2
    <3>2. QED
      BY <1>1, <2>2, <3>1
  <2>3. QED
    BY <1>1, <2>1, <2>2
<1>3. Rising(t, lo, e)
  BY <1>2 DEF Rising
<1>4. QED
  BY <1>3 DEF t

LEMMA SizesTail ==
  ASSUME NEW msgs \in Seq(Messages), msgs # <<>>, NEW lo \in Nat, NEW hi \in Nat,
         SizesRise(msgs, lo, hi)
  PROVE  LET m == Head(msgs)
         IN  IF IsSize(m)
             THEN /\ m.content \in 1 .. MaxSizes /\ lo <= m.content /\ m.content <= hi
                  /\ SizesRise(Tail(msgs), m.content, hi)
             ELSE SizesRise(Tail(msgs), lo, hi)
<1> DEFINE m == Head(msgs)
           t == Tail(msgs)
<1>1. /\ t \in Seq(Messages) /\ Len(t) = Len(msgs) - 1 /\ Len(msgs) \in Nat
      /\ m \in Messages /\ m = msgs[1] /\ 1 \in 1 .. Len(msgs)
      /\ \A i \in 1 .. Len(t) : t[i] = msgs[i + 1]
  BY HeadTailProperties
<1> HIDE DEF m, t
<1>2. \A i \in 1 .. Len(t) : i + 1 \in 1 .. Len(msgs) /\ t[i] = msgs[i + 1]
  BY <1>1
<1>3. ASSUME NEW i \in 1 .. Len(t), IsSize(t[i])
      PROVE  /\ lo <= t[i].content /\ t[i].content <= hi
             /\ \A j \in i .. Len(t) : IsSize(t[j]) => t[i].content <= t[j].content
             /\ IsSize(m) => m.content <= t[i].content
  <2>1. i + 1 \in 1 .. Len(msgs) /\ t[i] = msgs[i + 1] /\ IsSize(msgs[i + 1])
    BY <1>2, <1>3
  <2>2. /\ lo <= msgs[i + 1].content /\ msgs[i + 1].content <= hi
        /\ \A j \in i + 1 .. Len(msgs) :
             IsSize(msgs[j]) => msgs[i + 1].content <= msgs[j].content
    BY <2>1 DEF SizesRise
  <2>3. ASSUME NEW j \in i .. Len(t), IsSize(t[j]) PROVE t[i].content <= t[j].content
    <3>1. j \in 1 .. Len(t) /\ j + 1 \in i + 1 .. Len(msgs)
      BY <1>1
    <3>2. t[j] = msgs[j + 1]
      BY <1>2, <3>1
    <3>3. QED
      BY <2>1, <2>2, <2>3, <3>1, <3>2
  <2>4. IsSize(m) => m.content <= t[i].content
    BY <1>1, <2>1 DEF SizesRise
  <2>5. QED
    BY <2>1, <2>2, <2>3, <2>4
<1>4. CASE IsSize(m)
  <2>1. lo <= m.content /\ m.content <= hi
    BY <1>1, <1>4 DEF SizesRise
  <2>2. m.content \in 1 .. MaxSizes
    BY <1>1, <1>4, MessageContent
  <2>3. SizesRise(t, m.content, hi)
    BY <1>3, <1>4 DEF SizesRise
  <2>4. QED
    BY <1>4, <2>1, <2>2, <2>3 DEF m, t
<1>5. CASE ~IsSize(m)
  <2>1. SizesRise(t, lo, hi)
    BY <1>3 DEF SizesRise
  <2>2. QED
    BY <1>5, <2>1 DEF m, t
<1>6. QED
  BY <1>4, <1>5

LEMMA SizesAppend ==
  ASSUME NEW msgs \in Seq(Messages), NEW lo \in Nat, NEW hi \in Nat, lo <= hi,
         SizesRise(msgs, lo, hi), NEW m \in Messages, IsSize(m) => hi <= m.content
  PROVE  SizesRise(Append(msgs, m), lo, IF IsSize(m) THEN m.content ELSE hi)
<1> DEFINE t   == Append(msgs, m)
           top == IF IsSize(m) THEN m.content ELSE hi
<1>1. /\ Len(t) = Len(msgs) + 1 /\ t[Len(msgs) + 1] = m /\ Len(msgs) \in Nat
      /\ \A i \in 1 .. Len(msgs) : t[i] = msgs[i]
  BY AppendProperties
<1> HIDE DEF t
<1>2. \A i \in 1 .. Len(msgs) : IsSize(msgs[i]) => msgs[i].content \in Nat
  <2>1. ASSUME NEW i \in 1 .. Len(msgs), IsSize(msgs[i]) PROVE msgs[i].content \in Nat
    <3>1. msgs[i] \in Messages
      OBVIOUS
    <3>2. msgs[i].content \in 1 .. MaxSizes
      BY <2>1, <3>1, MessageContent
    <3>3. QED
      BY <3>2, Sizes
  <2>2. QED
    BY <2>1
<1>3. top \in Nat /\ hi <= top
  BY MessageContent, Sizes
<1>4. IsSize(m) => m.content = top
  OBVIOUS
<1> HIDE DEF top
<1>5. ASSUME NEW i \in 1 .. Len(t), IsSize(t[i])
      PROVE  /\ lo <= t[i].content /\ t[i].content <= top
             /\ \A j \in i .. Len(t) : IsSize(t[j]) => t[i].content <= t[j].content
  <2>1. CASE i \in 1 .. Len(msgs)
    <3>1. /\ lo <= msgs[i].content /\ msgs[i].content <= hi
          /\ \A j \in i .. Len(msgs) : IsSize(msgs[j]) => msgs[i].content <= msgs[j].content
      BY <1>1, <1>5, <2>1 DEF SizesRise
    <3>2. t[i].content = msgs[i].content /\ msgs[i].content \in Nat /\ msgs[i].content <= top
      BY <1>1, <1>2, <1>3, <1>5, <2>1, <3>1
    <3>3. ASSUME NEW j \in i .. Len(t), IsSize(t[j]) PROVE t[i].content <= t[j].content
      <4>1. (j \in 1 .. Len(msgs) /\ j \in i .. Len(msgs)) \/ j = Len(msgs) + 1
        BY <1>1, <2>1
      <4>2. CASE j \in 1 .. Len(msgs) /\ j \in i .. Len(msgs)
        BY <1>1, <3>1, <3>2, <3>3, <4>2
      <4>3. CASE j = Len(msgs) + 1
        BY <1>1, <1>4, <3>2, <3>3, <4>3
      <4>4. QED
        BY <4>1, <4>2, <4>3
    <3>4. QED
      BY <3>1, <3>2, <3>3
  <2>2. CASE i = Len(msgs) + 1
    <3>1. t[i] = m /\ IsSize(m) /\ t[i].content = top
      BY <1>1, <1>4, <1>5, <2>2
    <3>2. \A j \in i .. Len(t) : j = i
      BY <1>1, <2>2
    <3>3. QED
      BY <1>3, <3>1, <3>2
  <2>3. QED
    BY <1>1, <2>1, <2>2
<1>6. SizesRise(t, lo, top)
  BY <1>5 DEF SizesRise
<1>7. QED
  BY <1>6 DEF t, top

\* The bounds that SizesFlow asserts to exist.
FlowBy(a, b, c) ==
  /\ ptySize <= a /\ a <= b /\ b <= c /\ c <= size
  /\ Rising(ctl, ptySize, a)
  /\ SizesRise(way, a, b)
  /\ Rising(resizes, b, c)
  /\ held # 0 => c <= held /\ held <= size

LEMMA EmptyRises ==
  ASSUME NEW lo, NEW hi
  PROVE  Rising(<<>>, lo, hi) /\ SizesRise(<<>>, lo, hi)
BY DEF Rising, SizesRise

LEMMA SizesFlowKept ==
  ASSUME Types, SetUp, SizesFlow, Next
  PROVE  SizesFlow'
<1> USE Sizes DEF watchVars, daemonVars, clientVars
<1>1. PICK a \in 0 .. MaxSizes, b \in 0 .. MaxSizes, c \in 0 .. MaxSizes : FlowBy(a, b, c)
  BY DEF SizesFlow, FlowBy
<1>2. /\ size \in 1 .. MaxSizes /\ held \in 0 .. MaxSizes /\ ptySize \in 0 .. MaxSizes
      /\ resizes \in Seq(1 .. MaxSizes) /\ ctl \in Seq(1 .. MaxSizes)
      /\ way \in Seq(Messages) /\ a \in Nat /\ b \in Nat /\ c \in Nat
      /\ ptySize \in Nat /\ size \in Nat
  BY WayType DEF Types, TypeOK
<1>3. ASSUME way' = way, UNCHANGED <<ptySize, ctl, resizes, held, size>> PROVE SizesFlow'
  <2>1. FlowBy(a, b, c)'
    BY <1>1, <1>3 DEF FlowBy
  <2>2. QED
    BY <2>1 DEF SizesFlow, FlowBy
<1>4. ASSUME NEW e \in 0 .. MaxSizes, NEW f \in 0 .. MaxSizes, NEW g \in 0 .. MaxSizes,
             FlowBy(e, f, g)'
      PROVE  SizesFlow'
  BY <1>4 DEF SizesFlow, FlowBy
<1>5. CASE spawn_watcher \/ SendStep \/ inputEnds \/ seeEnd
  <2>1. /\ UNCHANGED <<ptySize, ctl, resizes, held, size>>
        /\ UNCHANGED <<sock, todo>> \/ sendOne
    BY <1>5 DEF spawn_watcher, SendStep, sendOne, sendDone, sendFails, inputEnds, seeEnd
  <2>2. QED
    BY <1>3, <2>1, WaySame
<1>6. CASE handshake
  <2> DEFINE l == Message("attach", <<>>)
             m == Message("redraw", size)
  <2>1. /\ todo = <<>> /\ sock = <<>> /\ ctl = <<>> /\ resizes = <<>> /\ held = 0 /\ ptySize = 0
        /\ todo' = <<l, m>> /\ UNCHANGED <<sock, ctl, resizes, held, ptySize, size>>
    BY <1>6 DEF handshake, Send, SetUp
  <2>2. l \in Messages /\ m \in Messages /\ ~IsSize(l) /\ IsSize(m) /\ m.content = size
    BY <1>2, MessageTypes DEF Message, IsSize
  <2> HIDE DEF l, m
  <2>3. way = <<>>
    BY <1>2, <2>1, BackOfTwo DEF way, Types
  <2>4. way' = Append(Append(way, l), m)
    BY <2>1, <2>2, WayGrows
  <2>5. SizesRise(Append(way, l), 0, 0) /\ Append(way, l) \in Seq(Messages)
    <3>1. SizesRise(way, 0, 0)
      BY <2>3, EmptyRises
    <3>2. QED
      BY <1>2, <2>2, <3>1, SizesAppend, AppendType
  <2>6. SizesRise(way', 0, size)
    <3>1. SizesRise(Append(Append(way, l), m), 0, IF IsSize(m) THEN m.content ELSE 0)
      <4>1. IsSize(m) => 0 <= m.content
        BY <1>2, <2>2
      <4>2. 0 \in Nat /\ 0 <= 0
        OBVIOUS
      <4>3. QED
        BY ONLY <2>2, <2>5, <4>1, <4>2, SizesAppend
    <3>2. QED
      BY <2>2, <2>4, <3>1
  <2>7. /\ ptySize' <= 0 /\ 0 <= size /\ size <= size /\ size <= size'
        /\ Rising(ctl', ptySize', 0) /\ SizesRise(way', 0, size) /\ Rising(resizes', size, size)
        /\ held' = 0
    BY <1>2, <2>1, <2>6, EmptyRises
  <2>8. 0 \in 0 .. MaxSizes /\ size \in 0 .. MaxSizes
    BY <1>2, <2>1
  <2>9. QED
    BY <2>7, <2>8 DEF SizesFlow
<1>7. ASSUME NEW chunk \in Chunks, input(chunk) PROVE SizesFlow'
  <2>1. /\ UNCHANGED <<ptySize, ctl, resizes, held, size, sock>> /\ todo = <<>>
        /\ chunk \in Seq(Byte)
    BY <1>7, InputSends
  <2>2. \A keys \in Seq(Byte) : /\ Message("push", keys) \in Messages
                                /\ ~IsSize(Message("push", keys))
    BY MessageTypes DEF Message, IsSize
  <2>3. Message("detach", <<>>) \in Messages /\ ~IsSize(Message("detach", <<>>))
    BY MessageTypes DEF Message, IsSize
  <2>4. ASSUME NEW m \in Messages, ~IsSize(m), NEW w \in Seq(Messages), SizesRise(w, a, b)
        PROVE  SizesRise(Append(w, m), a, b) /\ Append(w, m) \in Seq(Messages)
    <3>1. a <= b
      BY <1>1 DEF FlowBy
    <3>2. QED
      BY <1>2, <2>4, <3>1, SizesAppend, AppendType
  <2>5. SizesRise(way, a, b)
    BY <1>1 DEF FlowBy
  <2>6. SizesRise(way', a, b)
    <3>1. PICK keys \in Seq(Byte) :
            \/ todo' = <<Message("push", keys)>>
            \/ LET Push == IF keys = <<>> THEN <<>> ELSE <<Message("push", keys)>>
               IN  todo' = Push \/ todo' = Append(Push, Message("detach", <<>>))
      BY <1>7, InputSends
    <3> DEFINE m == Message("push", keys)
               d == Message("detach", <<>>)
    <3>2. m \in Messages /\ ~IsSize(m) /\ d \in Messages /\ ~IsSize(d)
      BY <2>2, <2>3
    <3>3. todo' \in {<<>>, <<m>>, <<d>>, <<m, d>>}
      <4>1. CASE todo' = <<m>>
        BY <4>1
      <4>2. CASE keys = <<>> /\ (todo' = <<>> \/ todo' = Append(<<>>, d))
        BY <4>2
      <4>3. CASE todo' = Append(<<m>>, d)
        <5>1. Append(<<m>>, d) = <<m, d>>
          BY ONLY <3>2, TwoMessages
        <5>2. QED
          BY ONLY <4>3, <5>1
      <4>4. QED
        BY <3>1, <4>1, <4>2, <4>3
    <3> HIDE DEF m, d
    <3>4. way' \in {way, Append(way, m), Append(way, d), Append(Append(way, m), d)}
      BY <2>1, <3>2, <3>3, WayGrows
    <3>5. SizesRise(Append(way, m), a, b) /\ Append(way, m) \in Seq(Messages)
      BY <1>2, <2>4, <2>5, <3>2
    <3>6. SizesRise(Append(way, d), a, b)
      BY <1>2, <2>4, <2>5, <3>2
    <3>7. SizesRise(Append(Append(way, m), d), a, b)
      BY <2>4, <3>2, <3>5
    <3>8. QED
      BY <2>5, <3>4, <3>5, <3>6, <3>7
  <2>7. FlowBy(a, b, c)'
    BY <1>1, <2>1, <2>6 DEF FlowBy
  <2>8. QED
    BY <1>4, <2>7
<1>8. CASE takeResize
  <2> DEFINE e == Head(resizes)
             m == Message("winch", e)
  <2>1. /\ todo = <<>> /\ todo' = <<m>> /\ resizes # <<>> /\ resizes' = Tail(resizes)
        /\ UNCHANGED <<sock, ctl, held, ptySize, size>>
    BY <1>8 DEF takeResize, Send, SetUp
  <2>2. e \in 1 .. MaxSizes /\ b <= e /\ e <= c /\ Rising(Tail(resizes), e, c)
    BY <1>1, <1>2, <2>1, RisingTail DEF FlowBy
  <2>3. m \in Messages /\ IsSize(m) /\ m.content = e
    BY <2>2, MessageTypes DEF Message, IsSize
  <2> HIDE DEF e, m
  <2>4. way' = Append(way, m)
    BY <2>1, <2>3, WayGrows
  <2>5. SizesRise(Append(way, m), a, e)
    <3>1. SizesRise(Append(way, m), a, IF IsSize(m) THEN m.content ELSE b)
      <4>1. SizesRise(way, a, b) /\ a <= b /\ (IsSize(m) => b <= m.content)
        BY <1>1, <2>2, <2>3 DEF FlowBy
      <4>2. QED
        BY <1>2, <2>3, <4>1, SizesAppend
    <3>2. QED
      BY <2>3, <3>1
  <2>6. a <= e
    BY <1>1, <1>2, <2>2 DEF FlowBy
  <2>7. /\ ptySize' <= a /\ a <= e /\ e <= c /\ c <= size'
        /\ Rising(ctl', ptySize', a) /\ SizesRise(way', a, e) /\ Rising(resizes', e, c)
        /\ held' # 0 => c <= held' /\ held' <= size'
    BY <1>1, <2>1, <2>2, <2>4, <2>5, <2>6 DEF FlowBy
  <2>8. e \in 0 .. MaxSizes
    BY <2>2
  <2>9. QED
    BY <2>7, <2>8 DEF SizesFlow
<1>9. CASE resize
  <2>1. /\ size' = size + 1 /\ UNCHANGED <<ptySize, ctl, resizes, held, sock, todo>>
    BY <1>9 DEF resize
  <2>2. way' = way
    BY <2>1, WaySame
  <2>3. FlowBy(a, b, c)'
    BY <1>1, <1>2, <2>1, <2>2 DEF FlowBy
  <2>4. QED
    BY <1>4, <2>3
<1>10. CASE seeSignal
  <2>1. /\ held' = size /\ UNCHANGED <<ptySize, ctl, resizes, size, sock, todo>>
    BY <1>10 DEF seeSignal
  <2>2. way' = way
    BY <2>1, WaySame
  <2>3. FlowBy(a, b, c)'
    BY <1>1, <1>2, <2>1, <2>2 DEF FlowBy
  <2>4. QED
    BY <1>4, <2>3
<1>11. CASE tellSize
  <2>1. /\ held # 0 /\ held' = 0 /\ resizes' = Append(resizes, held)
        /\ UNCHANGED <<ptySize, ctl, size, sock, todo>>
    BY <1>11 DEF tellSize
  <2>2. way' = way
    BY <2>1, WaySame
  <2>3. c <= held /\ held <= size /\ held \in 1 .. MaxSizes
    BY <1>1, <1>2, <2>1 DEF FlowBy
  <2>4. Rising(resizes', b, held)
    <3>1. Rising(resizes, b, c) /\ b <= c
      BY <1>1 DEF FlowBy
    <3>2. QED
      BY <1>2, <2>1, <2>3, <3>1, RisingAppend
  <2> DEFINE e == held
  <2>5. b <= e
    BY <1>1, <1>2, <2>3 DEF FlowBy
  <2>6. Rising(resizes', b, e) /\ e <= size /\ e \in 0 .. MaxSizes
    BY <2>3, <2>4
  <2> HIDE DEF e
  <2>7. /\ ptySize' <= a /\ a <= b /\ b <= e /\ e <= size'
        /\ Rising(ctl', ptySize', a) /\ SizesRise(way', a, b) /\ Rising(resizes', b, e)
        /\ held' = 0
    BY <1>1, <2>1, <2>2, <2>5, <2>6 DEF FlowBy
  <2>8. QED
    BY <2>6, <2>7 DEF SizesFlow
<1>12. CASE handle
  <2> DEFINE m == Head(way)
  <2>1. way # <<>> /\ m = Head(sock) /\ way' = Tail(way)
    BY <1>12, WayRead
  <2>2. UNCHANGED <<ptySize, size, held, resizes>>
    BY <1>12 DEF handle
  <2>3. SizesRise(way, a, b)
    BY <1>1 DEF FlowBy
  <2>4. m \in Messages
    BY <1>2, <2>1, TailType
  <2>5. CASE IsSize(m)
    <3>1. /\ m.content \in 1 .. MaxSizes /\ a <= m.content /\ m.content <= b
          /\ SizesRise(Tail(way), m.content, b)
      BY <1>2, <2>1, <2>3, <2>5, SizesTail
    <3>2. ctl' = Append(ctl, m.content)
      BY <1>12, <2>1, <2>5 DEF handle, IsSize
    <3> DEFINE e == m.content
    <3> HIDE DEF m, e
    <3>3. e \in 1 .. MaxSizes /\ a <= e /\ e <= b /\ SizesRise(way', e, b) /\ ctl' = Append(ctl, e)
      BY <2>1, <3>1, <3>2 DEF e
    <3>4. Rising(ctl', ptySize, e)
      <4>1. Rising(ctl, ptySize, a) /\ ptySize <= a
        BY <1>1 DEF FlowBy
      <4>2. QED
        BY <1>2, <3>3, <4>1, RisingAppend
    <3>5. ptySize <= e
      BY <1>1, <1>2, <3>3 DEF FlowBy
    <3>6. /\ ptySize' <= e /\ e <= b /\ b <= c /\ c <= size'
          /\ Rising(ctl', ptySize', e) /\ SizesRise(way', e, b) /\ Rising(resizes', b, c)
          /\ held' # 0 => c <= held' /\ held' <= size'
      BY <1>1, <2>2, <3>3, <3>4, <3>5 DEF FlowBy
    <3>7. e \in 0 .. MaxSizes
      BY <3>3
    <3>8. QED
      BY <3>6, <3>7 DEF SizesFlow
  <2>6. CASE ~IsSize(m)
    <3>1. SizesRise(Tail(way), a, b)
      BY <1>2, <2>1, <2>3, <2>6, SizesTail
    <3>2. ctl' = ctl
      <4>1. m.type \in {"attach", "detach", "push"}
        BY <2>4, <2>6, MessageContent DEF IsSize
      <4>2. QED
        BY <1>12, <2>1, <4>1 DEF handle
    <3>3. FlowBy(a, b, c)'
      BY <1>1, <2>1, <2>2, <3>1, <3>2 DEF FlowBy
    <3>4. QED
      BY <1>4, <3>3
  <2>7. QED
    BY <2>5, <2>6
<1>13. CASE setSize
  <2>1. /\ ctl # <<>> /\ ptySize' = Head(ctl) /\ ctl' = Tail(ctl)
        /\ UNCHANGED <<resizes, held, size, sock, todo>>
    BY <1>13 DEF setSize
  <2>2. way' = way
    BY <2>1, WaySame
  <2>3. Head(ctl) <= a /\ Rising(Tail(ctl), Head(ctl), a)
    BY <1>1, <1>2, <2>1, RisingTail DEF FlowBy
  <2>4. FlowBy(a, b, c)'
    BY <1>1, <2>1, <2>2, <2>3 DEF FlowBy
  <2>5. QED
    BY <1>4, <2>4
<1>14. CASE WriteStep \/ endLoop \/ hangUp
  <2>1. UNCHANGED <<ptySize, ctl, resizes, held, size, sock, todo>>
    BY <1>14 DEF WriteStep, fillSocket, readOutput, writeFails, endLoop, hangUp
  <2>2. QED
    BY <1>3, <2>1, WaySame
<1>15. QED
  BY <1>5, <1>6, <1>7, <1>8, <1>9, <1>10, <1>11, <1>12, <1>13, <1>14
     DEF Next, SetUpStep, InputStep, WatcherStep

-------------------------------------------------------------------------------

LEMMA InitIInv == Init => IInv
<1> SUFFICES ASSUME Init PROVE IInv
  OBVIOUS
<1> DEFINE none == <<>>
<1>1. /\ none \in Seq(Byte) /\ none \in Seq(Messages) /\ none \in Seq(1 .. MaxSizes)
      /\ Len(none) = 0 /\ none \o none = none
  BY ConcatEmptySeq
<1>2. /\ typed = none /\ pushed = none /\ sock = none /\ todo = none /\ ctl = none
      /\ resizes = none /\ way = none
  BY <1>1 DEF Init, way
<1> HIDE DEF none
<1>3. Types
  <2>1. size \in 1 .. MaxSizes /\ held \in 0 .. MaxSizes /\ ptySize \in 0 .. MaxSizes
    BY Sizes DEF Init
  <2>2. {watching, pending, open, attached, blocked, serving} \subseteq BOOLEAN
    BY DEF Init
  <2>3. Len(resizes) <= ResizeCap /\ Len(sock) <= SockCap /\ Len(ctl) <= CtlCap
    BY <1>1, <1>2, Sizes
  <2>4. client = "start" /\ outcome = "loop"
    BY DEF Init
  <2>5. QED
    BY <1>1, <1>2, <2>1, <2>2, <2>3, <2>4 DEF Types, TypeOK
<1>4. SetUp
  BY DEF Init, SetUp
<1>5. InputKept
  <2>1. \A i \in 1 .. Len(none) : none[i].is = "key"
    BY <1>1
  <2>2. Keys(none) = none
    BY <1>1, <2>1, KeysAll
  <2>3. IsCutInto(none, none, none)
    <3> DEFINE cut == [i \in 0 .. 0 |-> 0]
    <3>1. none = SubSeq(none, 1, 0)
      <4>1. 1 \in Int /\ 0 \in Int /\ 0 < 1
        OBVIOUS
      <4>2. QED
        BY <4>1, SubSeqEmpty DEF none
    <3>2. cut \in [0 .. Len(none) -> 0 .. Len(none)] /\ cut[0] = 0
      BY <1>1
    <3> HIDE DEF cut
    <3>3. \A i \in 1 .. Len(none) : FALSE
      BY <1>1
    <3>4. cut[0] = Len(none) /\ none = SubSeq(none, 1, cut[0]) /\ cut[Len(none)] = Len(none)
      BY <1>1, <3>1, <3>2
    <3>5. QED
      BY <3>2, <3>3, <3>4 DEF IsCutInto
  <2>4. Decided(Verdict, typed)
    BY <1>2, <2>1 DEF Init, Verdict, Decided
  <2>5. QED
    BY <1>2, <2>2, <2>3, <2>4 DEF InputKept
<1>6. LastIsDetach
  BY DEF Init, LastIsDetach, Verdict
<1>7. SizesFlow
  <2>1. Rising(none, 0, 0) /\ SizesRise(none, 0, 0)
    BY EmptyRises DEF none
  <2>2. /\ ptySize <= 0 /\ 0 <= 0 /\ 0 <= size /\ held = 0 /\ ptySize = 0
        /\ 0 \in 0 .. MaxSizes
    BY Sizes DEF Init
  <2>3. QED
    BY <1>2, <2>1, <2>2 DEF SizesFlow
<1>8. QED
  BY <1>3, <1>4, <1>5, <1>6, <1>7 DEF IInv

LEMMA StepIInv == IInv /\ [Next]_vars => IInv'
<1> SUFFICES ASSUME IInv, [Next]_vars PROVE IInv'
  OBVIOUS
<1>1. CASE Next
  BY <1>1, TypesKept, SetUpKept, InputKeptByStep, LastIsDetachKept, SizesFlowKept DEF IInv
<1>2. CASE UNCHANGED vars
  BY <1>2, SMTT(30) DEF vars, watchVars, daemonVars, IInv, Types, TypeOK, SetUp, InputKept, Verdict,
     Decided, LastIsDetach, SizesFlow, way
<1>3. QED
  BY <1>1, <1>2

\* The parts of the invariant hold together, for every value of the constants.
THEOREM Invariance == Spec => []IInv
<1>1. QED
  BY InitIInv, StepIInv, PTL DEF Spec

\* The socket and both channels keep their limits: the watcher's tx.send and
\* the handler's push into the control channel wait for a slot.
THEOREM TypeCorrect == Spec => []TypeOK
<1>1. IInv => TypeOK
  BY DEF IInv, Types
<1>2. QED
  BY <1>1, Invariance, PTL

\* However the terminal cuts the input and however sending, full channels and
\* hang-ups fall together with it, what the handler has pushed, what is in the
\* socket and what is still to be sent are, in this order, the input before the
\* first special character, and the outcome is that character's.
THEOREM FirstSpecialCharWins == Spec => []FirstSpecialWins
<1>1. IInv => FirstSpecialWins
  <2>1. SUFFICES ASSUME IInv PROVE FirstSpecialWins
    OBVIOUS
  <2>2. typed \in Seq(Byte) /\ IsCutInto(Keys(typed), pushed, sock \o todo)
        /\ Decided(Verdict, typed)
    BY <2>1 DEF IInv, Types, TypeOK, InputKept, way
  <2>3. ASSUME client \in {"detached", "suspended"}
        PROVE  \E i \in 1 .. Len(typed) :
                 /\ Len(Keys(typed)) = i - 1
                 /\ client = "detached" => typed[i].is = "detach"
                 /\ client = "suspended" => typed[i].is = "suspend"
    <3>1. Verdict = client
      BY <2>3 DEF Verdict
    <3>2. PICK i \in 1 .. Len(typed) :
            /\ \A j \in 1 .. i - 1 : typed[j].is = "key"
            /\ typed[i].is = IF client = "detached" THEN "detach" ELSE "suspend"
      BY <2>2, <2>3, <3>1 DEF Decided
    <3>3. typed[i].is # "key"
      BY <3>2
    <3>4. Keys(typed) = SubSeq(typed, 1, i - 1)
      BY <2>2, <3>2, <3>3, KeysUpTo
    <3>5. Len(Keys(typed)) = i - 1
      BY <2>2, <3>4, ChunkPart
    <3>6. QED
      BY <2>3, <3>2, <3>5
  <2>4. QED
    BY <2>2, <2>3 DEF FirstSpecialWins
<1>2. QED
  BY <1>1, Invariance, PTL

\* Once the handler has read all a suspended client sent, it holds no receiver
\* for it: the client's last message was its detach (cli's suspend path).
THEOREM SuspendDetaches == Spec => []SuspendedIsDetached
<1>1. IInv => SuspendedIsDetached
  <2>1. SUFFICES ASSUME IInv, client = "suspended", sock = <<>> PROVE ~attached
    BY DEF SuspendedIsDetached
  <2>2. Verdict = "suspended" /\ todo = <<>>
    BY <2>1 DEF Verdict, IInv, SetUp
  <2>3. way = <<>>
    BY <2>1, <2>2, BackOfTwo DEF way, IInv, Types
  <2>4. QED
    BY <2>1, <2>2, <2>3 DEF IInv, LastIsDetach
<1>2. QED
  BY <1>1, Invariance, PTL

\* A size in any of the channels is no older than those ahead of it, the size
\* of the handshake included: the watcher first reads the terminal after the
\* handshake has, because the runtime has one thread.
THEOREM SizesNeverGoBack == Spec => SizesInOrder
<1>1. IInv /\ [Next]_vars => [ptySize' >= ptySize]_vars
  <2>1. SUFFICES ASSUME IInv, Next PROVE ptySize' >= ptySize
    OBVIOUS
  <2>2. PICK a \in 0 .. MaxSizes : Rising(ctl, ptySize, a)
    BY <2>1 DEF IInv, SizesFlow
  <2>3. ptySize \in Nat /\ ctl \in Seq(1 .. MaxSizes) /\ MaxSizes \in Nat
    BY <2>1, Sizes DEF IInv, Types, TypeOK
  <2>4. CASE setSize
    <3>1. ctl # <<>> /\ ptySize' = Head(ctl)
      BY <2>4 DEF setSize
    <3>2. ptySize <= Head(ctl) /\ Head(ctl) \in 1 .. MaxSizes
      BY <2>2, <2>3, <3>1, RisingTail
    <3>3. QED
      BY <2>3, <3>1, <3>2
  <2>5. CASE UNCHANGED ptySize
    BY <2>3, <2>5
  <2>6. UNCHANGED ptySize \/ setSize
    BY <2>1 DEF Next, SetUpStep, SendStep, InputStep, WatcherStep, spawn_watcher, handshake,
       sendOne, sendDone, sendFails, inputEnds, input, takeResize, seeEnd, resize, seeSignal,
       tellSize, handle, WriteStep, fillSocket, readOutput, writeFails, endLoop, hangUp, watchVars, daemonVars, clientVars
  <2>7. QED
    BY <2>4, <2>5, <2>6
<1>2. QED
  BY <1>1, Invariance, PTL DEF Spec, SizesInOrder
===============================================================================
