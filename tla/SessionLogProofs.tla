--------------------------- MODULE SessionLogProofs ---------------------------
(***************************************************************************)
(* For every cap, window, chunk size and output, and whatever is cleared,  *)
(* fails or dies: the log stays bounded and counted and its bytes in       *)
(* order, as long as a second daemon does not truncate it or take it over, *)
(* and rotation's slices are in bounds until the file is truncated by      *)
(* `hytch clear` or by such a daemon.                                      *)
(***************************************************************************)
EXTENDS SessionLog, SequenceTheorems, WellFoundedInduction, TLAPS

\* Every set of naturals has a least element, every bounded one a greatest.
LEMMA LeastNatural ==
  ASSUME NEW T, T \subseteq Nat, T # {}
  PROVE  \E x \in T : \A y \in T : x <= y
<1>1. PICK x \in T : \A y \in T : <<y, x>> \notin OpToRel(<, Nat)
  BY NatLessThanWellFounded, WFMin
<1>2. \A y \in T : ~(y < x)
  BY <1>1, Zenon DEF OpToRel
<1>3. QED
  BY <1>2

LEMMA GreatestNatural ==
  ASSUME NEW n \in Nat, NEW T, T \subseteq 1 .. n, T # {}
  PROVE  \E x \in T : \A y \in T : y <= x
<1> DEFINE U == {n - y : y \in T}
<1>1. U \subseteq Nat /\ U # {}
  <2>1. ASSUME NEW y \in T PROVE n - y \in Nat
    OBVIOUS
  <2>2. PICK y \in T : TRUE
    OBVIOUS
  <2>3. n - y \in U
    OBVIOUS
  <2>4. QED
    BY <2>1, <2>3
<1>2. PICK u \in U : \A v \in U : u <= v
  BY <1>1, LeastNatural
<1>3. PICK x \in T : u = n - x
  OBVIOUS
<1>4. ASSUME NEW y \in T PROVE y <= x
  <2>1. x \in Nat /\ y \in Nat
    OBVIOUS
  <2>2. n - y \in U
    OBVIOUS
  <2>3. n - x <= n - y
    BY <2>2, <1>2, <1>3
  <2> HIDE DEF U
  <2>4. QED
    BY <2>1, <2>3
<1>5. QED
  BY <1>4

-------------------------------------------------------------------------------

\* The contents of a file after a write, byte by byte.
LEMMA WrittenElements ==
  ASSUME NEW S, NUL \in S, NEW f \in Seq(S), NEW at \in Nat, NEW d \in Seq(S)
  PROVE  LET w == Written(f, at, d)
         IN  /\ w \in Seq(S)
             /\ d = <<>> => w = f
             /\ d # <<>> => Len(w) = IF at + Len(d) > Len(f) THEN at + Len(d) ELSE Len(f)
             /\ d # <<>> => \A i \in 1 .. Len(w) :
                  w[i] = IF i > at /\ i <= at + Len(d) THEN d[i - at]
                         ELSE IF i <= Len(f) THEN f[i] ELSE NUL
<1> DEFINE end == IF at + Len(d) > Len(f) THEN at + Len(d) ELSE Len(f)
           g   == [i \in 1 .. end |-> IF i > at /\ i <= at + Len(d) THEN d[i - at]
                                      ELSE IF i <= Len(f) THEN f[i] ELSE NUL]
<1>1. end \in Nat
  OBVIOUS
<1>2. g \in Seq(S)
  <2>1. \A i \in 1 .. end : g[i] \in S
    OBVIOUS
  <2>2. QED
    BY <1>1, <2>1
<1>3. Len(g) = end
  BY <1>1
<1>4. Written(f, at, d) = IF d = <<>> THEN f ELSE g
  BY DEF Written
<1> HIDE DEF end
<1>5. QED
  BY <1>2, <1>3, <1>4 DEF end

LEMMA SpanElements ==
  ASSUME NEW n \in Nat, NEW k \in Nat
  PROVE  /\ Span(n, n + k) \in Seq(n + 1 .. n + k)
         /\ Len(Span(n, n + k)) = k
         /\ \A i \in 1 .. k : Span(n, n + k)[i] = n + i
<1>1. n + k - n = k
  OBVIOUS
<1>2. Span(n, n + k) = [i \in 1 .. k |-> n + i]
  BY <1>1 DEF Span
<1>3. QED
  BY <1>2

\* The escape bytes before a cut, and the last of them.
Escs(b, n)    == {i \in 1 .. n : KindAt(b[i]) = "esc"}
LastEsc(b, n) == CHOOSE i \in Escs(b, n) : \A j \in Escs(b, n) : j <= i

\* An escape sequence would be cut in two.
Splits(b, n) ==
  Escs(b, n) # {} /\ ~escape_sequence_terminated(SubSeq(b, LastEsc(b, n), n))

\* The two cuts: in front of an escape sequence, or after the rest of a
\* character.
LEMMA CutForms ==
  ASSUME NEW b, Len(b) \in Nat, NEW naive_cut \in 0 .. Len(b), NEW cut,
         cut = safe_trim_start(b, naive_cut)
  PROVE  /\ Splits(b, naive_cut) =>
              LastEsc(b, naive_cut) \in Escs(b, naive_cut) /\ cut = LastEsc(b, naive_cut) - 1
         /\ ~Splits(b, naive_cut) =>
              /\ cut \in naive_cut .. Len(b)
              /\ \A i \in naive_cut + 1 .. cut : IsCont(b[i])
              /\ cut < Len(b) => ~IsCont(b[cut + 1])
<1> DEFINE ok(n) == /\ \A i \in naive_cut + 1 .. n : IsCont(b[i])
                    /\ n < Len(b) => ~IsCont(b[n + 1])
<1>1. cut = IF Splits(b, naive_cut) THEN LastEsc(b, naive_cut) - 1
            ELSE CHOOSE n \in naive_cut .. Len(b) : ok(n)
  BY DEF safe_trim_start, Splits, LastEsc, Escs
<1>2. CASE Splits(b, naive_cut)
  <2>1. Escs(b, naive_cut) \subseteq 1 .. naive_cut /\ naive_cut \in Nat
    BY DEF Escs
  <2>2. \E i \in Escs(b, naive_cut) : \A j \in Escs(b, naive_cut) : j <= i
    BY <1>2, <2>1, GreatestNatural DEF Splits
  <2>3. LastEsc(b, naive_cut) \in Escs(b, naive_cut)
    BY <2>2 DEF LastEsc
  <2>4. QED
    BY <1>1, <1>2, <2>3
<1>3. CASE ~Splits(b, naive_cut)
  <2> DEFINE stops == {n \in naive_cut .. Len(b) : n < Len(b) => ~IsCont(b[n + 1])}
  <2>1. Len(b) \in stops /\ stops \subseteq Nat
    OBVIOUS
  <2>2. PICK m \in stops : \A n \in stops : m <= n
    BY <2>1, LeastNatural
  <2>3. ASSUME NEW i \in naive_cut + 1 .. m PROVE IsCont(b[i])
    <3>1. /\ i - 1 \in naive_cut .. Len(b) /\ i - 1 < m /\ m <= Len(b)
          /\ i - 1 + 1 = i /\ m \in Nat
      BY <2>1, <2>2
    <3>2. ~(m <= i - 1)
      BY <3>1
    <3>3. i - 1 \notin stops
      <4> HIDE DEF stops
      <4>1. QED
        BY <2>2, <3>2
    <3>4. QED
      BY <3>1, <3>3
  <2>4. ok(m) /\ m \in naive_cut .. Len(b)
    BY <2>2, <2>3
  <2> DEFINE first == CHOOSE n \in naive_cut .. Len(b) : ok(n)
  <2>5. first \in naive_cut .. Len(b) /\ ok(first)
    <3> HIDE DEF ok
    <3>1. QED
      BY <2>4
  <2>6. cut = first
    BY <1>1, <1>3
  <2> HIDE DEF first
  <2>7. QED
    BY <1>3, <2>5, <2>6
<1>4. QED
  BY <1>2, <1>3

\* The cut is inside the buffer, whatever is in it, and what it drops after the
\* naive cut is the rest of a character.
LEMMA CutInRange ==
  ASSUME NEW b, Len(b) \in Nat, NEW naive_cut \in 0 .. Len(b)
  PROVE  /\ safe_trim_start(b, naive_cut) \in 0 .. Len(b)
         /\ \A i \in naive_cut + 1 .. safe_trim_start(b, naive_cut) : IsCont(b[i])
<1> DEFINE cut == safe_trim_start(b, naive_cut)
<1> HIDE DEF cut
<1>1. CASE Splits(b, naive_cut)
  <2>1. cut = LastEsc(b, naive_cut) - 1 /\ LastEsc(b, naive_cut) \in 1 .. naive_cut
    BY <1>1, CutForms DEF cut, Escs
  <2>2. cut \in 0 .. Len(b) /\ \A i \in naive_cut + 1 .. cut : FALSE
    BY <2>1
  <2>3. QED
    BY <2>2 DEF cut
<1>2. CASE ~Splits(b, naive_cut)
  <2>1. cut \in naive_cut .. Len(b) /\ \A i \in naive_cut + 1 .. cut : IsCont(b[i])
    BY <1>2, CutForms DEF cut
  <2>2. QED
    BY <2>1 DEF cut
<1>3. QED
  BY <1>1, <1>2

-------------------------------------------------------------------------------

\* A run of bytes as InOrder wants it, none of them newer than `top`.
Ordered(f, top, cleared) ==
  \A i \in 1 .. Len(f) :
    /\ f[i] <= top
    /\ f[i] = NUL => cleared
    /\ \A j \in 1 .. i - 1 : f[j] = NUL \/ f[j] < f[i]

LEMMA OrderedMonotone ==
  ASSUME NEW f \in Seq(Nat), NEW top \in Nat, NEW top2 \in Nat, top <= top2,
         NEW c, NEW c2, c => c2, Ordered(f, top, c)
  PROVE  Ordered(f, top2, c2)
<1>1. \A i \in 1 .. Len(f) : f[i] \in Nat
  OBVIOUS
<1>2. QED
  BY <1>1 DEF Ordered

\* A part of an ordered run is one.
LEMMA OrderedPart ==
  ASSUME NEW S, S \subseteq Nat, NEW f \in Seq(S), NEW top, NEW c, Ordered(f, top, c),
         NEW m \in Nat \ {0}, NEW n \in Nat, n <= Len(f)
  PROVE  /\ SubSeq(f, m, n) \in Seq(S)
         /\ Len(SubSeq(f, m, n)) = IF m <= n THEN n - m + 1 ELSE 0
         /\ Ordered(SubSeq(f, m, n), top, c)
<1> DEFINE g == SubSeq(f, m, n)
<1>1. /\ g \in Seq(S) /\ Len(g) \in Nat
      /\ Len(g) = IF m <= n THEN n - m + 1 ELSE 0
      /\ \A i \in 1 .. n - m + 1 : g[i] = f[m + i - 1]
  BY SubSeqProperties
<1> HIDE DEF g
<1>2. ASSUME NEW i \in 1 .. Len(g)
      PROVE  /\ g[i] <= top
             /\ g[i] = NUL => c
             /\ \A j \in 1 .. i - 1 : g[j] = NUL \/ g[j] < g[i]
  <2>1. /\ m + i - 1 \in 1 .. Len(f) /\ g[i] = f[m + i - 1]
        /\ \A j \in 1 .. i - 1 : g[j] = f[m + j - 1] /\ m + j - 1 \in 1 .. (m + i - 1) - 1
    BY <1>1, SMTT(30)
  <2>2. QED
    BY <2>1 DEF Ordered
<1>3. Ordered(g, top, c)
  BY <1>2 DEF Ordered
<1>4. QED
  BY <1>1, <1>3 DEF g

\* Writing newer bytes at the end, or anywhere in a file that was cleared.
LEMMA OrderedWritten ==
  ASSUME NEW f \in Seq(Nat), NEW top \in Nat, NEW c, Ordered(f, top, c),
         NEW at \in Nat, at = Len(f) \/ (f = <<>> /\ c),
         NEW k \in Nat, NEW top2 \in Nat, top + k <= top2
  PROVE  Ordered(Written(f, at, Span(top, top + k)), top2, c)
<1> DEFINE d == Span(top, top + k)
           w == Written(f, at, d)
<1>1. d \in Seq(Nat) /\ Len(d) = k /\ \A i \in 1 .. k : d[i] = top + i
  <2>1. d \in Seq(top + 1 .. top + k) /\ Len(d) = k /\ \A i \in 1 .. k : d[i] = top + i
    BY SpanElements
  <2>2. \A i \in 1 .. Len(d) : d[i] \in Nat
    BY <2>1
  <2>3. d \in [1 .. Len(d) -> Nat] /\ Len(d) \in Nat
    BY <2>1, <2>2
  <2>4. QED
    BY <2>1, <2>3
<1>2. CASE d = <<>>
  <2>1. w = f
    BY <1>1, <1>2, WrittenElements DEF NUL
  <2>2. QED
    BY <2>1, OrderedMonotone
<1>3. CASE d # <<>>
  <2> HIDE DEF d
  <2>1. k > 0
    BY <1>1, <1>3, EmptySeq
  <2>2. /\ w \in Seq(Nat) /\ Len(w) = at + k
        /\ \A i \in 1 .. Len(w) :
             w[i] = IF i > at /\ i <= at + k THEN d[i - at]
                    ELSE IF i <= Len(f) THEN f[i] ELSE NUL
    <3>1. Len(f) <= at
      BY EmptySeq
    <3>2. /\ w \in Seq(Nat)
          /\ Len(w) = IF at + Len(d) > Len(f) THEN at + Len(d) ELSE Len(f)
          /\ \A i \in 1 .. Len(w) :
               w[i] = IF i > at /\ i <= at + Len(d) THEN d[i - at]
                      ELSE IF i <= Len(f) THEN f[i] ELSE NUL
      <4>1. NUL \in Nat
        BY DEF NUL
      <4>2. QED
        <5>1. f \in Seq(Nat) /\ at \in Nat /\ d \in Seq(Nat) /\ d # <<>>
          BY <1>1, <1>3
        <5>2. QED
          BY ONLY <4>1, <5>1, WrittenElements, SMTT(30)
    <3>3. QED
      BY <1>1, <2>1, <3>1, <3>2
  <2> HIDE DEF w
  <2>3. ASSUME NEW i \in 1 .. Len(w)
        PROVE  /\ w[i] <= top2
               /\ w[i] = NUL => c
               /\ \A j \in 1 .. i - 1 : w[j] = NUL \/ w[j] < w[i]
    <3>1. CASE i > at
      <4>1. w[i] = top + (i - at) /\ w[i] <= top2 /\ w[i] # NUL
        <5>1. i - at \in 1 .. k
          BY <2>1, <2>2, <3>1
        <5>2. w[i] = d[i - at] /\ d[i - at] = top + (i - at)
          BY <1>1, <2>2, <3>1, <5>1, SMTT(30)
        <5>3. QED
          BY <5>1, <5>2 DEF NUL
      <4>2. ASSUME NEW j \in 1 .. i - 1 PROVE w[j] = NUL \/ w[j] < w[i]
        <5>1. CASE j > at
          BY <1>1, <2>2, <3>1, <4>1, <5>1
        <5>2. CASE j <= at /\ j <= Len(f)
          <6>1. w[j] = f[j] /\ f[j] <= top /\ f[j] \in Nat
            BY <2>2, <5>2, SMTT(30) DEF Ordered
          <6>2. QED
            BY <3>1, <4>1, <6>1
        <5>3. CASE j <= at /\ j > Len(f)
          BY <2>2, <5>3
        <5>4. QED
          BY <5>1, <5>2, <5>3
      <4>3. QED
        BY <4>1, <4>2
    <3>2. CASE i <= at /\ at = Len(f)
      <4>1. w[i] = f[i] /\ f[i] <= top /\ f[i] \in Nat /\ i \in 1 .. Len(f)
        BY <2>2, <3>2 DEF Ordered
      <4>2. \A j \in 1 .. i - 1 : w[j] = f[j]
        BY <2>2, <3>2
      <4>3. QED
        BY <4>1, <4>2 DEF Ordered
    <3>3. CASE i <= at /\ f = <<>> /\ c
      <4>1. \A j \in 1 .. i : w[j] = NUL
        BY <2>2, <3>3, EmptySeq
      <4>2. QED
        BY <3>3, <4>1 DEF NUL
    <3>4. QED
      BY <3>1, <3>2, <3>3
  <2>4. Ordered(w, top2, c)
    BY <2>3 DEF Ordered
  <2>5. QED
    BY <2>4 DEF w, d
<1>4. QED
  BY <1>2, <1>3

\* Writing at the start of an empty file.
LEMMA WrittenFresh ==
  ASSUME NEW S, NUL \in S, NEW d \in Seq(S)
  PROVE  Written(<<>>, 0, d) = d
<1>1. CASE d = <<>>
  BY <1>1 DEF Written
<1>2. CASE d # <<>>
  <2> DEFINE w == Written(<<>>, 0, d)
  <2>1. /\ w \in Seq(S)
        /\ Len(w) = IF 0 + Len(d) > Len(<<>>) THEN 0 + Len(d) ELSE Len(<<>>)
        /\ \A i \in 1 .. Len(w) :
             w[i] = IF i > 0 /\ i <= 0 + Len(d) THEN d[i - 0]
                    ELSE IF i <= Len(<<>>) THEN <<>>[i] ELSE NUL
    <3>1. <<>> \in Seq(S) /\ 0 \in Nat
      OBVIOUS
    <3>2. QED
      BY <1>2, <3>1, WrittenElements, ZenonT(40)
  <2> HIDE DEF w
  <2>2. Len(w) = Len(d) /\ \A i \in 1 .. Len(w) : w[i] = d[i]
    BY <2>1
  <2>3. w = d
    BY <2>1, <2>2, SeqEqual
  <2>4. QED
    BY <2>3 DEF w
<1>3. QED
  BY <1>1, <1>2

-------------------------------------------------------------------------------

\* A read is of a file longer than the cap, and a rival that rewrites has been
\* counted among the faults.
Steady ==
  /\ TypeOK
  /\ pc = "read" => size > MaxSize
  /\ rival.pc = "read" => rival.size > rival.cap
  /\ rival.pc = "rewrite" => "rival" \in faults

\* Once measured, the file is as long as that or cleared.
SizeInv == pc = "read" => Len(file) = size \/ (file = <<>> /\ "clear" \in faults)

\* An append meets the file's end, or a file cleared behind the writer's back.
OffsetInv ==
  /\ pc = "idle" => offset = Len(file) \/ (file = <<>> /\ "clear" \in faults)
  /\ pc = "rewrite" => file = <<>> /\ offset = 0

\* Without a clear or a full disk the count is right and the length bounded.
BoundInv ==
  faults \subseteq {"torn"} =>
    /\ pc = "idle" => current_size = Len(file) /\ Len(file) <= MaxSize + Lookback
    /\ pc = "recount" => Len(file) <= MaxSize + Lookback

PanicInv == pc = "panicked" => "clear" \in faults

\* What holds until a second daemon disturbs the writer.
Undisturbed ==
  /\ SizeInv /\ OffsetInv /\ BoundInv /\ PanicInv
  /\ Ordered(file, taken, "clear" \in faults)
  /\ Ordered(tail, taken, "clear" \in faults)

Calm == Steady /\ Undisturbed

IInv == Steady /\ ("rival" \notin faults => Undisturbed)

LEMMA EmptyOrdered ==
  ASSUME NEW top, NEW c
  PROVE  Ordered(<<>>, top, c)
BY DEF Ordered

LEMMA PositionsAreNaturals ==
  ASSUME TypeOK
  PROVE  /\ Len(stream) \in Nat /\ Positions \subseteq Nat /\ NUL \in Positions
         /\ Seq(Positions) \subseteq Seq(Nat)
         /\ file \in Seq(Nat) /\ tail \in Seq(Nat) /\ taken \in Nat
<1>1. Len(stream) \in Nat
  BY StreamsAssumption DEF TypeOK
<1>2. Positions \subseteq Nat /\ NUL \in Positions
  BY <1>1 DEF Positions, NUL
<1>3. Seq(Positions) \subseteq Seq(Nat)
  BY <1>2, SeqMonotonic
<1>4. QED
  BY <1>1, <1>2, <1>3 DEF TypeOK

-------------------------------------------------------------------------------
(* What a rotation reads and keeps of whatever is there.                     *)

LEMMA CutPlaces ==
  ASSUME NEW sz \in Nat, NEW cap \in Nat, sz > cap
  PROVE  /\ NaiveStart(sz, cap) \in Nat \ {0} /\ NaiveStart(sz, cap) = sz - cap
         /\ LookbackUsed(sz, cap) \in Nat /\ LookbackUsed(sz, cap) <= Lookback
         /\ ReadStart(sz, cap) \in Nat
         /\ ReadStart(sz, cap) + LookbackUsed(sz, cap) = NaiveStart(sz, cap)
         /\ \A d \in Nat : d <= Lookback /\ d <= NaiveStart(sz, cap) => d <= LookbackUsed(sz, cap)
BY SizesAssumption DEF NaiveStart, LookbackUsed, ReadStart, SmallerOf

\* What rotation looks at is the file up to the measured length.
LEMMA SeenPart ==
  ASSUME TypeOK, NEW sz \in Nat
  PROVE  /\ Seen(sz) \in Seq(Positions) /\ Len(Seen(sz)) \in Nat
         /\ Len(Seen(sz)) = SmallerOf(sz, Len(file)) /\ Len(Seen(sz)) <= sz
         /\ Len(file) = sz => Seen(sz) = file
<1> DEFINE n == SmallerOf(sz, Len(file))
<1>1. file \in Seq(Positions) /\ Len(file) \in Nat
  BY PositionsAreNaturals DEF TypeOK
<1>2. n \in Nat /\ n <= Len(file) /\ n <= sz /\ (Len(file) = sz => n = Len(file))
  BY <1>1 DEF SmallerOf
<1> HIDE DEF n
<1>3. /\ SubSeq(file, 1, n) \in Seq(Positions)
      /\ Len(SubSeq(file, 1, n)) = IF 1 <= n THEN n - 1 + 1 ELSE 0
  BY <1>1, <1>2, SubSeqProperties
<1>4. Len(SubSeq(file, 1, n)) = n
  BY <1>2, <1>3
<1>5. n = Len(file) => SubSeq(file, 1, n) = file
  BY <1>1
<1>6. Seen(sz) = SubSeq(file, 1, n)
  BY DEF Seen, n
<1>7. QED
  BY <1>2, <1>3, <1>4, <1>5, <1>6 DEF n

\* The buffer is what was seen from where the read starts, and what is kept is
\* the end of the buffer; the cap and the window bound both.
LEMMA KeptPart ==
  ASSUME TypeOK, NEW sz \in Nat, NEW cap \in Nat, sz > cap, ~OutOfBounds(sz, cap)
  PROVE  LET f   == Seen(sz)
             b   == Buffer(sz, cap)
             cut == safe_trim_start(b, LookbackUsed(sz, cap))
         IN  /\ ReadStart(sz, cap) + 1 \in Nat \ {0} /\ ReadStart(sz, cap) <= Len(f)
             /\ b = SubSeq(f, ReadStart(sz, cap) + 1, Len(f))
             /\ b \in Seq(Positions) /\ Len(b) \in Nat /\ Len(b) = Len(f) - ReadStart(sz, cap)
             /\ \A i \in 1 .. Len(b) : b[i] = f[ReadStart(sz, cap) + i]
             /\ LookbackUsed(sz, cap) \in 0 .. Len(b)
             /\ cut \in 0 .. Len(b)
             /\ KeptTail(sz, cap) = SubSeq(b, cut + 1, Len(b))
             /\ KeptTail(sz, cap) \in Seq(Positions)
             /\ Len(KeptTail(sz, cap)) = Len(b) - cut
             /\ Len(KeptTail(sz, cap)) <= cap + Lookback
<1> DEFINE f     == Seen(sz)
           b     == Buffer(sz, cap)
           start == ReadStart(sz, cap)
           naive == LookbackUsed(sz, cap)
           cut   == safe_trim_start(b, naive)
           kept  == KeptTail(sz, cap)
<1>1. /\ f \in Seq(Positions) /\ Len(f) \in Nat /\ Len(f) <= sz
      /\ Len(f) = SmallerOf(sz, Len(file)) /\ Len(file) \in Nat
  <2>1. Len(file) \in Nat
    BY PositionsAreNaturals
  <2>2. QED
    BY <2>1, SeenPart
<1>2. /\ start \in Nat /\ naive \in Nat /\ naive <= Lookback /\ start + naive = sz - cap
      /\ ~(Len(file) < sz - cap)
  BY CutPlaces DEF OutOfBounds
<1>3. start + naive <= Len(f) /\ Lookback \in Nat /\ Len(f) - start <= cap + naive
  BY <1>1, <1>2, SizesAssumption DEF SmallerOf
<1>4. b = SubSeq(f, start + 1, Len(f)) /\ kept = SubSeq(b, cut + 1, Len(b))
  BY DEF Buffer, KeptTail, Drop
<1> HIDE DEF f, start, naive, b, cut, kept
<1>5. /\ b \in Seq(Positions) /\ Len(b) = Len(f) - start /\ Len(b) \in Nat
      /\ \A i \in 1 .. Len(b) : b[i] = f[start + i]
  <2>1. start + 1 \in Nat \ {0} /\ Len(f) <= Len(f) /\ Len(f) - (start + 1) + 1 = Len(f) - start
    BY <1>1, <1>2
  <2>2. /\ b \in Seq(Positions)
        /\ Len(b) = IF start + 1 <= Len(f) THEN Len(f) - (start + 1) + 1 ELSE 0
        /\ \A i \in 1 .. Len(f) - (start + 1) + 1 : b[i] = f[start + 1 + i - 1]
    <3> DEFINE from == start + 1
               to   == Len(f)
    <3>1. b = SubSeq(f, from, to)
      BY <1>4
    <3>2. from \in Int /\ to \in Int /\ \A i \in from .. to : f[i] \in Positions
      BY <1>1, <2>1
    <3> HIDE DEF from, to
    <3>3. /\ SubSeq(f, from, to) \in Seq(Positions)
          /\ Len(SubSeq(f, from, to)) = IF from <= to THEN to - from + 1 ELSE 0
          /\ \A i \in 1 .. to - from + 1 : SubSeq(f, from, to)[i] = f[from + i - 1]
      BY ONLY <3>2, SubSeqProperties
    <3>4. QED
      BY <3>1, <3>3 DEF from, to
  <2>3. Len(b) = Len(f) - start /\ Len(b) \in Nat
    BY <1>1, <1>2, <1>3, <2>1, <2>2
  <2>4. \A i \in 1 .. Len(b) : b[i] = f[start + i]
    <3>1. \A i \in 1 .. Len(b) : b[i] = f[start + 1 + i - 1]
      BY <2>1, <2>2, <2>3
    <3>2. \A i \in 1 .. Len(b) : start + 1 + i - 1 = start + i
      BY <1>2, <2>3
    <3>3. QED
      BY ONLY <3>1, <3>2
  <2>5. QED
    BY <2>2, <2>3, <2>4
<1>6. naive \in 0 .. Len(b)
  BY <1>1, <1>2, <1>3, <1>5
<1>7. cut \in 0 .. Len(b)
  BY <1>5, <1>6, CutInRange DEF cut
<1>8. kept \in Seq(Positions) /\ Len(kept) = Len(b) - cut
  <2>1. cut + 1 \in Nat \ {0} /\ Len(b) <= Len(b)
    BY <1>5, <1>7
  <2>2. /\ kept \in Seq(Positions)
        /\ Len(kept) = IF cut + 1 <= Len(b) THEN Len(b) - (cut + 1) + 1 ELSE 0
    <3>1. \A i \in cut + 1 .. Len(b) : b[i] \in Positions
      BY <1>5, <1>7
    <3>2. cut + 1 \in Int /\ Len(b) \in Int
      BY <1>5, <1>7
    <3> DEFINE from == cut + 1
               to   == Len(b)
    <3>3. kept = SubSeq(b, from, to)
      BY <1>4
    <3> HIDE DEF from, to
    <3>4. from \in Int /\ to \in Int /\ \A i \in from .. to : b[i] \in Positions
      BY <3>1, <3>2 DEF from, to
    <3>5. /\ SubSeq(b, from, to) \in Seq(Positions)
          /\ Len(SubSeq(b, from, to)) = IF from <= to THEN to - from + 1 ELSE 0
      BY ONLY <3>4, SubSeqProperties
    <3>6. QED
      BY <3>3, <3>5 DEF from, to
  <2>3. QED
    BY <1>5, <1>7, <2>2
<1>9. Len(kept) <= cap + Lookback
  BY <1>1, <1>2, <1>3, <1>5, <1>7, <1>8, SMTT(20)
<1>10. /\ start + 1 \in Nat \ {0} /\ start <= Len(f)
  BY <1>1, <1>2, <1>3
<1>11. QED
  BY <1>4, <1>5, <1>6, <1>7, <1>8, <1>9, <1>10 DEF f, start, naive, b, cut, kept

\* A part of a tail, written anywhere, leaves a log.
LEMMA WrittenType ==
  ASSUME TypeOK, NEW at \in Nat, NEW t \in Seq(Positions), NEW k \in 0 .. Len(t)
  PROVE  /\ Written(file, at, SubSeq(t, 1, k)) \in Seq(Positions)
         /\ SubSeq(t, 1, k) \in Seq(Positions) /\ Len(SubSeq(t, 1, k)) = k
<1>1. /\ k \in Nat /\ k <= Len(t) /\ Len(t) \in Nat
      /\ NUL \in Positions /\ file \in Seq(Positions)
  BY PositionsAreNaturals DEF TypeOK
<1>2. /\ SubSeq(t, 1, k) \in Seq(Positions)
      /\ Len(SubSeq(t, 1, k)) = IF 1 <= k THEN k - 1 + 1 ELSE 0
  BY <1>1, SubSeqProperties
<1>3. Len(SubSeq(t, 1, k)) = k
  BY <1>1, <1>2
<1>4. QED
  BY <1>1, <1>2, <1>3, WrittenElements

-------------------------------------------------------------------------------
(* What holds whoever writes.                                                *)

RivalType == [pc : RivalStages, cap : Nat, offset : Nat, size : Nat, tail : Seq(Positions)]

LEMMA NoRivalType ==
  ASSUME TypeOK
  PROVE  NoRival \in RivalType /\ Len(NoRival.tail) <= NoRival.cap + Lookback
BY SizesAssumption DEF NoRival, RivalType, RivalStages

LEMMA SteadyInit == Init => Steady
<1> SUFFICES ASSUME Init PROVE Steady
  OBVIOUS
<1>1. Len(stream) \in Nat
  BY StreamsAssumption DEF Init
<1>2. TypeOK
  BY <1>1, SizesAssumption DEF Init, TypeOK, Positions, NoRival, RivalStages
<1>3. QED
  BY <1>2 DEF Init, Steady, NoRival

\* A step of the rival's other than takeOver.
LEMMA RivalSteady ==
  ASSUME Steady,
         \/ \E cap \in RivalCaps(stream) : rivalOpen(cap)
         \/ rivalMeasure \/ rivalRead \/ rivalTruncate \/ rivalRecount \/ rivalEnds
         \/ \E k \in 0 .. Len(rival.tail) : rivalRewrite(k)
  PROVE  Steady'
<1> USE DEF RivalGoes
<1>1. /\ TypeOK /\ rival \in RivalType /\ Len(rival.tail) <= rival.cap + Lookback
      /\ file \in Seq(Positions) /\ Len(file) \in Nat /\ <<>> \in Seq(Positions)
      /\ faults \subseteq {"clear", "full", "torn", "rival"}
      /\ NoRival \in RivalType /\ Len(NoRival.tail) <= NoRival.cap + Lookback
      /\ Lookback \in Nat /\ RivalCaps(stream) \subseteq Nat
  <2>1. TypeOK
    BY DEF Steady
  <2>2. /\ rival \in RivalType /\ Len(rival.tail) <= rival.cap + Lookback
        /\ file \in Seq(Positions) /\ faults \subseteq {"clear", "full", "torn", "rival"}
    BY <2>1 DEF TypeOK, RivalType
  <2>3. Lookback \in Nat /\ RivalCaps(stream) \subseteq Nat
    BY <2>1, SizesAssumption, StreamsAssumption DEF TypeOK
  <2>4. Len(file) \in Nat /\ <<>> \in Seq(Positions)
    BY <2>1, PositionsAreNaturals
  <2>5. QED
    BY <2>1, <2>2, <2>3, <2>4, NoRivalType
<1>2. UNCHANGED <<stream, taken, pc, writerVars>>
  BY DEF rivalOpen, rivalMeasure, rivalRead, rivalTruncate, rivalRewrite, rivalRecount, rivalEnds
<1>3. SUFFICES ASSUME /\ rival' \in RivalType /\ Len(rival'.tail) <= rival'.cap + Lookback
                      /\ file' \in Seq(Positions)
                      /\ faults' \in {faults, faults \cup {"rival"}}
                      /\ rival'.pc = "read" => rival'.size > rival'.cap
                      /\ rival'.pc = "rewrite" => "rival" \in faults'
               PROVE  Steady'
  <2>1. \/ Steady'
        \/ /\ rival' \in RivalType /\ Len(rival'.tail) <= rival'.cap + Lookback
           /\ file' \in Seq(Positions)
           /\ faults' \in {faults, faults \cup {"rival"}}
           /\ rival'.pc = "read" => rival'.size > rival'.cap
           /\ rival'.pc = "rewrite" => "rival" \in faults'
    <3>1. ASSUME NEW cap \in RivalCaps(stream), rivalOpen(cap)
          PROVE  /\ rival' \in RivalType /\ Len(rival'.tail) <= rival'.cap + Lookback
                 /\ rival'.pc = "measure" /\ file' = file /\ faults' = faults
      <4>1. /\ rival' = [pc |-> "measure", cap |-> cap, offset |-> 0, size |-> 0, tail |-> <<>>]
            /\ file' = file /\ faults' = faults
        BY <3>1 DEF rivalOpen, NoRival
      <4>2. cap \in Nat /\ Len(<<>>) = 0 /\ 0 <= cap + Lookback
        BY <1>1
      <4>3. rival' \in RivalType
        BY <1>1, <4>1, <4>2 DEF RivalType, RivalStages
      <4>4. QED
        BY <4>1, <4>2, <4>3
    <3>2. CASE rivalMeasure
      <4> DEFINE next == IF Len(file) > rival.cap THEN "read" ELSE "recount"
      <4>1. /\ rival' = [rival EXCEPT !.pc = next, !.size = Len(file)]
            /\ file' = file /\ faults' = faults
        BY <3>2 DEF rivalMeasure, Measured
      <4>2. /\ rival' \in RivalType /\ rival'.tail = rival.tail /\ rival'.cap = rival.cap
            /\ rival'.size = Len(file) /\ rival'.pc \in {"read", "recount"}
            /\ rival'.pc = "read" => Len(file) > rival.cap
        BY <1>1, <4>1 DEF RivalType, RivalStages
      <4>3. QED
        BY <1>1, <4>1, <4>2
    <3>3. CASE rivalRead /\ OutOfBounds(rival.size, rival.cap)
      BY <1>1, <3>3 DEF rivalRead, NoRival
    <3>4. CASE rivalRead /\ ~OutOfBounds(rival.size, rival.cap)
      <4> DEFINE t == KeptTail(rival.size, rival.cap)
      <4>1. rival' = [rival EXCEPT !.pc = "truncate", !.tail = t] /\ file' = file /\ faults' = faults
        BY <3>4 DEF rivalRead
      <4>2. t \in Seq(Positions) /\ Len(t) <= rival.cap + Lookback
        <5>1. rival.size \in Nat /\ rival.cap \in Nat /\ rival.size > rival.cap
          BY <1>1, <3>4 DEF RivalType, Steady, rivalRead
        <5>2. QED
          BY <1>1, <3>4, <5>1, KeptPart
      <4> HIDE DEF t
      <4>3. QED
        BY <1>1, <4>1, <4>2 DEF RivalType, RivalStages
    <3>5. CASE rivalTruncate
      <4>1. /\ rival' = [rival EXCEPT !.pc = "rewrite"]
            /\ file' = <<>> /\ faults' = faults \cup {"rival"}
        BY <3>5 DEF rivalTruncate, Emptied
      <4>2. QED
        BY <1>1, <4>1 DEF RivalType, RivalStages
    <3>6. ASSUME NEW k \in 0 .. Len(rival.tail), rivalRewrite(k)
          PROVE  /\ rival' \in RivalType /\ Len(rival'.tail) <= rival'.cap + Lookback
                 /\ rival'.pc \in {"closed", "recount"} /\ file' \in Seq(Positions)
                 /\ faults' = faults
      <4>1. /\ file' = Written(file, 0, SubSeq(rival.tail, 1, k)) /\ faults' = faults
            /\ rival' = IF k = Len(rival.tail) THEN [rival EXCEPT !.pc = "recount"] ELSE NoRival
        BY <3>6 DEF rivalRewrite
      <4>2. file' \in Seq(Positions)
        BY <1>1, <4>1, WrittenType DEF RivalType
      <4>3. /\ rival' \in RivalType /\ rival'.pc \in {"closed", "recount"}
            /\ Len(rival'.tail) <= rival'.cap + Lookback
        BY <1>1, <4>1 DEF RivalType, RivalStages, NoRival
      <4>4. QED
        BY <4>1, <4>2, <4>3
    <3>7. CASE rivalRecount
      <4>1. /\ rival' = [pc |-> "opened", cap |-> rival.cap, offset |-> Len(file), size |-> 0,
                         tail |-> <<>>]
            /\ file' = file /\ faults' = faults
        BY <3>7 DEF rivalRecount, NoRival
      <4>2. rival.cap \in Nat /\ Len(<<>>) = 0 /\ 0 <= rival.cap + Lookback
        BY <1>1 DEF RivalType
      <4>3. rival' \in RivalType
        BY <1>1, <4>1, <4>2 DEF RivalType, RivalStages
      <4>4. QED
        BY <1>1, <4>1, <4>2, <4>3
    <3>8. CASE rivalEnds
      BY <1>1, <3>8 DEF rivalEnds, NoRival
    <3>9. QED
      BY <1>1, <3>1, <3>2, <3>3, <3>4, <3>5, <3>6, <3>7, <3>8
  <2>2. QED
    BY <1>3, <2>1
<1>4. Positions' = Positions
  BY <1>2 DEF Positions
<1>5. TypeOK'
  BY <1>1, <1>2, <1>3, <1>4 DEF TypeOK, RivalType, writerVars
<1>6. QED
  BY <1>2, <1>3, <1>5 DEF Steady, writerVars

LEMMA SteadyStep ==
  ASSUME Steady, [Next]_vars
  PROVE  Steady'
<1>1. /\ TypeOK /\ Len(stream) \in Nat /\ Positions \subseteq Nat /\ NUL \in Positions
      /\ file \in Seq(Positions) /\ Len(file) \in Nat /\ <<>> \in Seq(Positions)
      /\ tail \in Seq(Positions) /\ taken \in Nat /\ offset \in Nat /\ current_size \in Nat
      /\ Len(<<>>) <= MaxSize + Lookback /\ MaxSize \in Nat /\ Lookback \in Nat
      /\ NoRival \in RivalType /\ Len(NoRival.tail) <= NoRival.cap + Lookback
      /\ rival \in RivalType
  <2>1. TypeOK
    BY DEF Steady
  <2>2. /\ file \in Seq(Positions) /\ tail \in Seq(Positions) /\ offset \in Nat
        /\ current_size \in Nat /\ rival \in RivalType
    BY <2>1 DEF TypeOK, RivalType
  <2>3. MaxSize \in Nat /\ Lookback \in Nat
    BY <2>1, SizesAssumption, StreamsAssumption DEF TypeOK
  <2>4. Len(file) \in Nat /\ <<>> \in Seq(Positions) /\ Len(<<>>) <= MaxSize + Lookback
    BY <2>1, <2>3, PositionsAreNaturals
  <2>5. QED
    BY <2>1, <2>2, <2>3, <2>4, PositionsAreNaturals, NoRivalType
<1>2. CASE UNCHANGED vars
  BY <1>2 DEF vars, writerVars, Steady, TypeOK, Positions
<1>3. CASE open
  BY <1>3 DEF Steady, TypeOK, Positions, open, writerVars
<1>4. CASE measure
  BY <1>1, <1>4 DEF Steady, TypeOK, Positions, measure, Measured
<1>5. CASE readTail /\ OutOfBounds(size, MaxSize)
  <2>1. ReadStart(size, MaxSize) \in Nat
    BY <1>1, <1>5, CutPlaces DEF Steady, TypeOK, readTail
  <2>2. QED
    BY <1>1, <1>5, <2>1 DEF Steady, TypeOK, Positions, readTail
<1>6. CASE readTail /\ ~OutOfBounds(size, MaxSize)
  <2>1. size \in Nat /\ size > MaxSize
    BY <1>6 DEF Steady, TypeOK, readTail
  <2>2. /\ KeptTail(size, MaxSize) \in Seq(Positions)
        /\ Len(KeptTail(size, MaxSize)) <= MaxSize + Lookback
    BY <1>1, <1>6, <2>1, KeptPart
  <2>3. Len(Seen(size)) \in Nat
    BY <1>1, <2>1, SeenPart
  <2>4. /\ UNCHANGED <<stream, taken, file, opening, current_size, size, rival, faults>>
        /\ pc' = "truncate" /\ offset' = Len(Seen(size)) /\ tail' = KeptTail(size, MaxSize)
    BY <1>6 DEF readTail
  <2>5. QED
    BY <1>1, <2>2, <2>3, <2>4 DEF Steady, TypeOK, Positions
<1>7. CASE truncate
  BY <1>1, <1>7 DEF Steady, TypeOK, Positions, truncate, Emptied
<1>8. ASSUME NEW k \in 0 .. Len(tail), rewrite(k) PROVE Steady'
  <2>1. Written(file, offset, SubSeq(tail, 1, k)) \in Seq(Positions)
    BY <1>1, WrittenType
  <2>2. offset + k \in Nat
    BY <1>1
  <2>3. /\ file' \in Seq(Positions) /\ offset' \in Nat
        /\ UNCHANGED <<stream, taken, opening, current_size, size, tail, rival>>
        /\ pc' \in {"recount", "closed", "idle"} /\ faults' \in {faults, faults \cup {"full"}}
    BY <1>8, <2>1, <2>2 DEF rewrite
  <2>4. QED
    BY <1>1, <2>3 DEF Steady, TypeOK, Positions
<1>9. CASE recount
  BY <1>1, <1>9 DEF Steady, TypeOK, Positions, recount, Recounted
<1>10. CASE clear
  BY <1>1, <1>10 DEF Steady, TypeOK, Positions, clear, writerVars
<1>11. CASE die
  BY <1>1, <1>11 DEF Steady, TypeOK, Positions, die
<1>12. ASSUME NEW n \in 1 .. MaxChunk, NEW k \in 0 .. n, append(n, k) PROVE Steady'
  <2> DEFINE d == Span(taken, taken + k)
  <2>1. n \in Nat /\ k \in Nat /\ k <= n /\ taken + n <= Len(stream)
    BY <1>12, SizesAssumption DEF append
  <2>2. d \in Seq(Positions)
    <3>1. d \in Seq(taken + 1 .. taken + k)
      BY <1>1, <2>1, SpanElements
    <3>2. (taken + 1 .. taken + k) \subseteq Positions
      BY <1>1, <2>1 DEF Positions
    <3>3. QED
      BY <3>1, <3>2, SeqMonotonic
  <2> HIDE DEF d
  <2>3. Written(file, offset, d) \in Seq(Positions)
    BY <1>1, <2>2, WrittenElements
  <2>4. /\ taken + n \in Positions /\ offset + k \in Nat /\ current_size + n \in Nat
    BY <1>1, <2>1 DEF Positions
  <2>5. /\ file' \in Seq(Positions) /\ taken' \in Positions /\ offset' \in Nat
        /\ current_size' \in Nat /\ pc' \in {"idle", "measure"}
        /\ UNCHANGED <<stream, opening, size, tail, rival>>
        /\ faults' \in {faults, faults \cup {"full"}}
    <3>1. file' = Written(file, offset, d)
      BY <1>12 DEF append, d
    <3>2. QED
      BY <1>1, <1>12, <2>3, <2>4, <3>1 DEF append
  <2>6. QED
    BY <1>1, <2>5 DEF Steady, TypeOK, Positions
<1>13. CASE takeOver
  <2>1. rival.offset \in Nat
    BY <1>1 DEF RivalType
  <2>2. /\ UNCHANGED <<stream, taken, file>> /\ pc' = "idle" /\ opening' = FALSE
        /\ offset' = rival.offset /\ current_size' = rival.offset /\ size' = 0 /\ tail' = <<>>
        /\ rival' = NoRival /\ faults' = faults \cup {"rival"}
    BY <1>13 DEF takeOver
  <2>3. Positions' = Positions /\ rival' \in RivalType /\ rival'.pc = "closed"
    BY <1>1, <2>2 DEF Positions, NoRival
  <2>4. QED
    BY <1>1, <2>1, <2>2, <2>3 DEF Steady, TypeOK, RivalType
<1>14. CASE RivalStep /\ ~takeOver
  BY <1>14, RivalSteady DEF RivalStep
<1>15. QED
  BY <1>2, <1>3, <1>4, <1>5, <1>6, <1>7, <1>8, <1>9, <1>10, <1>11, <1>12, <1>13, <1>14 DEF Next

-------------------------------------------------------------------------------
(* What holds until a second daemon disturbs the writer.                     *)

LEMMA InitCalm == Init => Undisturbed
BY EmptyOrdered DEF Init, Undisturbed, SizeInv, OffsetInv, BoundInv, PanicInv

LEMMA OpenCalm == ASSUME Calm, open PROVE Undisturbed'
<1>1. (SizeInv /\ OffsetInv /\ BoundInv /\ PanicInv)'
  BY DEF Calm, Undisturbed, SizeInv, OffsetInv, BoundInv, PanicInv, open, writerVars
<1>2. QED
  BY <1>1 DEF Calm, Undisturbed, open, writerVars

LEMMA MeasureCalm == ASSUME Calm, measure PROVE Undisturbed'
<1>1. Len(file) \in Nat
  BY PositionsAreNaturals DEF Calm, Steady
<1>2. (SizeInv /\ OffsetInv /\ BoundInv /\ PanicInv)'
  BY <1>1, SizesAssumption
     DEF Calm, Undisturbed, SizeInv, OffsetInv, BoundInv, PanicInv, measure, Measured
<1>3. QED
  BY <1>2 DEF Calm, Undisturbed, measure

LEMMA TruncateCalm == ASSUME Calm, truncate PROVE Undisturbed'
<1>1. (SizeInv /\ OffsetInv /\ BoundInv /\ PanicInv)'
  BY DEF Calm, Undisturbed, SizeInv, OffsetInv, BoundInv, PanicInv, truncate, Emptied
<1>2. QED
  BY <1>1, EmptyOrdered DEF Calm, Undisturbed, truncate, Emptied

LEMMA RecountCalm == ASSUME Calm, recount PROVE Undisturbed'
<1>1. (SizeInv /\ OffsetInv /\ BoundInv /\ PanicInv)'
  BY DEF Calm, Undisturbed, SizeInv, OffsetInv, BoundInv, PanicInv, recount, Recounted
<1>2. QED
  BY <1>1, EmptyOrdered DEF Calm, Undisturbed, recount

LEMMA ClearCalm == ASSUME Calm, clear PROVE Undisturbed'
<1>1. (SizeInv /\ OffsetInv /\ BoundInv /\ PanicInv)'
  BY DEF Calm, Undisturbed, SizeInv, OffsetInv, BoundInv, PanicInv, clear, writerVars
<1>2. Ordered(tail', taken', "clear" \in faults')
  <2>1. /\ tail' = tail /\ taken' = taken
        /\ "clear" \in faults => "clear" \in faults'
    BY DEF clear, writerVars
  <2>2. tail \in Seq(Nat) /\ taken \in Nat /\ taken <= taken
    BY PositionsAreNaturals DEF Calm, Steady
  <2>3. Ordered(tail, taken, "clear" \in faults')
    BY <2>1, <2>2, OrderedMonotone DEF Calm, Undisturbed
  <2>4. QED
    BY <2>1, <2>3
<1>3. QED
  BY <1>1, <1>2, EmptyOrdered DEF Undisturbed, clear

LEMMA DieCalm == ASSUME Calm, die PROVE Undisturbed'
<1>1. (SizeInv /\ OffsetInv /\ BoundInv /\ PanicInv)'
  BY DEF Calm, Undisturbed, SizeInv, OffsetInv, BoundInv, PanicInv, die
<1>2. Ordered(file', taken', "clear" \in faults')
  BY PositionsAreNaturals, OrderedMonotone DEF Calm, Steady, Undisturbed, die
<1>3. QED
  BY <1>1, <1>2, EmptyOrdered DEF Undisturbed, die

\* A chunk goes to the end of the file, or behind the filler in a cleared one.
LEMMA AppendCalm ==
  ASSUME Calm, NEW n \in 1 .. MaxChunk, NEW k \in 0 .. n, append(n, k)
  PROVE  Undisturbed'
<1> DEFINE d == Span(taken, taken + k)
<1>1. /\ n \in Nat /\ k \in Nat /\ k <= n /\ n > 0
      /\ taken \in Nat /\ Len(file) \in Nat /\ offset \in Nat /\ current_size \in Nat
      /\ Len(stream) \in Nat /\ taken + n <= Len(stream)
      /\ file \in Seq(Nat) /\ file \in Seq(Positions) /\ NUL \in Positions
      /\ tail \in Seq(Nat)
  BY SizesAssumption, PositionsAreNaturals, SMTT(20) DEF Calm, Steady, TypeOK, append
<1>2. d \in Seq(Positions) /\ Len(d) = k
  <2>1. d \in Seq(taken + 1 .. taken + k) /\ Len(d) = k
    BY <1>1, SpanElements
  <2>2. (taken + 1 .. taken + k) \subseteq Positions
    BY <1>1 DEF Positions
  <2>3. QED
    BY <2>1, <2>2, SeqMonotonic
<1> HIDE DEF d
<1>3. /\ file' = Written(file, offset, d) /\ taken' = taken + n
      /\ offset' = offset + k /\ stream' = stream /\ tail' = tail
  BY DEF append, d
<1>4. offset = Len(file) \/ (file = <<>> /\ "clear" \in faults)
  BY DEF Calm, Undisturbed, OffsetInv, append
<1>5. /\ file' \in Seq(Positions)
      /\ k = 0 => file' = file
      /\ k > 0 => Len(file') = offset + k
  <2>1. /\ Written(file, offset, d) \in Seq(Positions)
        /\ d = <<>> => Written(file, offset, d) = file
        /\ d # <<>> => Len(Written(file, offset, d))
                         = IF offset + Len(d) > Len(file) THEN offset + Len(d) ELSE Len(file)
    BY <1>1, <1>2, WrittenElements
  <2>2. Len(file) <= offset
    BY <1>1, <1>4
  <2>3. d = <<>> <=> k = 0
    BY <1>2, EmptySeq
  <2>4. QED
    BY <1>1, <1>2, <1>3, <2>1, <2>2, <2>3
<1>6. "clear" \in faults' <=> "clear" \in faults
  BY DEF append
<1>8. OffsetInv'
  <2>1. pc' # "rewrite"
    BY DEF append
  <2>2. offset' = Len(file') \/ (file' = <<>> /\ "clear" \in faults')
    BY <1>1, <1>3, <1>4, <1>5, <1>6
  <2>3. QED
    BY <2>1, <2>2 DEF OffsetInv
<1>9. BoundInv'
  <2> SUFFICES ASSUME faults' \subseteq {"torn"}, pc' = "idle"
               PROVE  current_size' = Len(file') /\ Len(file') <= MaxSize + Lookback
    BY DEF BoundInv, append
  <2>1. k = n /\ faults \subseteq {"torn"}
    <3>1. ~(k < n)
      <4>1. k < n => "full" \in faults'
        BY DEF append
      <4>2. "full" \notin faults'
        OBVIOUS
      <4>3. QED
        BY <4>1, <4>2
    <3>2. faults' = faults
      BY <3>1 DEF append
    <3>3. QED
      BY <1>1, <3>1, <3>2
  <2>2. offset = Len(file) /\ current_size = Len(file)
    BY <1>4, <2>1 DEF Calm, Undisturbed, BoundInv, append
  <2>3. current_size' = current_size + n /\ ~(current_size + n > MaxSize)
    BY <1>1, <2>1 DEF append
  <2>4. QED
    BY <1>1, <1>5, <2>1, <2>2, <2>3, SizesAssumption
<1>10. SizeInv' /\ PanicInv'
  BY DEF SizeInv, PanicInv, append
<1>11. Ordered(file', taken', "clear" \in faults')
  <2>1. Ordered(Written(file, offset, Span(taken, taken + k)), taken + n, "clear" \in faults)
    <3>1. /\ taken + n \in Nat /\ taken + k <= taken + n
          /\ Ordered(file, taken, "clear" \in faults)
      BY <1>1 DEF Calm, Undisturbed
    <3>2. QED
      BY <1>1, <1>4, <3>1, OrderedWritten
  <2>2. QED
    BY <1>3, <1>6, <2>1 DEF d
<1>12. Ordered(tail', taken', "clear" \in faults')
  <2>1. Ordered(tail, taken + n, "clear" \in faults)
    <3>1. taken + n \in Nat /\ taken <= taken + n /\ Ordered(tail, taken, "clear" \in faults)
      BY <1>1 DEF Calm, Undisturbed
    <3>2. QED
      BY <1>1, <3>1, OrderedMonotone
  <2>2. QED
    BY <1>3, <1>6, <2>1
<1>13. QED
  BY <1>8, <1>9, <1>10, <1>11, <1>12 DEF Undisturbed

\* Rotation keeps a part of what it read, and reads all it measured or nothing.
LEMMA ReadTailCalm == ASSUME Calm, readTail PROVE Undisturbed'
<1>1. /\ size \in Nat /\ size > MaxSize /\ MaxSize \in Nat /\ Len(file) \in Nat
      /\ TypeOK /\ file \in Seq(Positions) /\ Positions \subseteq Nat
      /\ Len(file) = size \/ (file = <<>> /\ "clear" \in faults)
  BY SizesAssumption, PositionsAreNaturals
     DEF Calm, Steady, Undisturbed, TypeOK, SizeInv, readTail
<1>2. CASE OutOfBounds(size, MaxSize)
  <2>1. "clear" \in faults
    BY <1>1, <1>2, CutPlaces DEF OutOfBounds
  <2>2. (SizeInv /\ OffsetInv /\ BoundInv /\ PanicInv)'
    BY <1>2, <2>1 DEF SizeInv, OffsetInv, BoundInv, PanicInv, readTail
  <2>3. QED
    BY <1>2, <2>2 DEF Calm, Undisturbed, readTail
<1>3. CASE ~OutOfBounds(size, MaxSize)
  <2> DEFINE b     == Buffer(size, MaxSize)
             start == ReadStart(size, MaxSize)
             cut   == safe_trim_start(b, LookbackUsed(size, MaxSize))
             kept  == KeptTail(size, MaxSize)
  <2>1. Seen(size) = file
    <3>1. Len(file) = size
      BY <1>1, <1>3, CutPlaces, EmptySeq DEF OutOfBounds
    <3>2. QED
      BY <1>1, <3>1, SeenPart
  <2>2. /\ start + 1 \in Nat \ {0} /\ start \in Nat
        /\ b = SubSeq(file, start + 1, Len(file)) /\ b \in Seq(Positions) /\ Len(b) \in Nat
        /\ cut \in 0 .. Len(b) /\ kept = SubSeq(b, cut + 1, Len(b))
    BY <1>1, <1>3, <2>1, KeptPart, CutPlaces
  <2>3. /\ tail' = kept /\ pc' = "truncate"
        /\ faults' = faults /\ taken' = taken /\ file' = file
    BY <1>3 DEF readTail
  <2> HIDE DEF b, start, cut, kept
  <2>4. Ordered(b, taken, "clear" \in faults)
    <3>1. Ordered(file, taken, "clear" \in faults) /\ Len(file) <= Len(file)
      BY <1>1 DEF Calm, Undisturbed
    <3>2. QED
      BY <1>1, <2>2, <3>1, OrderedPart
  <2>5. Ordered(tail', taken, "clear" \in faults)
    <3>1. cut + 1 \in Nat \ {0} /\ Len(b) <= Len(b)
      BY <2>2
    <3>2. QED
      BY <1>1, <2>2, <2>3, <2>4, <3>1, OrderedPart
  <2>6. (SizeInv /\ OffsetInv /\ BoundInv /\ PanicInv)'
    BY <2>3 DEF SizeInv, OffsetInv, BoundInv, PanicInv
  <2>7. QED
    BY <2>3, <2>5, <2>6 DEF Calm, Undisturbed
<1>4. QED
  BY <1>2, <1>3

\* What is written back is the tail, or its beginning.
LEMMA RewriteCalm ==
  ASSUME Calm, NEW k \in 0 .. Len(tail), rewrite(k)
  PROVE  Undisturbed'
<1> DEFINE d == SubSeq(tail, 1, k)
<1>1. /\ k \in Nat /\ k <= Len(tail) /\ Len(tail) \in Nat /\ Len(tail) <= MaxSize + Lookback
      /\ tail \in Seq(Positions) /\ Positions \subseteq Nat /\ NUL \in Positions
      /\ taken \in Nat /\ TypeOK
  BY PositionsAreNaturals DEF Calm, Steady, TypeOK
<1>2. /\ d \in Seq(Positions) /\ Len(d) = k
      /\ Ordered(d, taken, "clear" \in faults)
  <2>1. Ordered(tail, taken, "clear" \in faults) /\ 1 \in Nat \ {0}
    BY DEF Calm, Undisturbed
  <2>2. /\ d \in Seq(Positions)
        /\ Len(d) = IF 1 <= k THEN k - 1 + 1 ELSE 0
        /\ Ordered(d, taken, "clear" \in faults)
    BY <1>1, <2>1, OrderedPart
  <2>3. QED
    BY <1>1, <2>2
<1> HIDE DEF d
<1>3. /\ file' = d /\ offset' = k
      /\ taken' = taken /\ tail' = tail
      /\ "clear" \in faults' <=> "clear" \in faults
  <2>1. file = <<>> /\ offset = 0
    BY DEF Calm, Undisturbed, OffsetInv, rewrite
  <2>2. Written(<<>>, 0, d) = d
    BY <1>1, <1>2, WrittenFresh
  <2>3. QED
    BY <1>1, <2>1, <2>2 DEF rewrite, d
<1>4. (SizeInv /\ OffsetInv /\ PanicInv)'
  BY <1>2, <1>3 DEF SizeInv, OffsetInv, PanicInv, rewrite
<1>5. BoundInv'
  BY <1>1, <1>2, <1>3 DEF BoundInv, rewrite
<1>6. QED
  BY <1>2, <1>3, <1>4, <1>5 DEF Calm, Undisturbed

\* A rival that has disturbed nothing yet has changed nothing of the writer's.
LEMMA RivalCalm ==
  ASSUME Steady, RivalStep, "rival" \notin faults'
  PROVE  UNCHANGED <<stream, taken, file, pc, writerVars, faults>>
<1>1. ASSUME NEW k \in 0 .. Len(rival.tail), rivalRewrite(k) PROVE FALSE
  BY <1>1 DEF Steady, rivalRewrite
<1>2. ~rivalTruncate /\ ~takeOver
  BY DEF rivalTruncate, takeOver
<1>3. QED
  BY <1>1, <1>2 DEF RivalStep, rivalOpen, rivalMeasure, rivalRead, rivalRecount, rivalEnds,
     RivalGoes

\* No fault is forgotten.
LEMMA FaultsStay ==
  ASSUME [Next]_vars
  PROVE  faults \subseteq faults'
<1>1. ASSUME NEW n \in 1 .. MaxChunk, NEW k \in 0 .. n, append(n, k)
      PROVE  faults \subseteq faults'
  BY <1>1 DEF append
<1>2. ASSUME NEW k \in 0 .. Len(tail), rewrite(k) PROVE faults \subseteq faults'
  BY <1>2 DEF rewrite
<1>3. ASSUME RivalStep PROVE faults \subseteq faults'
  BY <1>3 DEF RivalStep, rivalOpen, rivalMeasure, rivalRead, rivalTruncate, rivalRewrite,
     rivalRecount, rivalEnds, takeOver
<1>4. QED
  BY <1>1, <1>2, <1>3 DEF Next, open, measure, readTail, truncate, recount, clear, die, vars

LEMMA CalmStep ==
  ASSUME Calm, [Next]_vars, "rival" \notin faults'
  PROVE  Undisturbed'
<1>1. CASE UNCHANGED <<stream, taken, file, pc, writerVars, faults>>
  BY <1>1 DEF writerVars, Calm, Undisturbed, SizeInv, OffsetInv, BoundInv, PanicInv
<1>2. ASSUME NEW n \in 1 .. MaxChunk, NEW k \in 0 .. n, append(n, k) PROVE Undisturbed'
  BY <1>2, AppendCalm
<1>3. ASSUME NEW k \in 0 .. Len(tail), rewrite(k) PROVE Undisturbed'
  BY <1>3, RewriteCalm
<1>4. CASE RivalStep
  BY <1>1, <1>4, RivalCalm DEF Calm
<1>5. QED
  BY <1>1, <1>2, <1>3, <1>4, OpenCalm, MeasureCalm, ReadTailCalm, TruncateCalm, RecountCalm,
     ClearCalm, DieCalm DEF Next, vars

LEMMA Invariance == Spec => []IInv
<1>1. Init => IInv
  BY SteadyInit, InitCalm DEF IInv
<1>2. IInv /\ [Next]_vars => IInv'
  BY SteadyStep, CalmStep, FaultsStay DEF IInv, Calm
<1>3. QED
  BY <1>1, <1>2, PTL DEF Spec

\* The writer's state is well typed, and what rotation keeps passes the cap by
\* Lookback at most.
THEOREM TypeCorrect == Spec => []TypeOK
BY Invariance, PTL DEF IInv, Steady

\* Whatever is cleared, fails or dies, the log is the output in order, nothing
\* twice, and filler is only ever in front of it, after a clear; all that until
\* a second daemon truncates the log under its writer or takes it over.
THEOREM LogInOrder == Spec => []InOrder
<1>1. IInv => InOrder
  BY DEF IInv, Undisturbed, Ordered, InOrder
<1>2. QED
  BY <1>1, Invariance, PTL

\* Between appends the count is the file's length, the offset its end, and the
\* length bounded, however many daemons died on it, in a rotation or not, and
\* however many were started beside it that found the log below their cap.
THEOREM LogBounded == Spec => []CountIsExact
<1>1. IInv => CountIsExact
  BY DEF IInv, Undisturbed, BoundInv, OffsetInv, CountIsExact
<1>2. QED
  BY <1>1, Invariance, PTL

\* The writer thread panics only on a file that `hytch clear` or a second daemon
\* truncated between measure and read.
THEOREM SlicesInBounds == Spec => []PanicNeedsTruncation
<1>1. IInv => PanicNeedsTruncation
  BY DEF IInv, Undisturbed, PanicInv, PanicNeedsTruncation
<1>2. QED
  BY <1>1, Invariance, PTL

-------------------------------------------------------------------------------
(* History: without a fault the file is a last part of the output.            *)

\* What is left out of the newest MaxSize bytes is the rest of a character.
OnlyConts(lo) ==
  \A p \in (IF taken > MaxSize THEN taken - MaxSize + 1 ELSE 1) .. lo : IsCont(p)

\* f is the newest output, and all of it that rotation must keep.
Newest(f) == \E lo \in 0 .. taken : f = Span(lo, taken) /\ OnlyConts(lo)

\* HistoryKept alone says nothing of the tail a rotation holds while the file
\* is empty, nor that the file has no gap where append goes on.
HistInv ==
  faults = {} =>
    /\ pc # "rewrite" => Newest(file)
    /\ pc \in {"truncate", "rewrite"} => Newest(tail)

\* Whether a byte counts as the rest of a character depends on the output only.
LEMMA NewestSame ==
  ASSUME NEW f, Newest(f), stream' = stream, taken' = taken
  PROVE  Newest(f)'
BY DEF Newest, OnlyConts, IsCont, KindAt

LEMMA SpanSize ==
  ASSUME NEW lo \in Nat, NEW hi \in Nat, lo <= hi
  PROVE  /\ Span(lo, hi) \in Seq(Nat) /\ Len(Span(lo, hi)) = hi - lo
         /\ \A i \in 1 .. hi - lo : Span(lo, hi)[i] = lo + i
<1>1. hi - lo \in Nat /\ \A i \in 1 .. hi - lo : lo + i \in Nat
  OBVIOUS
<1>2. QED
  BY <1>1 DEF Span

\* A part of consecutive output.
LEMMA SpanPart ==
  ASSUME NEW lo \in Nat, NEW hi \in Nat, lo <= hi,
         NEW m \in Nat, NEW n \in Nat, m <= n, n <= hi - lo
  PROVE  SubSeq(Span(lo, hi), m + 1, n) = Span(lo + m, lo + n)
<1> DEFINE s == Span(lo, hi)
           t == Span(lo + m, lo + n)
           u == SubSeq(s, m + 1, n)
<1>1. s \in Seq(Nat) /\ Len(s) = hi - lo /\ \A i \in 1 .. hi - lo : s[i] = lo + i
  BY SpanSize
<1>2. t \in Seq(Nat) /\ Len(t) = n - m /\ \A i \in 1 .. n - m : t[i] = lo + m + i
  <2>1. /\ lo + m \in Nat /\ lo + n \in Nat /\ lo + m <= lo + n
        /\ (lo + n) - (lo + m) = n - m
    OBVIOUS
  <2>2. QED
    BY <2>1, SpanSize
<1> HIDE DEF s, t
<1>3. u \in Seq(Nat) /\ Len(u) = n - m /\ \A i \in 1 .. n - m : u[i] = s[m + i]
  <2>1. /\ u = [i \in 1 .. n - (m + 1) + 1 |-> s[i + (m + 1) - 1]]
        /\ n - (m + 1) + 1 = n - m /\ n - m \in Nat
    BY DEF u
  <2>2. \A i \in 1 .. n - m : i + (m + 1) - 1 = m + i /\ m + i \in 1 .. Len(s)
    BY <1>1
  <2>3. \A i \in 1 .. n - m : s[m + i] \in Nat
    BY <1>1, <2>2
  <2>4. u = [i \in 1 .. n - m |-> s[m + i]]
    BY <2>1, <2>2
  <2> HIDE DEF u
  <2>5. QED
    BY <2>1, <2>3, <2>4
<1> HIDE DEF u
<1>4. \A i \in 1 .. Len(u) : u[i] = t[i]
  <2>1. ASSUME NEW i \in 1 .. n - m PROVE u[i] = t[i]
    <3>1. m + i \in 1 .. hi - lo /\ lo + (m + i) = lo + m + i
      OBVIOUS
    <3>2. QED
      BY <1>1, <1>2, <1>3, <3>1
  <2>2. QED
    BY <1>3, <2>1
<1>5. u = t
  BY <1>2, <1>3, <1>4, SeqEqual
<1>6. QED
  BY <1>5 DEF s, t, u

\* Output written at the end of consecutive output.
LEMMA SpanWritten ==
  ASSUME NEW lo \in Nat, NEW hi \in Nat, lo <= hi, NEW n \in Nat, n > 0
  PROVE  Written(Span(lo, hi), hi - lo, Span(hi, hi + n)) = Span(lo, hi + n)
<1> DEFINE f == Span(lo, hi)
           d == Span(hi, hi + n)
           t == Span(lo, hi + n)
           at == hi - lo
           w == Written(f, at, d)
<1>1. f \in Seq(Nat) /\ Len(f) = at /\ at \in Nat /\ \A i \in 1 .. at : f[i] = lo + i
  BY SpanSize
<1>2. d \in Seq(Nat) /\ Len(d) = n /\ \A i \in 1 .. n : d[i] = hi + i
  <2>1. hi + n \in Nat /\ hi <= hi + n /\ (hi + n) - hi = n
    OBVIOUS
  <2>2. QED
    BY <2>1, SpanSize
<1>3. t \in Seq(Nat) /\ Len(t) = at + n /\ \A i \in 1 .. at + n : t[i] = lo + i
  <2>1. hi + n \in Nat /\ lo <= hi + n /\ (hi + n) - lo = at + n
    OBVIOUS
  <2>2. QED
    BY <2>1, SpanSize
<1>4. d # <<>>
  BY <1>2, EmptySeq
<1> HIDE DEF f, d, t
<1>5. /\ w \in Seq(Nat) /\ Len(w) = IF at + Len(d) > Len(f) THEN at + Len(d) ELSE Len(f)
      /\ \A i \in 1 .. Len(w) :
           w[i] = IF i > at /\ i <= at + Len(d) THEN d[i - at]
                  ELSE IF i <= Len(f) THEN f[i] ELSE NUL
  <2>1. NUL \in Nat
    BY DEF NUL
  <2>2. f \in Seq(Nat) /\ at \in Nat /\ d \in Seq(Nat) /\ d # <<>>
    BY <1>1, <1>2, <1>4
  <2> HIDE DEF at
  <2>3. QED
    BY ONLY <2>1, <2>2, WrittenElements, SMTT(20)
<1> HIDE DEF w
<1>6. Len(w) = at + n
  BY <1>1, <1>2, <1>5
<1>7. ASSUME NEW i \in 1 .. Len(w) PROVE w[i] = t[i]
  <2>1. CASE i <= at
    <3>1. i \in 1 .. at /\ ~(i > at)
      BY <1>1, <1>6, <2>1
    <3>2. w[i] = f[i]
      BY <1>1, <1>5, <3>1
    <3>3. QED
      BY <1>1, <1>3, <1>6, <3>1, <3>2
  <2>2. CASE i > at
    <3>1. i - at \in 1 .. n /\ i <= at + n /\ hi + (i - at) = lo + i
      BY <1>1, <1>6, <2>2
    <3>2. w[i] = d[i - at]
      BY <1>2, <1>5, <2>2, <3>1
    <3>3. QED
      BY <1>2, <1>3, <1>6, <3>1, <3>2
  <2>3. QED
    BY <1>1, <1>6, <2>1, <2>2
<1>8. w = t
  BY <1>3, <1>5, <1>6, <1>7, SeqEqual
<1>9. QED
  BY <1>8 DEF w, t, f, d

\* A chunk written whole continues the history.
LEMMA AppendHistory ==
  ASSUME Calm, HistInv, NEW n \in 1 .. MaxChunk, NEW k \in 0 .. n, append(n, k)
  PROVE  HistInv'
<1> SUFFICES ASSUME faults' = {} PROVE Newest(file)'
  BY DEF HistInv, append
<1>1. /\ k = n /\ faults = {} /\ n \in Nat /\ n > 0
  <2>1. ~(k < n) /\ k \in Nat /\ n \in Nat /\ n > 0 /\ k <= n
    BY SizesAssumption DEF append
  <2>2. QED
    BY <2>1 DEF append
<1>2. /\ taken \in Nat /\ taken' = taken + n /\ stream' = stream /\ offset = Len(file)
      /\ file' = Written(file, offset, Span(taken, taken + n))
  BY <1>1, PositionsAreNaturals DEF Calm, Steady, Undisturbed, OffsetInv, append
<1>3. PICK lo \in 0 .. taken : file = Span(lo, taken) /\ OnlyConts(lo)
  BY <1>1 DEF HistInv, Newest, append
<1>4. lo \in Nat /\ lo <= taken
  BY <1>2
<1>5. file' = Span(lo, taken + n)
  <2>1. Len(file) = taken - lo
    BY <1>2, <1>3, <1>4, SpanSize
  <2>2. taken \in Nat /\ n \in Nat /\ n > 0
    BY <1>1, <1>2
  <2>3. Written(Span(lo, taken), taken - lo, Span(taken, taken + n)) = Span(lo, taken + n)
    BY ONLY <1>4, <2>2, SpanWritten
  <2>4. QED
    BY <1>2, <1>3, <2>1, <2>3
<1>6. OnlyConts(lo)'
  <2> DEFINE from  == IF taken > MaxSize THEN taken - MaxSize + 1 ELSE 1
             from2 == IF taken' > MaxSize THEN taken' - MaxSize + 1 ELSE 1
  <2>1. from <= from2 /\ from \in Nat /\ from2 \in Nat
    BY <1>1, <1>2, SizesAssumption
  <2>2. \A p \in from .. lo : IsCont(p)
    BY <1>3 DEF OnlyConts
  <2> HIDE DEF from, from2
  <2>3. \A p \in from2 .. lo : p \in from .. lo
    BY <2>1
  <2>4. \A p \in from2 .. lo : IsCont(p)
    BY <2>2, <2>3
  <2>5. QED
    BY <1>2, <2>4 DEF OnlyConts, IsCont, KindAt, from2
<1>7. QED
  BY <1>1, <1>2, <1>3, <1>5, <1>6 DEF Newest

\* Rotation keeps the newest MaxSize bytes, and more when an escape sequence
\* would be cut; when a character would, it drops the rest of it.
LEMMA ReadTailHistory ==
  ASSUME Calm, HistInv, readTail
  PROVE  HistInv'
<1> SUFFICES ASSUME faults' = {} PROVE Newest(file)' /\ (pc' = "truncate" => Newest(tail)')
  BY DEF HistInv, readTail
<1>1. /\ faults = {} /\ pc = "read" /\ UNCHANGED <<stream, taken, file>>
  BY DEF readTail
<1>2. PICK lo \in 0 .. taken : file = Span(lo, taken) /\ OnlyConts(lo)
  BY <1>1 DEF HistInv, Newest
<1>3. /\ MaxSize \in Nat /\ MaxSize > 0 /\ Lookback \in Nat /\ taken \in Nat /\ lo \in Nat
      /\ lo <= taken /\ size = taken - lo /\ size > MaxSize /\ Len(file) = size
      /\ size \in Nat
  <2>1. taken \in Nat /\ lo \in Nat /\ lo <= taken
    BY PositionsAreNaturals DEF Calm, Steady
  <2>2. Len(file) = taken - lo
    BY <1>2, <2>1, SpanSize
  <2>3. Len(file) = size /\ size > MaxSize
    BY <1>1 DEF Calm, Steady, Undisturbed, SizeInv
  <2>4. QED
    BY <2>1, <2>2, <2>3, SizesAssumption
<1> DEFINE start == ReadStart(size, MaxSize)
           naive == LookbackUsed(size, MaxSize)
           b     == Buffer(size, MaxSize)
           cut   == safe_trim_start(b, naive)
           low   == lo + start
           new   == low + cut
<1>4. /\ start \in Nat /\ naive \in Nat /\ start + naive = size - MaxSize
      /\ ~OutOfBounds(size, MaxSize) /\ Seen(size) = file
  <2>1. TypeOK
    BY DEF Calm, Steady
  <2>2. Seen(size) = file
    BY <1>3, <2>1, SeenPart
  <2>3. QED
    BY <1>3, <2>2, CutPlaces DEF OutOfBounds
<1>5. Newest(file)'
  BY <1>1, <1>2, NewestSame DEF Newest
<1>6. /\ b = Span(low, taken) /\ cut \in 0 .. Len(b)
      /\ tail' = SubSeq(b, cut + 1, Len(b))
  <2>1. /\ b = SubSeq(file, start + 1, size) /\ cut \in 0 .. Len(b)
        /\ KeptTail(size, MaxSize) = SubSeq(b, cut + 1, Len(b))
    <3>1. TypeOK /\ MaxSize \in Nat /\ size \in Nat /\ size > MaxSize /\ Len(file) = size
      BY <1>3 DEF Calm, Steady
    <3>2. QED
      BY <1>4, <3>1, KeptPart
  <2>2. tail' = KeptTail(size, MaxSize)
    BY <1>4 DEF readTail
  <2> HIDE DEF b, cut, start, naive
  <2>3. SubSeq(Span(lo, taken), start + 1, size) = Span(lo + start, lo + size)
    <3>1. /\ lo \in Nat /\ taken \in Nat /\ lo <= taken /\ start \in Nat /\ size \in Nat
          /\ start <= size /\ size <= taken - lo
      BY <1>3, <1>4, SMTT(20)
    <3>2. QED
      BY ONLY <3>1, SpanPart
  <2>4. lo + size = taken
    BY <1>3
  <2>5. QED
    BY <1>2, <2>1, <2>2, <2>3, <2>4
<1> HIDE DEF b, start, naive
<1>7. /\ low \in Nat /\ low <= taken /\ Len(b) = taken - low /\ Len(b) \in Nat
      /\ \A i \in 1 .. taken - low : b[i] = low + i
      /\ low + naive = taken - MaxSize /\ naive \in 0 .. Len(b)
  <2>1. low \in Nat /\ low <= taken /\ low + naive = taken - MaxSize
    BY <1>3, <1>4
  <2> HIDE DEF low
  <2>2. Len(b) = taken - low /\ \A i \in 1 .. taken - low : b[i] = low + i
    BY <1>3, <1>6, <2>1, SpanSize
  <2>3. QED
    BY <1>3, <1>4, <2>1, <2>2
<1> HIDE DEF low
<1>8. cut \in 0 .. Len(b) /\ \A i \in naive + 1 .. cut : IsCont(b[i])
  BY <1>7, CutInRange
<1> HIDE DEF cut
<1>9. tail' = SubSeq(b, cut + 1, Len(b))
  BY <1>6 DEF cut
<1>10. tail' = Span(new, taken) /\ new \in 0 .. taken
  <2>1. /\ cut \in Nat /\ cut <= Len(b) /\ Len(b) <= taken - low
        /\ low + Len(b) = taken /\ taken \in Nat
    BY <1>3, <1>7, <1>8
  <2>2. SubSeq(Span(low, taken), cut + 1, Len(b)) = Span(low + cut, low + Len(b))
    <3>1. low \in Nat /\ low <= taken /\ Len(b) \in Nat
      BY <1>7
    <3>2. QED
      BY ONLY <2>1, <3>1, SpanPart, ZenonT(40)
  <2>3. QED
    BY <1>3, <1>6, <1>7, <1>9, <2>1, <2>2
<1>11. OnlyConts(new)
  <2> SUFFICES ASSUME NEW p \in taken - MaxSize + 1 .. new PROVE IsCont(p)
    BY <1>3 DEF OnlyConts
  <2>1. p - low \in naive + 1 .. cut /\ p - low \in 1 .. taken - low
        /\ low + (p - low) = p
    BY <1>3, <1>4, <1>7, <1>8, <1>10
  <2>2. b[p - low] = p
    BY <1>7, <2>1
  <2>3. QED
    BY <1>8, <2>1, <2>2
<1>12. Newest(tail')
  BY <1>10, <1>11 DEF Newest
<1>13. Newest(tail)'
  BY <1>1, <1>10, <1>11 DEF Newest, OnlyConts, IsCont, KindAt
<1>14. QED
  BY <1>5, <1>13

\* The other steps leave the file, or put back the tail.
LEMMA RestHistory ==
  ASSUME Calm, HistInv,
         \/ open \/ measure \/ truncate \/ recount \/ clear \/ die
         \/ \E k \in 0 .. Len(tail) : rewrite(k)
         \/ UNCHANGED <<stream, taken, file, pc, writerVars, faults>>
  PROVE  HistInv'
<1>1. UNCHANGED <<stream, taken>> /\ (faults' = {} => faults = {})
  BY DEF open, measure, truncate, recount, clear, die, rewrite, writerVars
<1>2. ASSUME faults' = {}, open \/ measure \/ recount
                                 \/ UNCHANGED <<stream, taken, file, pc, writerVars, faults>>
      PROVE  HistInv'
  <2>1. /\ file' = file /\ (pc' # "truncate" \/ (pc' = pc /\ tail' = tail))
        /\ pc' = "rewrite" => pc' = pc /\ tail' = tail
        /\ pc' # "rewrite" => pc # "rewrite"
    BY <1>2 DEF open, measure, recount, writerVars
  <2>2. Newest(file) => Newest(file)'
    BY <1>1, <1>2, NewestSame DEF open, measure, recount, Newest, OnlyConts, IsCont, KindAt
  <2>3. (pc' \in {"truncate", "rewrite"} /\ Newest(tail)) => Newest(tail)'
    BY <1>1, <2>1 DEF Newest, OnlyConts, IsCont, KindAt
  <2>4. QED
    BY <1>1, <1>2, <2>1, <2>2, <2>3 DEF HistInv
<1>3. ASSUME faults' = {}, truncate PROVE HistInv'
  <2>1. Newest(tail)' /\ pc' = "rewrite"
    BY <1>1, <1>3 DEF HistInv, truncate, Newest, OnlyConts, IsCont, KindAt
  <2>2. QED
    BY <2>1 DEF HistInv
<1>4. ASSUME faults' = {}, die PROVE HistInv'
  <2>1. pc # "rewrite" /\ pc' = "closed" /\ file' = file
    BY <1>4 DEF die
  <2>2. Newest(file)'
    BY <1>1, <1>4, <2>1 DEF HistInv, Newest, OnlyConts, IsCont, KindAt
  <2>3. QED
    BY <2>1, <2>2 DEF HistInv
<1>5. ASSUME faults' = {}, NEW k \in 0 .. Len(tail), rewrite(k) PROVE HistInv'
  <2>1. k = Len(tail) /\ pc' = "recount" /\ tail \in Seq(Positions) /\ NUL \in Positions
        /\ Positions \subseteq Nat
    BY <1>5, PositionsAreNaturals DEF Calm, Steady, TypeOK, rewrite
  <2>2. file' = Written(<<>>, 0, SubSeq(tail, 1, Len(tail)))
    BY <1>5, <2>1 DEF Calm, Undisturbed, OffsetInv, rewrite
  <2>3. SubSeq(tail, 1, Len(tail)) = tail
    BY <2>1
  <2>4. file' = tail
    BY <2>1, <2>2, <2>3, WrittenFresh
  <2>5. Newest(file)'
    BY <1>1, <1>5, <2>4 DEF HistInv, rewrite, Newest, OnlyConts, IsCont, KindAt
  <2>6. QED
    BY <2>1, <2>5 DEF HistInv
<1>6. ASSUME clear PROVE HistInv'
  BY <1>6 DEF clear, HistInv
<1>7. faults' # {} => HistInv'
  BY DEF HistInv
<1>8. QED
  BY <1>2, <1>3, <1>4, <1>5, <1>6, <1>7

LEMMA HistoryInvariance == Spec => []HistInv
<1>1. Init => HistInv
  <2> SUFFICES ASSUME Init PROVE Newest(file)
    BY DEF HistInv, Init
  <2>1. taken = 0 /\ file = <<>>
    BY DEF Init
  <2>2. Span(0, 0) = <<>> /\ OnlyConts(0)
    BY <2>1, SizesAssumption DEF Span, OnlyConts
  <2>3. QED
    BY <2>1, <2>2 DEF Newest
<1>2. IInv /\ HistInv /\ [Next]_vars => HistInv'
  <2> SUFFICES ASSUME IInv, HistInv, [Next]_vars PROVE HistInv'
    OBVIOUS
  <2>1. CASE faults' # {}
    BY <2>1 DEF HistInv
  <2>2. CASE faults' = {}
    <3>1. Calm /\ "rival" \notin faults'
      BY <2>2, FaultsStay DEF IInv, Calm
    <3>2. CASE RivalStep
      BY <3>1, <3>2, RivalCalm, RestHistory DEF Calm
    <3>3. QED
      BY <3>1, <3>2, AppendHistory, ReadTailHistory, RestHistory DEF Next, vars
  <2>3. QED
    BY <2>1, <2>2
<1>3. QED
  BY <1>1, <1>2, Invariance, PTL DEF Spec

\* For every cap, window and output: while nobody clears the log, the disk has
\* room, no daemon dies in the middle of a rewrite and no second one truncates
\* the log or takes it over, the newest MaxSize bytes are in the log after every
\* append, rotation and restart.
THEOREM RotationKeepsHistory == Spec => []HistoryKept
<1>1. IInv /\ HistInv => HistoryKept
  <2> SUFFICES ASSUME IInv, HistInv, faults = {}, pc # "rewrite" PROVE Kept
    BY DEF HistoryKept
  <2> DEFINE from == IF taken > MaxSize THEN taken - MaxSize + 1 ELSE 1
  <2>1. PICK lo \in 0 .. taken : file = Span(lo, taken) /\ OnlyConts(lo)
    BY DEF HistInv, Newest
  <2>2. taken \in Nat /\ from \in Nat \ {0}
    BY PositionsAreNaturals, SizesAssumption DEF IInv, Steady
  <2>3. Len(file) = taken - lo /\ \A i \in 1 .. taken - lo : file[i] = lo + i
    <3>1. lo \in Nat /\ lo <= taken
      BY <2>2
    <3>2. QED
      BY <2>1, <2>2, <3>1, SpanSize
  <2>4. \A q \in from .. lo : IsCont(q)
    BY <2>1 DEF OnlyConts
  <2> HIDE DEF from
  <2>5. ASSUME NEW p \in from .. taken
        PROVE  \/ \E i \in 1 .. Len(file) : file[i] = p
               \/ \A q \in from .. p : IsCont(q)
    <3>1. CASE p > lo
      <4>1. p - lo \in 1 .. taken - lo /\ lo + (p - lo) = p
        BY <2>2, <3>1
      <4>2. QED
        BY <2>3, <4>1
    <3>2. CASE p <= lo
      <4>1. \A q \in from .. p : q \in from .. lo
        BY <2>2, <3>2
      <4>2. QED
        BY <2>4, <4>1
    <3>3. QED
      BY <2>2, <3>1, <3>2
  <2>6. QED
    BY <2>5 DEF Kept, from
<1>2. QED
  BY <1>1, HistoryInvariance, Invariance, PTL

-------------------------------------------------------------------------------
(* Where rotation may cut well-formed output.                                 *)

\* Every byte belongs to what the last starting byte before it begins.
LEMMA BeginningExists ==
  ASSUME NEW s \in Seq(Byte), WellFormed(s), NEW p \in 1 .. Len(s)
  PROVE  \E q \in 1 .. p : s[q] \in Starts /\ \A r \in q + 1 .. p : s[r] \notin Starts
<1> DEFINE T == {q \in 1 .. p : s[q] \in Starts}
<1>1. p \in Nat /\ 1 \in 1 .. p /\ s # <<>>
  BY EmptySeq
<1>2. 1 \in T
  BY <1>1 DEF WellFormed
<1>3. PICK q \in T : \A r \in T : r <= q
  <2>1. T \subseteq 1 .. p /\ T # {}
    BY <1>2
  <2> HIDE DEF T
  <2>2. QED
    BY <1>1, <2>1, GreatestNatural
<1>4. ASSUME NEW r \in q + 1 .. p PROVE s[r] \notin Starts
  <2>1. r \in 1 .. p /\ ~(r <= q)
    OBVIOUS
  <2>2. r \notin T
    BY <1>3, <2>1
  <2>3. QED
    BY <2>1, <2>2
<1>5. QED
  BY <1>3, <1>4

\* What a byte that is no start and no rest of a character belongs to is an
\* escape sequence, complete at that byte at the earliest.
LEMMA InsideSequence ==
  ASSUME NEW s \in Seq(Byte), WellFormed(s), NEW q \in 1 .. Len(s), NEW p \in 1 .. Len(s),
         q < p, s[q] \in Starts, \A r \in q + 1 .. p : s[r] \notin Starts, s[p] # "cont"
  PROVE  /\ s[q] = "esc" /\ p - q <= Lookback
         /\ q + 1 < p => s[q + 1] = "bracket"
         /\ \A r \in q + 2 .. p - 1 : s[r] = "digit"
<1>1. q \in Nat /\ p \in Nat /\ Len(s) \in Nat
  OBVIOUS
<1>2. \A r \in 1 .. Len(s) : s[r] \in Byte
  OBVIOUS
<1>3. ASSUME NEW r \in q + 1 .. p
      PROVE  /\ r \in 1 .. Len(s) /\ r - 1 \in 1 .. Len(s)
             /\ s[r] \in Followers(s[r - 1]) /\ s[r] \notin Starts
  <2>1. r \in 2 .. Len(s) /\ r \in 1 .. Len(s) /\ r - 1 \in 1 .. Len(s)
    BY <1>1
  <2>2. QED
    BY <2>1 DEF WellFormed
\* Behind each kind, what does not start anything.
<1>4. \A k \in Byte : \A j \in Followers(k) : j \notin Starts =>
        /\ k \notin {"letter", "final"}
        /\ k \in {"lead", "cont"} => j = "cont"
        /\ k = "esc" => j \in {"bracket", "final"}
        /\ k \in {"bracket", "digit"} => j \in {"digit", "final"}
  BY DEF Followers, Byte, Starts
<1>5. \A r \in q + 1 .. p :
        /\ s[r - 1] \notin {"letter", "final"}
        /\ s[r - 1] \in {"lead", "cont"} => s[r] = "cont"
        /\ s[r - 1] = "esc" => s[r] \in {"bracket", "final"}
        /\ s[r - 1] \in {"bracket", "digit"} => s[r] \in {"digit", "final"}
  BY <1>2, <1>3, <1>4
<1>6. q + 1 \in q + 1 .. p /\ q + 1 - 1 = q
  BY <1>1
<1>7. s[q] # "lead"
  <2> SUFFICES ASSUME s[q] = "lead" PROVE FALSE
    OBVIOUS
  <2> DEFINE T == {r \in q + 1 .. p : s[r] # "cont"}
  <2>1. p \in T /\ T \subseteq Nat
    BY <1>1
  <2>2. PICK r \in T : \A x \in T : r <= x
    BY <2>1, LeastNatural
  <2>3. s[r - 1] \in {"lead", "cont"}
    <3>1. CASE r = q + 1
      BY <1>6, <3>1
    <3>2. CASE r # q + 1
      <4>1. r - 1 \in q + 1 .. p /\ ~(r <= r - 1)
        BY <1>1, <2>1, <3>2
      <4>2. r - 1 \notin T
        <5> HIDE DEF T
        <5>1. QED
          BY <2>2, <4>1
      <4>3. QED
        BY <4>1, <4>2
    <3>3. QED
      BY <3>1, <3>2
  <2>4. QED
    BY <1>5, <2>3
<1>8. s[q] = "esc"
  <2>1. \A r \in q + 1 .. p : r - 1 = q => s[q] \notin {"letter", "final"}
    BY <1>5
  <2>2. s[q] \notin {"letter", "final"}
    BY ONLY <1>6, <2>1
  <2>3. QED
    BY <1>7, <2>2 DEF Starts
<1>9. p - q <= Lookback
  BY <1>8 DEF WellFormed
<1>10. ASSUME q + 1 < p PROVE s[q + 1] = "bracket"
  <2>1. s[q + 1] \in {"bracket", "final"}
    BY <1>5, <1>6, <1>8
  <2>2. q + 2 \in q + 1 .. p /\ q + 2 - 1 = q + 1
    BY <1>1, <1>10
  <2>3. s[q + 1] # "final"
    <3>1. \A r \in q + 1 .. p : r - 1 = q + 1 => s[q + 1] \notin {"letter", "final"}
      BY <1>5
    <3>2. QED
      BY ONLY <2>2, <3>1
  <2>4. QED
    BY <2>1, <2>3
<1>11. ASSUME NEW z \in q + 2 .. p - 1 PROVE s[z] = "digit"
  <2> SUFFICES ASSUME s[z] # "digit" PROVE FALSE
    OBVIOUS
  <2> DEFINE T == {r \in q + 2 .. p - 1 : s[r] # "digit"}
  <2>1. z \in T /\ T \subseteq Nat
    BY <1>1
  <2>2. PICK r \in T : \A x \in T : r <= x
    BY <2>1, LeastNatural
  <2>3. s[r - 1] \in {"bracket", "digit"}
    <3>1. CASE r = q + 2
      <4>1. q + 1 < p /\ r - 1 = q + 1
        BY <1>1, <3>1
      <4>2. QED
        BY <1>10, <4>1
    <3>2. CASE r # q + 2
      <4>1. r - 1 \in q + 2 .. p - 1 /\ ~(r <= r - 1)
        BY <1>1, <2>1, <3>2
      <4>2. r - 1 \notin T
        <5> HIDE DEF T
        <5>1. QED
          BY <2>2, <4>1
      <4>3. QED
        BY <4>1, <4>2
    <3>3. QED
      BY <3>1, <3>2
  <2>4. /\ r \in q + 1 .. p /\ r + 1 \in q + 1 .. p /\ (r + 1) - 1 = r
    BY <1>1
  <2>5. s[r] \in {"digit", "final"} /\ s[r] # "final"
    BY <1>5, <2>3, <2>4
  <2>6. QED
    BY <2>5
<1>12. QED
  BY <1>8, <1>9, <1>10, <1>11

\* A cut of what rotation has read does not begin inside a character or an
\* escape sequence that begins in what it drops: behind a naive cut inside a
\* sequence its ESC is in the window, and unterminated.
LEMMA CutSafe ==
  ASSUME TypeOK, WellFormed(stream), NEW sz \in Nat, NEW cap \in Nat, sz > cap,
         ~OutOfBounds(sz, cap)
  PROVE  SafeCut(Seen(sz), Len(Seen(sz)) - Len(KeptTail(sz, cap)))
<1> DEFINE f     == Seen(sz)
           start == ReadStart(sz, cap)
           naive == LookbackUsed(sz, cap)
           b     == Buffer(sz, cap)
           cut   == safe_trim_start(b, naive)
           kept  == KeptTail(sz, cap)
           n     == start + cut
<1>1. /\ Lookback \in Nat /\ Lookback > 0
      /\ f \in Seq(Positions) /\ Positions \subseteq Nat /\ Len(f) \in Nat
      /\ stream \in Seq(Byte) /\ Len(stream) \in Nat
  <2>1. stream \in Seq(Byte)
    BY StreamsAssumption DEF TypeOK
  <2>2. QED
    BY <2>1, SizesAssumption, PositionsAreNaturals, SeenPart
<1>2. /\ naive \in Nat /\ start \in Nat /\ start + naive = sz - cap
      /\ \A d \in Nat : d <= Lookback /\ d <= start + naive => d <= naive
  BY CutPlaces
<1>3. start <= Len(f) /\ Len(kept) = Len(b) - cut
  BY KeptPart
<1>4. /\ b \in Seq(Positions) /\ Len(b) = Len(f) - start /\ Len(b) \in Nat
      /\ \A i \in 1 .. Len(b) : b[i] = f[start + i]
  BY KeptPart
<1>5. cut \in 0 .. Len(b) /\ naive \in 0 .. Len(b)
  BY KeptPart
<1> HIDE DEF f, start, naive, b, cut, kept
<1>6. Len(f) - Len(kept) = n /\ n \in 0 .. Len(f)
  BY <1>1, <1>2, <1>3, <1>4, <1>5
<1>7. SUFFICES ASSUME n < Len(f), f[n + 1] # NUL
               PROVE  LET p     == f[n + 1]
                          First(q) == KindAt(q) \in Starts
                          begin == CHOOSE q \in 1 .. p :
                                     First(q) /\ \A r \in q + 1 .. p : ~First(r)
                      IN  \/ begin = p \/ n < p - begin
                          \/ SubSeq(f, n - (p - begin) + 1, n) # Span(begin - 1, p - 1)
  <2>1. SafeCut(f, n)
    BY <1>7 DEF SafeCut
  <2>2. QED
    BY <1>6, <2>1 DEF f, kept
<1> DEFINE p     == f[n + 1]
           First(q) == KindAt(q) \in Starts
           begin == CHOOSE q \in 1 .. p : First(q) /\ \A r \in q + 1 .. p : ~First(r)
           d     == p - begin
<1>8. p \in 1 .. Len(stream) /\ p \in Nat /\ n \in Nat
  <2>1. n + 1 \in 1 .. Len(f)
    BY <1>1, <1>6, <1>7
  <2>2. p \in Positions /\ p # NUL
    BY <1>1, <1>7, <2>1
  <2>3. QED
    BY <1>1, <1>6, <2>2 DEF Positions, NUL
<1>9. \A q \in 1 .. p : KindAt(q) = stream[q]
  BY <1>8 DEF KindAt, NUL
<1>10. /\ begin \in 1 .. p /\ stream[begin] \in Starts
       /\ \A r \in begin + 1 .. p : stream[r] \notin Starts
  <2>1. \E q \in 1 .. p : stream[q] \in Starts /\ \A r \in q + 1 .. p : stream[r] \notin Starts
    BY <1>1, <1>8, BeginningExists
  <2>2. \A q \in 1 .. p : \A r \in q + 1 .. p : r \in 1 .. p
    BY <1>8
  <2> HIDE DEF p
  <2>3. \E q \in 1 .. p : First(q) /\ \A r \in q + 1 .. p : ~First(r)
    BY <1>9, <2>1, <2>2
  <2>4. begin \in 1 .. p /\ First(begin) /\ \A r \in begin + 1 .. p : ~First(r)
    BY <2>3
  <2> HIDE DEF begin
  <2>5. QED
    BY <1>9, <2>2, <2>4
<1> HIDE DEF p, begin
<1>11. SUFFICES ASSUME begin # p, ~(n < d), SubSeq(f, n - d + 1, n) = Span(begin - 1, p - 1)
                PROVE  FALSE
  BY DEF p, begin
<1>12. /\ begin \in Nat \ {0} /\ p \in Nat /\ begin < p /\ d \in Nat \ {0} /\ d <= n
       /\ begin + d = p
  BY <1>8, <1>10, <1>11
\* The file holds the sequence from its beginning up to the cut.
<1>13. \A i \in 1 .. d : f[n - d + i] = begin - 1 + i
  <2>1. /\ begin - 1 \in Nat /\ p - 1 \in Nat /\ begin - 1 <= p - 1
        /\ (p - 1) - (begin - 1) = d
    BY <1>12
  <2>2. \A i \in 1 .. d : Span(begin - 1, p - 1)[i] = begin - 1 + i
    BY <2>1, SpanSize
  <2>3. n - d + 1 \in Nat \ {0} /\ n \in Nat /\ n <= Len(f) /\ n - (n - d + 1) + 1 = d
    <3>1. n \in Nat /\ n <= Len(f) /\ d \in Nat \ {0} /\ d <= n
      BY <1>6, <1>8, <1>12
    <3> HIDE DEF n, d
    <3>2. QED
      BY ONLY <3>1
  <2>4. \A i \in 1 .. d : SubSeq(f, n - d + 1, n)[i] = f[n - d + 1 + i - 1]
    <3> DEFINE lo == n - d + 1
    <3>1. lo \in Nat \ {0} /\ n - lo + 1 = d
      BY <2>3
    <3> HIDE DEF lo
    <3>2. \A i \in 1 .. n - lo + 1 : SubSeq(f, lo, n)[i] = f[lo + i - 1]
      BY <1>1, <2>3, <3>1, SubSeqProperties
    <3>3. QED
      BY <3>1, <3>2 DEF lo
  <2>5. \A i \in 1 .. d : n - d + 1 + i - 1 = n - d + i
    BY <1>8, <1>12, SMTT(30)
  <2>6. QED
    BY <1>11, <2>2, <2>4, <2>5, ZenonT(40)
<1>14. /\ cut \in Nat /\ cut < Len(b) /\ b[cut + 1] = p /\ start \in Nat
       /\ \A i \in 1 .. d : cut - d + i >= 1 => b[cut - d + i] = begin - 1 + i
  <2>1. cut \in Nat /\ cut < Len(b)
    BY <1>1, <1>2, <1>3, <1>4, <1>5, <1>7
  <2>2. cut + 1 \in 1 .. Len(b) /\ start + (cut + 1) = n + 1
    BY <1>2, <1>4, <2>1
  <2>3. b[cut + 1] = f[start + (cut + 1)]
    BY <1>4, <2>2
  <2>4. ASSUME NEW i \in 1 .. d, cut - d + i >= 1
        PROVE  b[cut - d + i] = begin - 1 + i
    <3>1. cut - d + i \in 1 .. Len(b) /\ start + (cut - d + i) = n - d + i
      BY <1>2, <1>4, <1>12, <2>1, <2>4
    <3>2. b[cut - d + i] = f[start + (cut - d + i)]
      BY <1>4, <3>1
    <3>3. QED
      BY <1>13, <3>1, <3>2
  <2>5. QED
    BY <1>2, <2>1, <2>2, <2>3, <2>4 DEF p
<1> HIDE DEF d
\* The first byte kept is not an ESC, so the cut is not of the first form.
<1>15. ~Splits(b, naive)
  <2> SUFFICES ASSUME Splits(b, naive) PROVE FALSE
    OBVIOUS
  <2>1. LastEsc(b, naive) \in Escs(b, naive) /\ cut = LastEsc(b, naive) - 1
    BY <1>4, <1>5, CutForms DEF cut
  <2>2. cut + 1 = LastEsc(b, naive) /\ KindAt(b[LastEsc(b, naive)]) = "esc"
    BY <1>5, <2>1 DEF Escs
  <2>3. KindAt(p) = "esc"
    BY <1>14, <2>2
  <2>4. stream[p] = "esc" /\ p \in begin + 1 .. p
    BY <1>8, <1>9, <1>12, <2>3
  <2>5. QED
    BY <1>10, <2>4 DEF Starts
<1>16. /\ cut \in naive .. Len(b) /\ \A i \in naive + 1 .. cut : IsCont(b[i])
       /\ stream[p] # "cont"
  <2>1. /\ cut \in naive .. Len(b) /\ \A i \in naive + 1 .. cut : IsCont(b[i])
        /\ cut < Len(b) => ~IsCont(b[cut + 1])
    BY <1>4, <1>5, <1>15, CutForms DEF cut
  <2>2. KindAt(p) # "cont" /\ p \in 1 .. p
    BY <1>8, <1>14, <2>1 DEF IsCont
  <2>3. QED
    BY <1>9, <2>1, <2>2
<1>17. /\ stream[begin] = "esc" /\ d <= Lookback
       /\ begin + 1 < p => stream[begin + 1] = "bracket"
       /\ \A r \in begin + 2 .. p - 1 : stream[r] = "digit"
  <2>1. begin \in 1 .. Len(stream)
    BY <1>1, <1>8, <1>10
  <2>2. QED
    BY <1>1, <1>8, <1>10, <1>12, <1>16, <2>1, InsideSequence DEF d
<1>18. /\ \A x \in begin .. p - 1 : KindAt(x) \in {"esc", "bracket", "digit"}
       /\ \A x \in begin + 1 .. p - 1 : KindAt(x) \in {"bracket", "digit"}
       /\ \A x \in begin + 2 .. p - 1 : KindAt(x) = "digit"
       /\ KindAt(begin) = "esc"
       /\ begin + 1 < p => KindAt(begin + 1) = "bracket"
  <2>1. ASSUME NEW x \in begin .. p - 1
        PROVE  x \in 1 .. p /\ (x = begin \/ (x = begin + 1 /\ begin + 1 < p) \/ x \in begin + 2 .. p - 1)
    BY <1>12
  <2>2. begin \in begin .. p - 1 /\ (begin + 1 < p => begin + 1 \in begin .. p - 1)
    BY <1>12
  <2>3. /\ \A x \in begin + 1 .. p - 1 : x \in begin .. p - 1 /\ x # begin
        /\ \A x \in begin + 2 .. p - 1 : x \in begin .. p - 1
    BY <1>12
  <2>4. \A x \in begin .. p - 1 : KindAt(x) = stream[x]
    BY <1>9, <2>1
  <2>5. QED
    BY <1>17, <2>1, <2>2, <2>3, <2>4
\* No rest of a character was skipped: the byte before the cut is inside the
\* sequence.
<1>19. cut = naive
  <2> SUFFICES ASSUME cut # naive PROVE FALSE
    OBVIOUS
  <2>1. cut \in naive + 1 .. cut /\ cut >= 1
    BY <1>2, <1>14, <1>16
  <2>2. d \in 1 .. d /\ cut - d + d = cut /\ begin - 1 + d = p - 1
    BY <1>12, <1>14
  <2>3. b[cut - d + d] = begin - 1 + d
    BY <1>14, <2>1, <2>2
  <2>4. b[cut] = p - 1 /\ p - 1 \in begin .. p - 1
    BY <1>12, <2>2, <2>3
  <2>5. KindAt(p - 1) = "cont"
    BY <1>16, <2>1, <2>4 DEF IsCont
  <2>6. QED
    BY <1>18, <2>4, <2>5
<1>20. d <= naive
  BY <1>2, <1>12, <1>17, <1>19
<1> DEFINE e == naive - d + 1
<1>21. /\ e \in 1 .. naive /\ e \in Nat /\ d \in Nat \ {0} /\ naive \in Nat
       /\ \A i \in 1 .. d : e - 1 + i \in 1 .. naive /\ b[e - 1 + i] = begin - 1 + i
  <2>1. e \in 1 .. naive /\ d \in Nat \ {0} /\ naive \in Nat
    BY <1>2, <1>12, <1>20
  <2>2. ASSUME NEW i \in 1 .. d
        PROVE  e - 1 + i \in 1 .. naive /\ b[e - 1 + i] = begin - 1 + i
    <3>1. cut - d + i = e - 1 + i /\ cut - d + i >= 1 /\ e - 1 + i \in 1 .. naive
      BY <1>19, <1>20, <2>1
    <3>2. QED
      BY <1>14, <3>1
  <2>3. QED
    BY <2>1, <2>2
<1> HIDE DEF e
<1>22. e \in Escs(b, naive)
  <2>1. 1 \in 1 .. d /\ e - 1 + 1 = e /\ begin - 1 + 1 = begin
    BY <1>12, <1>21
  <2>2. b[e - 1 + 1] = begin - 1 + 1
    BY <1>21, <2>1
  <2>3. b[e] = begin
    BY <2>1, <2>2
  <2>4. QED
    BY <1>18, <1>21, <2>3 DEF Escs
<1>23. ASSUME NEW j \in Escs(b, naive) PROVE j <= e
  <2> SUFFICES ASSUME j > e PROVE FALSE
    BY <1>21 DEF Escs
  <2>1. j \in 1 .. naive /\ KindAt(b[j]) = "esc"
    BY DEF Escs
  <2> DEFINE i == j - e + 1
  <2>2. i \in 1 .. d /\ e - 1 + i = j /\ begin - 1 + i \in begin + 1 .. p - 1
    BY <1>12, <1>21, <2>1 DEF e
  <2>3. b[e - 1 + i] = begin - 1 + i
    BY <1>21, <2>2
  <2>4. b[j] = begin - 1 + i
    BY <2>2, <2>3
  <2>5. QED
    BY <1>18, <2>1, <2>2, <2>4
<1>24. LastEsc(b, naive) = e
  <2>1. \E i \in Escs(b, naive) : \A j \in Escs(b, naive) : j <= i
    BY <1>22, <1>23
  <2>2. /\ LastEsc(b, naive) \in Escs(b, naive)
        /\ \A j \in Escs(b, naive) : j <= LastEsc(b, naive)
    BY <2>1 DEF LastEsc
  <2>3. LastEsc(b, naive) <= e /\ e <= LastEsc(b, naive) /\ LastEsc(b, naive) \in Nat
    BY <1>21, <1>22, <1>23, <2>2 DEF Escs
  <2>4. QED
    BY <1>21, <2>3
<1> DEFINE seq == SubSeq(b, e, naive)
<1>25. Len(seq) = d /\ \A i \in 1 .. d : seq[i] = begin - 1 + i
  <2>1. e \in Nat \ {0} /\ naive \in Nat /\ naive <= Len(b) /\ naive - e + 1 = d
    BY <1>5, <1>21 DEF e
  <2>2. /\ Len(seq) = IF e <= naive THEN naive - e + 1 ELSE 0
        /\ \A i \in 1 .. naive - e + 1 : seq[i] = b[e + i - 1]
    BY <1>4, <2>1, SubSeqProperties
  <2> HIDE DEF seq
  <2>3. \A i \in 1 .. d : e + i - 1 = e - 1 + i
    BY <1>21
  <2>4. QED
    BY <1>21, <2>1, <2>2, <2>3
<1> HIDE DEF seq
<1>26. ~escape_sequence_terminated(seq)
  <2> SUFFICES ASSUME d > 1 PROVE ~(KindAt(seq[2]) = "bracket" => \E i \in 3 .. d : IsFinal(seq[i]))
    BY <1>21, <1>25 DEF escape_sequence_terminated
  <2>1. 2 \in 1 .. d /\ begin - 1 + 2 = begin + 1 /\ begin + 1 < p
    BY <1>12, <1>21 DEF d
  <2>2. seq[2] = begin - 1 + 2
    BY <1>25, <2>1
  <2>3. KindAt(seq[2]) = "bracket"
    BY <1>18, <2>1, <2>2
  <2>4. ASSUME NEW i \in 3 .. d PROVE ~IsFinal(seq[i])
    <3>1. i \in 1 .. d /\ begin - 1 + i \in begin + 2 .. p - 1
      BY <1>12, <1>21
    <3>2. KindAt(seq[i]) = "digit"
      BY <1>18, <1>25, <3>1
    <3>3. QED
      BY <3>2 DEF IsFinal
  <2>5. QED
    BY <2>3, <2>4
<1>27. QED
  BY <1>15, <1>22, <1>24, <1>26 DEF Splits, seq

\* For every cap, window and well-formed output: rotation never cuts a
\* character, nor an escape sequence of at most Lookback + 1 bytes, in two.
THEOREM CutsAreSafe == (\A s \in Streams : WellFormed(s)) => (Spec => CutIsSafe)
<1> SUFFICES ASSUME \A s \in Streams : WellFormed(s) PROVE Spec => CutIsSafe
  OBVIOUS
<1>1. IInv => WellFormed(stream)
  BY DEF IInv, Steady, TypeOK
<1>2. ASSUME IInv, readTail, pc' = "truncate"
      PROVE  SafeCut(Seen(size), Len(Seen(size)) - Len(tail'))
  <2>1. /\ TypeOK /\ size \in Nat /\ MaxSize \in Nat /\ size > MaxSize
        /\ ~OutOfBounds(size, MaxSize) /\ tail' = KeptTail(size, MaxSize)
    BY <1>2, SizesAssumption DEF IInv, Steady, TypeOK, readTail
  <2>2. QED
    BY <1>1, <1>2, <2>1, CutSafe
<1>3. ASSUME IInv, rivalRead, rival'.pc = "truncate"
      PROVE  SafeCut(Seen(rival.size), Len(Seen(rival.size)) - Len(rival'.tail))
  <2>1. /\ TypeOK /\ rival \in RivalType /\ rival.size > rival.cap
    BY <1>3 DEF IInv, Steady, TypeOK, RivalType, rivalRead
  <2>2. ~OutOfBounds(rival.size, rival.cap)
    BY <1>3 DEF rivalRead, RivalGoes, NoRival
  <2>3. rival'.tail = KeptTail(rival.size, rival.cap)
    BY <1>3, <2>1, <2>2 DEF rivalRead, RivalGoes, RivalType
  <2>4. rival.size \in Nat /\ rival.cap \in Nat
    BY <2>1 DEF RivalType
  <2>5. QED
    BY <1>1, <1>3, <2>1, <2>2, <2>3, <2>4, CutSafe
<1>4. IInv /\ [Next]_vars =>
        [/\ readTail /\ pc' = "truncate" =>
              SafeCut(Seen(size), Len(Seen(size)) - Len(tail'))
         /\ rivalRead /\ rival'.pc = "truncate" =>
              SafeCut(Seen(rival.size), Len(Seen(rival.size)) - Len(rival'.tail))]_vars
  BY <1>2, <1>3
<1>5. QED
  BY <1>4, Invariance, PTL DEF Spec, CutIsSafe
===============================================================================
