--------------------------- MODULE ConnectionProofs ---------------------------
(***************************************************************************)
(* For any number of viewers and pushers and every capacity: queues keep   *)
(* their limits, and a viewer gets what the fanout gave its handler, whole *)
(* and in order.                                                           *)
(***************************************************************************)
EXTENDS Connection, FanoutProofs

\* The messages a client may put into its socket.
Input ==
  [type : {"attach"}, skip : BOOLEAN] \cup [type : {"push"}, n : 1 .. MaxTyped] \cup {detachMsg}

HandlerStages == {"none", "backlog", "select", "sending", "pushing", "gone"}
ClientStages  == {"idle", "read", "loop", "sending", "left", "ended", "failed"}

\* The types, with bytes of any number.
Types ==
  /\ logged \in Nat /\ daemon \in {"running", "ending", "exited"}
  /\ pushq \in Seq(Clients \X (1 .. MaxTyped)) /\ Len(pushq) <= PushCap
  /\ taken \in [Clients -> Seq(1 .. MaxTyped)]
  /\ handler \in [Clients -> HandlerStages] /\ client \in [Clients -> ClientStages]
  /\ out \in [Clients -> Seq(Nat)] /\ held \in [Clients -> 0 .. MaxTyped]
  /\ down \in [Clients -> Seq(Nat)] /\ \A c \in Clients : Len(down[c]) <= DownCap
  /\ up \in [Clients -> Seq(Input)] /\ \A c \in Clients : Len(up[c]) <= UpCap
  /\ replayed \in [Clients -> BOOLEAN] /\ typed \in [Clients -> 0 .. MaxTyped]
  /\ shown \in [Clients -> Seq(Nat)]

\* A handler that is not inside write_all has nothing left to write.
StageInv(c) ==
  /\ handler[c] = "pushing" => held[c] # 0
  /\ handler[c] \notin {"sending", "gone"} => out[c] = <<>>
  /\ client[c] = "sending" => typed[c] # 0

\* No output has come to the client.
Fresh(c) ==
  /\ next[c] = 0 /\ got[c] = <<>> /\ down[c] = <<>> /\ out[c] = <<>>
  /\ replayed[c] \/ shown[c] = <<>>

\* The attach message is a viewer's first, and its only one.
AttachInv(c) ==
  /\ client[c] \in {"idle", "read"} => up[c] = <<>> /\ Fresh(c)
  /\ client[c] = "idle" => handler[c] \in {"none", "gone"}
  /\ \A i \in 1 .. Len(up[c]) : up[c][i].type = "attach" =>
       i = 1 /\ c \in Viewers /\ up[c][i].skip = replayed[c] /\ Fresh(c)

\* Everything on its way from the handler to the terminal.
Seen(c) == shown[c] \o down[c] \o out[c]

\* No byte after this one has been handed to the client.
Reach(c) == IF next[c] = 0 THEN produced ELSE EndOf(next[c] - 1)

\* s rises, and hi is not passed.
Rising(s, hi) ==
  /\ \A i \in 1 .. Len(s) : s[i] \in 1 .. hi
  /\ \A i, j \in 1 .. Len(s) : i < j => s[i] < s[j]

ViewInv(c) ==
  /\ c \in Viewers /\ ~replayed[c] => Seen(c) = got[c]
  /\ Rising(Seen(c), Reach(c))

Bounds ==
  /\ logged <= produced /\ produced <= MaxBytes
  /\ \A k \in 0 .. Len(ends) : EndOf(k) <= produced

\* The inductive invariant.  NeverTwice alone is not inductive: a viewer that
\* showed the log is given later bytes only because the log is behind the
\* channel when it attaches, and each chunk only because nothing past its
\* receiver's position is on the way already.
ConnInv ==
  /\ IInv /\ Types /\ Bounds
  /\ \A c \in Clients : StageInv(c) /\ AttachInv(c) /\ ViewInv(c)

-------------------------------------------------------------------------------

\* Concatenation of bytes is associative.
LEMMA BytesAssociative ==
  ASSUME NEW s \in Seq(Nat), NEW t \in Seq(Nat), NEW u \in Seq(Nat)
  PROVE  (s \o t) \o u = s \o (t \o u)
BY SMTT(60)

\* A poll of write_all moves bytes into the socket and keeps the rest.
LEMMA WriteSplits ==
  ASSUME Types, NEW c \in Clients, NEW bytes \in Seq(Nat), Write(c, bytes)
  PROVE  /\ down' \in [Clients -> Seq(Nat)] /\ out' \in [Clients -> Seq(Nat)]
         /\ handler' \in [Clients -> HandlerStages]
         /\ Len(down'[c]) <= DownCap
         /\ down'[c] \o out'[c] = down[c] \o bytes
         /\ handler'[c] \in {"select", "sending"}
         /\ handler'[c] = "select" => out'[c] = <<>>
         /\ \A d \in Clients \ {c} :
              down'[d] = down[d] /\ out'[d] = out[d] /\ handler'[d] = handler[d]
<1>. DEFINE room == IF HungUp(c) THEN 0 ELSE DownCap - Len(down[c])
            m    == IF Len(bytes) < room THEN Len(bytes) ELSE room
            old  == down[c]
            now  == SubSeq(bytes, 1, m)
            rest == SubSeq(bytes, m + 1, Len(bytes))
<1>1. /\ old \in Seq(Nat) /\ Len(old) \in Nat /\ Len(old) <= DownCap
      /\ DownCap \in Nat /\ Len(bytes) \in Nat
  BY ConnectionAssumption DEF Types
<1>2. m \in 0 .. Len(bytes) /\ Len(old) + m <= DownCap
  <2>1. room \in Nat /\ room <= DownCap - Len(old)
    <3>1. CASE HungUp(c)
      BY <1>1, <3>1
    <3>2. CASE ~HungUp(c)
      BY <1>1, <3>2
    <3>. QED
      BY <3>1, <3>2
  <2>. HIDE DEF room, old
  <2>. QED
    BY <1>1, <2>1
<1>3. /\ down' = [down EXCEPT ![c] = old \o now] /\ out' = [out EXCEPT ![c] = rest]
      /\ handler' = [handler EXCEPT ![c] = IF m = Len(bytes) THEN "select" ELSE "sending"]
  BY DEF Write
<1>. HIDE DEF m
<1>4. /\ now \in Seq(Nat) /\ Len(now) = m /\ rest \in Seq(Nat)
      /\ now \o rest = bytes /\ (m = Len(bytes) => rest = <<>>)
  <2>1. \A i \in 1 .. Len(bytes) : bytes[i] \in Nat
    OBVIOUS
  <2>2. now \in Seq(Nat) /\ Len(now) = m /\ \A i \in 1 .. m : now[i] = bytes[i]
    BY <1>1, <1>2, <2>1
  <2>3. /\ rest \in Seq(Nat) /\ Len(rest) = Len(bytes) - m
        /\ \A i \in 1 .. Len(bytes) - m : rest[i] = bytes[m + i]
    BY <1>1, <1>2, <2>1
  <2>. HIDE DEF now, rest
  <2>4. /\ now \o rest \in Seq(Nat) /\ Len(now \o rest) = Len(bytes)
        /\ \A i \in 1 .. Len(bytes) :
             (now \o rest)[i] = IF i <= m THEN now[i] ELSE rest[i - m]
    <3>1. /\ now \o rest \in Seq(Nat) /\ Len(now \o rest) = Len(now) + Len(rest)
          /\ \A i \in 1 .. Len(now) + Len(rest) :
               (now \o rest)[i] = IF i <= Len(now) THEN now[i] ELSE rest[i - Len(now)]
      BY <2>2, <2>3, ConcatProperties
    <3>2. Len(now) = m /\ Len(now) + Len(rest) = Len(bytes)
      BY <1>1, <1>2, <2>2, <2>3
    <3>. QED
      BY <3>1, <3>2
  <2>5. ASSUME NEW i \in 1 .. Len(bytes)
        PROVE  (now \o rest)[i] = bytes[i]
    <3>1. CASE i <= m
      <4>1. i \in 1 .. m
        BY <1>1, <1>2, <3>1
      <4>. QED
        BY <2>2, <2>4, <3>1, <4>1
    <3>2. CASE ~(i <= m)
      <4>1. i - m \in 1 .. Len(bytes) - m /\ m + (i - m) = i
        BY <1>1, <1>2, <3>2
      <4>2. (now \o rest)[i] = rest[i - m]
        BY <2>4, <3>2
      <4>. QED
        BY <2>3, <4>1, <4>2
    <3>. QED
      BY <3>1, <3>2
  <2>6. now \o rest = bytes
    BY <2>4, <2>5, SeqEqual
  <2>7. m = Len(bytes) => rest = <<>>
    BY <1>1, <2>3
  <2>. QED
    BY <2>2, <2>3, <2>6, <2>7
<1>. HIDE DEF old, now, rest
<1>5. /\ old \o now \in Seq(Nat) /\ Len(old \o now) <= DownCap
      /\ (old \o now) \o rest = old \o bytes
  <2>1. old \o now \in Seq(Nat) /\ Len(old \o now) = Len(old) + m
    BY <1>1, <1>4, ConcatProperties
  <2>2. (old \o now) \o rest = old \o (now \o rest)
    <3>1. old \in Seq(Nat) /\ now \in Seq(Nat) /\ rest \in Seq(Nat)
      BY <1>1, <1>4
    <3>. QED
      BY ONLY <3>1, BytesAssociative
  <2>. QED
    BY <1>1, <1>2, <1>4, <2>1, <2>2
<1>6. /\ down'[c] = old \o now /\ out'[c] = rest
      /\ handler'[c] = IF m = Len(bytes) THEN "select" ELSE "sending"
      /\ \A d \in Clients \ {c} :
           down'[d] = down[d] /\ out'[d] = out[d] /\ handler'[d] = handler[d]
  BY <1>3 DEF Types
<1>7. down' \in [Clients -> Seq(Nat)] /\ out' \in [Clients -> Seq(Nat)]
  BY <1>3, <1>4, <1>5 DEF Types
<1>8. handler' \in [Clients -> HandlerStages]
  BY <1>3 DEF Types, HandlerStages
<1>. QED
  BY <1>4, <1>5, <1>6, <1>7, <1>8 DEF old

-------------------------------------------------------------------------------

\* A run of the child's output rises.
LEMMA RunRises ==
  ASSUME NEW s, NEW hi \in Nat, RunTo(s, hi)
  PROVE  s \in Seq(Nat) /\ Rising(s, hi)
<1>1. PICK lo \in 0 .. hi : s = Span(lo, hi)
  BY DEF RunTo
<1>2. s \in Seq(Nat) /\ Len(s) = hi - lo /\ \A i \in 1 .. hi - lo : s[i] = lo + i
  <2>1. lo \in Nat /\ lo <= hi
    OBVIOUS
  <2>. QED
    BY <1>1, <2>1, SpanElements
<1>3. ASSUME NEW i \in 1 .. Len(s)
      PROVE  s[i] = lo + i /\ s[i] \in 1 .. hi
  BY <1>2
<1>4. \A i, j \in 1 .. Len(s) : i < j => s[i] < s[j]
  BY <1>2, <1>3
<1>. QED
  BY <1>2, <1>3, <1>4 DEF Rising

\* What rises to a, continued by the bytes after a, rises.
LEMMA RisingJoin ==
  ASSUME NEW s \in Seq(Nat), NEW a \in Nat, NEW b \in Nat, a <= b, Rising(s, a)
  PROVE  s \o Span(a, b) \in Seq(Nat) /\ Rising(s \o Span(a, b), b)
<1>. DEFINE t == Span(a, b)
            u == s \o t
            n == Len(s)
<1>1. t \in Seq(Nat) /\ Len(t) = b - a /\ \A i \in 1 .. b - a : t[i] = a + i
  BY SpanElements
<1>. HIDE DEF t
<1>2. /\ u \in Seq(Nat) /\ Len(u) = n + (b - a)
      /\ \A i \in 1 .. Len(u) : u[i] = IF i <= n THEN s[i] ELSE t[i - n]
  <2>1. /\ s \o t \in Seq(Nat) /\ Len(s \o t) = Len(s) + Len(t)
        /\ \A i \in 1 .. Len(s) + Len(t) :
             (s \o t)[i] = IF i <= Len(s) THEN s[i] ELSE t[i - Len(s)]
    BY <1>1, ConcatProperties
  <2>. QED
    BY <1>1, <2>1
<1>3. /\ n \in Nat
      /\ \A i \in 1 .. n : s[i] \in 1 .. a
      /\ \A i, j \in 1 .. n : i < j => s[i] < s[j]
  BY DEF Rising
<1>. HIDE DEF u, n
<1>4. ASSUME NEW i \in 1 .. Len(u)
      PROVE  /\ i <= n => i \in 1 .. n /\ u[i] = s[i] /\ u[i] \in 1 .. a
             /\ ~(i <= n) => u[i] = a + (i - n) /\ u[i] \in a + 1 .. b
  <2>1. CASE i <= n
    <3>1. i \in 1 .. n
      BY <1>2, <1>3, <2>1
    <3>. QED
      BY <1>2, <1>3, <2>1, <3>1
  <2>2. CASE ~(i <= n)
    <3>1. i - n \in 1 .. b - a
      BY <1>2, <1>3, <2>2
    <3>2. u[i] = t[i - n]
      BY <1>2, <2>2
    <3>. QED
      BY <1>1, <1>3, <2>2, <3>1, <3>2
  <2>. QED
    BY <2>1, <2>2
<1>5. \A i \in 1 .. Len(u) : u[i] \in 1 .. b
  <2>1. ASSUME NEW i \in 1 .. Len(u) PROVE u[i] \in 1 .. b
    BY <1>3, <1>4
  <2>. QED
    BY <2>1
<1>6. ASSUME NEW i \in 1 .. Len(u), NEW j \in 1 .. Len(u), i < j
      PROVE  u[i] < u[j]
  <2>1. CASE j <= n
    <3>1. i <= n
      BY <1>3, <1>6, <2>1
    <3>2. /\ i \in 1 .. n /\ u[i] = s[i]
          /\ j \in 1 .. n /\ u[j] = s[j]
      BY <1>4, <2>1, <3>1
    <3>. QED
      BY <1>3, <1>6, <3>2
  <2>2. CASE ~(j <= n)
    <3>1. u[j] = a + (j - n) /\ u[j] \in a + 1 .. b
      BY <1>4, <2>2
    <3>2. CASE i <= n
      <4>1. u[i] \in 1 .. a
        BY <1>4, <3>2
      <4>. QED
        BY <3>1, <4>1
    <3>3. CASE ~(i <= n)
      <4>1. u[i] = a + (i - n)
        BY <1>4, <3>3
      <4>. QED
        BY <1>3, <1>6, <3>1, <4>1
    <3>. QED
      BY <3>2, <3>3
  <2>. QED
    BY <2>1, <2>2
<1>7. Rising(u, b)
  BY <1>5, <1>6 DEF Rising
<1>. QED
  BY <1>2, <1>7 DEF u, t

LEMMA RisingHigher ==
  ASSUME NEW s \in Seq(Nat), NEW a \in Nat, NEW b \in Nat, a <= b, Rising(s, a)
  PROVE  Rising(s, b)
<1>1. ASSUME NEW i \in 1 .. Len(s) PROVE s[i] \in 1 .. b
  <2>1. s[i] \in 1 .. a
    BY DEF Rising
  <2>. QED
    BY <2>1
<1>. QED
  BY <1>1 DEF Rising

\* Part of what rises does.
LEMMA RisingPrefix ==
  ASSUME NEW s \in Seq(Nat), NEW t \in Seq(Nat), NEW a, Rising(s \o t, a)
  PROVE  Rising(s, a)
<1>1. /\ Len(s) \in Nat /\ Len(t) \in Nat /\ Len(s \o t) = Len(s) + Len(t)
      /\ \A i \in 1 .. Len(s) + Len(t) :
           (s \o t)[i] = IF i <= Len(s) THEN s[i] ELSE t[i - Len(s)]
  BY ConcatProperties
<1>. DEFINE u == s \o t
<1>2. /\ \A i \in 1 .. Len(u) : u[i] \in 1 .. a
      /\ \A i, j \in 1 .. Len(u) : i < j => u[i] < u[j]
  BY DEF Rising
<1>. HIDE DEF u
<1>3. ASSUME NEW i \in 1 .. Len(s) PROVE i \in 1 .. Len(u) /\ u[i] = s[i]
  BY <1>1 DEF u
<1>. QED
  BY <1>2, <1>3 DEF Rising

-------------------------------------------------------------------------------

LEMMA ReachType ==
  ASSUME ConnInv, NEW c \in Clients
  PROVE  /\ produced \in Nat /\ MaxBytes \in Nat /\ Len(ends) \in Nat
         /\ next[c] \in 0 .. Len(ends) + 1
         /\ Reach(c) \in 0 .. produced
<1>1. /\ TypeOK /\ produced \in Nat /\ \A k \in 0 .. Len(ends) : EndOf(k) \in Nat
  BY EndOfType DEF ConnInv, IInv
<1>2. next[c] \in Nat /\ Len(ends) \in Nat
  BY <1>1 DEF TypeOK
<1>3. next[c] # 0 => next[c] <= Len(ends) + 1
  BY DEF ConnInv, IInv, ViewIsRun
<1>4. Reach(c) \in 0 .. produced
  <2>1. CASE next[c] = 0
    BY <1>1, <2>1 DEF Reach
  <2>2. CASE next[c] # 0
    <3>1. next[c] - 1 \in 0 .. Len(ends)
      BY <1>2, <1>3, <2>2
    <3>2. EndOf(next[c] - 1) \in Nat /\ EndOf(next[c] - 1) <= produced
      BY <1>1, <3>1 DEF ConnInv, Bounds
    <3>. QED
      BY <1>1, <2>2, <3>2 DEF Reach
  <2>. QED
    BY <2>1, <2>2
<1>. QED
  BY <1>1, <1>2, <1>3, <1>4, BoundAssumption

LEMMA SeenType ==
  ASSUME Types, NEW c \in Clients
  PROVE  /\ shown[c] \in Seq(Nat) /\ down[c] \in Seq(Nat) /\ out[c] \in Seq(Nat)
         /\ shown[c] \o down[c] \in Seq(Nat)
         /\ Seen(c) \in Seq(Nat)
<1>1. shown[c] \in Seq(Nat) /\ down[c] \in Seq(Nat) /\ out[c] \in Seq(Nat)
  BY DEF Types
<1>2. shown[c] \o down[c] \in Seq(Nat)
  BY <1>1, ConcatProperties
<1>3. (shown[c] \o down[c]) \o out[c] \in Seq(Nat)
  BY <1>1, <1>2, ConcatProperties
<1>. QED
  BY <1>1, <1>2, <1>3 DEF Seen

\* A step that leaves what is on the way keeps the view, also when the
\* receiver is dropped.
LEMMA KeepsView ==
  ASSUME ConnInv, NEW c \in Clients, ends' = ends, Seen(c)' = Seen(c),
         got'[c] = got[c], replayed'[c] = replayed[c], next'[c] \in {next[c], 0}
  PROVE  ViewInv(c)'
<1>1. ViewInv(c) /\ Types
  BY DEF ConnInv
<1>2. produced' = produced /\ Reach(c)' \in {Reach(c), produced}
  BY DEF Reach, produced, EndOf
<1>3. Rising(Seen(c), Reach(c)')
  <2>1. CASE Reach(c)' = Reach(c)
    BY <1>1, <2>1 DEF ViewInv
  <2>2. CASE Reach(c)' = produced
    <3>1. Rising(Seen(c), produced)
      BY <1>1, ReachType, SeenType, RisingHigher DEF ViewInv
    <3>. QED
      BY <2>2, <3>1
  <2>. QED
    BY <1>2, <2>1, <2>2
<1>4. Rising(Seen(c)', Reach(c)')
  BY <1>3
<1>. QED
  BY <1>1, <1>4 DEF ViewInv, Rising

-------------------------------------------------------------------------------
(* Steps and the client they are not about.                                  *)

Same(d) ==
  /\ handler'[d] = handler[d] /\ out'[d] = out[d] /\ held'[d] = held[d]
  /\ down'[d] = down[d] /\ up'[d] = up[d] /\ client'[d] = client[d]
  /\ replayed'[d] = replayed[d] /\ typed'[d] = typed[d] /\ shown'[d] = shown[d]
  /\ next'[d] = next[d] /\ got'[d] = got[d]

Local(c) == StageInv(c) /\ AttachInv(c) /\ ViewInv(c)

LEMMA SameIsKept ==
  ASSUME ConnInv, NEW d \in Clients, Same(d),
         produced' \in Nat, produced <= produced',
         \A k \in 0 .. Len(ends) : (IF k = 0 THEN 0 ELSE ends'[k]) = EndOf(k)
  PROVE  Local(d)'
<1>1. StageInv(d) /\ AttachInv(d) /\ ViewInv(d) /\ Types
  BY DEF ConnInv
<1>2. StageInv(d)'
  BY <1>1 DEF StageInv, Same
<1>3. AttachInv(d)'
  BY <1>1 DEF AttachInv, Fresh, Same
<1>4. Reach(d)' \in Nat /\ Reach(d) <= Reach(d)'
  <2>1. CASE next[d] = 0
    BY <2>1, ReachType DEF Reach, Same
  <2>2. CASE next[d] # 0
    <3>1. next[d] - 1 \in 0 .. Len(ends)
      BY <2>2, ReachType
    <3>2. Reach(d)' = EndOf(next[d] - 1)
      BY <2>2, <3>1 DEF Reach, Same, EndOf
    <3>3. Reach(d)' = Reach(d)
      BY <2>2, <3>2 DEF Reach
    <3>. QED
      BY <3>3, ReachType
  <2>. QED
    BY <2>1, <2>2
<1>5. Seen(d)' = Seen(d)
  BY DEF Seen, Same
<1>6. Rising(Seen(d), Reach(d)')
  <2>1. Seen(d) \in Seq(Nat) /\ Reach(d) \in Nat /\ Rising(Seen(d), Reach(d))
    BY <1>1, SeenType, ReachType DEF ViewInv
  <2>. QED
    BY <1>4, <2>1, RisingHigher
<1>7. ViewInv(d)'
  BY <1>1, <1>5, <1>6 DEF ViewInv, Same, Rising
<1>. QED
  BY <1>2, <1>3, <1>7 DEF Local

\* The same when the output has not grown.
LEMMA SameStays ==
  ASSUME ConnInv, NEW d \in Clients, Same(d), ends' = ends
  PROVE  Local(d)'
<1>1. produced' = produced /\ produced \in Nat
  BY ReachType DEF produced, EndOf
<1>2. \A k \in 0 .. Len(ends) : (IF k = 0 THEN 0 ELSE ends'[k]) = EndOf(k)
  BY DEF EndOf
<1>. QED
  BY <1>1, <1>2, SameIsKept

\* No step but connect makes an attach message.
LEMMA AttachKept ==
  ASSUME ConnInv, NEW c \in Clients, Fresh(c) => Fresh(c)',
         replayed'[c] = replayed[c],
         client'[c] \in {"idle", "read"} =>
           client'[c] = client[c] /\ up'[c] = up[c],
         client'[c] = "idle" => handler'[c] \in {"none", "gone"},
         \A i \in 1 .. Len(up'[c]) : up'[c][i].type = "attach" =>
           i \in 1 .. Len(up[c]) /\ up'[c][i] = up[c][i]
  PROVE  AttachInv(c)'
<1>1. AttachInv(c)
  BY DEF ConnInv
<1>2. client'[c] \in {"idle", "read"} => up'[c] = <<>> /\ Fresh(c)'
  BY <1>1 DEF AttachInv
<1>3. ASSUME NEW i \in 1 .. Len(up'[c]), up'[c][i].type = "attach"
      PROVE  i = 1 /\ c \in Viewers /\ up'[c][i].skip = replayed'[c] /\ Fresh(c)'
  BY <1>1, <1>3 DEF AttachInv
<1>. QED
  BY <1>2, <1>3 DEF AttachInv

\* What the handler takes a message from.
LEMMA Taken ==
  ASSUME ConnInv, NEW c \in Clients, NEW type, Received(c, type)
  PROVE  /\ up' \in [Clients -> Seq(Input)]
         /\ \A d \in Clients : Len(up'[d]) <= UpCap
         /\ \A d \in Clients \ {c} : up'[d] = up[d]
         /\ Head(up[c]) \in Input /\ Head(up[c]) = up[c][1] /\ 1 \in 1 .. Len(up[c])
         /\ client[c] \notin {"idle", "read"} /\ out[c] = <<>>
         /\ \A i \in 1 .. Len(up'[c]) : up'[c][i].type # "attach"
<1>1. /\ handler[c] = "select" /\ up[c] # <<>>
      /\ up' = [up EXCEPT ![c] = Tail(up[c])]
  BY DEF Received
<1>2. /\ up \in [Clients -> Seq(Input)]
      /\ \A d \in Clients : Len(up[d]) <= UpCap
      /\ UpCap \in Nat
  BY ConnectionAssumption DEF ConnInv, Types
<1>3. AttachInv(c) /\ StageInv(c)
  BY DEF ConnInv
<1>4. up[c] \in Seq(Input) /\ Len(up[c]) \in Nat /\ Len(up[c]) # 0
  BY <1>1, <1>2
<1>5. /\ Tail(up[c]) \in Seq(Input) /\ Len(Tail(up[c])) = Len(up[c]) - 1
      /\ Head(up[c]) \in Input
      /\ \A i \in 1 .. Len(Tail(up[c])) : Tail(up[c])[i] = up[c][i + 1]
  BY <1>1, <1>4, HeadTailProperties
<1>6. up'[c] = Tail(up[c]) /\ \A d \in Clients \ {c} : up'[d] = up[d]
  BY <1>1, <1>2
<1>7. ASSUME NEW i \in 1 .. Len(up'[c]) PROVE up'[c][i].type # "attach"
  <2>1. i + 1 \in 1 .. Len(up[c]) /\ i + 1 # 1 /\ up'[c][i] = up[c][i + 1]
    BY <1>4, <1>5, <1>6
  <2>. QED
    BY <1>3, <2>1 DEF AttachInv
<1>8. up' \in [Clients -> Seq(Input)]
  BY <1>1, <1>2, <1>5
<1>9. \A d \in Clients : Len(up'[d]) <= UpCap
  BY <1>2, <1>4, <1>5, <1>6
<1>10. Head(up[c]) = up[c][1] /\ 1 \in 1 .. Len(up[c])
  BY <1>1, <1>4
<1>11. client[c] \notin {"idle", "read"} /\ out[c] = <<>>
  BY <1>1, <1>3 DEF AttachInv, StageInv
<1>. QED
  BY <1>5, <1>6, <1>7, <1>8, <1>9, <1>10, <1>11

\* A client puts a message into its socket.
LEMMA PutIntoSocket ==
  ASSUME ConnInv, NEW c \in Clients, NEW msg \in Input, Len(up[c]) < UpCap,
         up' = [up EXCEPT ![c] = Append(up[c], msg)], msg.type # "attach"
  PROVE  /\ up' \in [Clients -> Seq(Input)]
         /\ \A d \in Clients : Len(up'[d]) <= UpCap
         /\ \A d \in Clients \ {c} : up'[d] = up[d]
         /\ \A i \in 1 .. Len(up'[c]) : up'[c][i].type = "attach" =>
              i \in 1 .. Len(up[c]) /\ up'[c][i] = up[c][i]
<1>1. /\ up \in [Clients -> Seq(Input)]
      /\ \A d \in Clients : Len(up[d]) <= UpCap
      /\ UpCap \in Nat /\ Len(up[c]) \in Nat
  BY ConnectionAssumption DEF ConnInv, Types
<1>2. /\ Append(up[c], msg) \in Seq(Input)
      /\ Len(Append(up[c], msg)) = Len(up[c]) + 1
      /\ \A i \in 1 .. Len(up[c]) : Append(up[c], msg)[i] = up[c][i]
      /\ Append(up[c], msg)[Len(up[c]) + 1] = msg
  BY <1>1, AppendProperties
<1>3. up'[c] = Append(up[c], msg) /\ \A d \in Clients \ {c} : up'[d] = up[d]
  BY <1>1
<1>4. ASSUME NEW i \in 1 .. Len(up'[c]), up'[c][i].type = "attach"
      PROVE  i \in 1 .. Len(up[c]) /\ up'[c][i] = up[c][i]
  <2>1. i # Len(up[c]) + 1
    BY <1>2, <1>3, <1>4
  <2>2. i \in 1 .. Len(up[c])
    BY <1>1, <1>2, <1>3, <2>1
  <2>. QED
    BY <1>2, <1>3, <2>2
<1>5. up' \in [Clients -> Seq(Input)]
  BY <1>1, <1>2
<1>6. \A d \in Clients : Len(up'[d]) <= UpCap
  BY <1>1, <1>2, <1>3
<1>. QED
  BY <1>3, <1>4, <1>5, <1>6

\* Bytes given to write_all are on their way.
LEMMA WriteSeen ==
  ASSUME Types, NEW c \in Clients, NEW bytes \in Seq(Nat), Write(c, bytes),
         shown' = shown
  PROVE  Seen(c)' = (shown[c] \o down[c]) \o bytes
<1>. DEFINE s == shown[c]
            a == down[c]
            a2 == down'[c]
            b2 == out'[c]
<1>1. s \in Seq(Nat) /\ a \in Seq(Nat) /\ a2 \in Seq(Nat) /\ b2 \in Seq(Nat)
  BY SeenType, WriteSplits
<1>2. a2 \o b2 = a \o bytes
  BY WriteSplits
<1>3. Seen(c)' = (s \o a2) \o b2
  BY DEF Seen
<1>. HIDE DEF s, a, a2, b2
<1>4. (s \o a2) \o b2 = s \o (a2 \o b2)
  <2>1. s \in Seq(Nat) /\ a2 \in Seq(Nat) /\ b2 \in Seq(Nat)
    BY <1>1
  <2>. QED
    BY ONLY <2>1, BytesAssociative
<1>5. (s \o a) \o bytes = s \o (a \o bytes)
  <2>1. s \in Seq(Nat) /\ a \in Seq(Nat) /\ bytes \in Seq(Nat)
    BY <1>1
  <2>. QED
    BY ONLY <2>1, BytesAssociative
<1>. QED
  BY <1>2, <1>3, <1>4, <1>5 DEF s, a

-------------------------------------------------------------------------------
(* What every step must keep besides the fanout's own invariant, and the two *)
(* forms most steps have.                                                    *)

Kept == Types /\ Bounds /\ \A c \in Clients : Local(c)

LEMMA OneClient ==
  ASSUME ConnInv, NEW c \in Clients, ends' = ends, logged' = logged, Types',
         \A d \in Clients \ {c} : Same(d), Local(c)'
  PROVE  Kept'
<1>1. Bounds'
  BY DEF ConnInv, Bounds, produced, EndOf
<1>2. ASSUME NEW d \in Clients PROVE Local(d)'
  BY SameStays
<1>. QED
  BY <1>1, <1>2 DEF Kept

\* Nothing on the way to the client moves.
Quiet(c) ==
  /\ shown' = shown /\ down' = down /\ out' = out /\ replayed' = replayed
  /\ got' = got /\ ends' = ends /\ logged' = logged
  /\ next' = next \/ next' = [next EXCEPT ![c] = 0]

LEMMA QuietView ==
  ASSUME ConnInv, NEW c \in Clients, Quiet(c)
  PROVE  /\ ViewInv(c)' /\ (Fresh(c) => Fresh(c)')
         /\ \A d \in Clients \ {c} : next'[d] = next[d]
<1>1. next \in [Clients -> Nat]
  BY DEF ConnInv, IInv, TypeOK
<1>2. next'[c] \in {next[c], 0} /\ \A d \in Clients \ {c} : next'[d] = next[d]
  BY <1>1 DEF Quiet
<1>3. Seen(c)' = Seen(c)
  BY DEF Quiet, Seen
<1>4. ViewInv(c)'
  BY <1>2, <1>3, KeepsView DEF Quiet
<1>5. Fresh(c) => Fresh(c)'
  BY <1>2 DEF Quiet, Fresh
<1>. QED
  BY <1>2, <1>4, <1>5

LEMMA QuietStep ==
  ASSUME ConnInv, NEW c \in Clients, Quiet(c), Types', StageInv(c)',
         \A d \in Clients \ {c} :
           /\ handler'[d] = handler[d] /\ held'[d] = held[d] /\ up'[d] = up[d]
           /\ client'[d] = client[d] /\ typed'[d] = typed[d],
         client'[c] \in {"idle", "read"} =>
           client'[c] = client[c] /\ up'[c] = up[c],
         client'[c] = "idle" => handler'[c] = handler[c],
         \A i \in 1 .. Len(up'[c]) : up'[c][i].type = "attach" =>
           i \in 1 .. Len(up[c]) /\ up'[c][i] = up[c][i]
  PROVE  Kept'
<1>1. ViewInv(c)' /\ (Fresh(c) => Fresh(c)')
  BY QuietView
<1>2. ASSUME NEW d \in Clients \ {c} PROVE Same(d)
  BY QuietView DEF Same, Quiet
<1>3. client'[c] = "idle" => handler'[c] \in {"none", "gone"}
  BY DEF ConnInv, AttachInv
<1>4. AttachInv(c)'
  BY <1>1, <1>3, AttachKept DEF Quiet
<1>5. Local(c)'
  BY <1>1, <1>4 DEF Local
<1>. QED
  BY <1>2, <1>5, OneClient DEF Quiet

-------------------------------------------------------------------------------
(* Handler steps that move nothing towards the client.                       *)

LEMMA QuietHandlerSteps ==
  ASSUME ConnInv, NEW c \in Clients,
         \/ accept(c) \/ takeDetach(c) \/ receivePush(c) \/ forwardPush(c)
         \/ takeLag(c) \/ writeFails(c) \/ readEnd(c)
  PROVE  Kept'
<1>. USE DEF fanoutVars, daemonVars, handlerVars, socketVars, clientVars
<1>1. Types /\ StageInv(c) /\ AttachInv(c) /\ TypeOK
  BY DEF ConnInv, IInv
<1>2. CASE accept(c)
  <2>1. Types'
    BY <1>1, <1>2 DEF Types, accept, HandlerStages
  <2>2. StageInv(c)'
    BY <1>1, <1>2 DEF Types, StageInv, accept
  <2>3. Quiet(c)
    BY <1>2 DEF Quiet, accept
  <2>4. client[c] # "idle"
    BY <1>1, <1>2 DEF AttachInv, accept
  <2>. QED
    BY <1>1, <1>2, <2>1, <2>2, <2>3, <2>4, QuietStep DEF Types, accept
<1>3. CASE takeDetach(c)
  <2>. USE <1>3 DEF takeDetach
  <2>1. /\ up' \in [Clients -> Seq(Input)]
        /\ \A d \in Clients : Len(up'[d]) <= UpCap
        /\ \A d \in Clients \ {c} : up'[d] = up[d]
        /\ client[c] \notin {"idle", "read"}
        /\ \A i \in 1 .. Len(up'[c]) : up'[c][i].type # "attach"
    BY Taken
  <2>2. Types' /\ StageInv(c)'
    BY <1>1, <2>1 DEF Types, StageInv
  <2>3. Quiet(c)
    BY DEF Quiet, detach
  <2>. QED
    BY <1>1, <2>1, <2>2, <2>3, QuietStep
<1>4. CASE receivePush(c)
  <2>. USE <1>4 DEF receivePush
  <2>1. /\ up' \in [Clients -> Seq(Input)]
        /\ \A d \in Clients : Len(up'[d]) <= UpCap
        /\ \A d \in Clients \ {c} : up'[d] = up[d]
        /\ Head(up[c]) \in Input
        /\ client[c] \notin {"idle", "read"} /\ out[c] = <<>>
        /\ \A i \in 1 .. Len(up'[c]) : up'[c][i].type # "attach"
    BY Taken
  <2>2. Head(up[c]).n \in 1 .. MaxTyped
    BY <2>1 DEF Received, Input, detachMsg
  <2>3. MaxTyped \in Nat
    BY ConnectionAssumption
  <2>4. Types'
    <3>1. held' \in [Clients -> 0 .. MaxTyped] /\ handler' \in [Clients -> HandlerStages]
      BY <1>1, <2>2, <2>3 DEF Types, HandlerStages
    <3>2. UNCHANGED <<fanoutVars, daemonVars, out, down, clientVars>>
      OBVIOUS
    <3>. QED
      BY ONLY <1>1, <2>1, <3>1, <3>2, Types
         DEF Types, fanoutVars, daemonVars, clientVars
  <2>5. StageInv(c)'
    BY <1>1, <2>1, <2>2, <2>3 DEF Types, StageInv
  <2>6. Quiet(c)
    BY DEF Quiet
  <2>7. \A d \in Clients \ {c} : handler'[d] = handler[d] /\ held'[d] = held[d]
    BY <1>1 DEF Types
  <2>. QED
    BY <1>1, <2>1, <2>4, <2>5, <2>6, <2>7, QuietStep
<1>5. CASE forwardPush(c)
  <2>. USE <1>5 DEF forwardPush
  <2>1. held[c] \in 1 .. MaxTyped /\ MaxTyped \in Nat /\ out[c] = <<>>
    BY <1>1, ConnectionAssumption DEF Types, StageInv
  <2>2. pushq' \in Seq(Clients \X (1 .. MaxTyped)) /\ Len(pushq') <= PushCap
    <3>1. /\ pushq \in Seq(Clients \X (1 .. MaxTyped)) /\ Len(pushq) \in Nat
          /\ Len(pushq) < PushCap /\ PushCap \in Nat
          /\ <<c, held[c]>> \in Clients \X (1 .. MaxTyped)
      BY <1>1, <2>1, ConnectionAssumption DEF Types
    <3>. QED
      BY <3>1, AppendProperties
  <2>3. Types'
    BY <1>1, <2>1, <2>2 DEF Types, HandlerStages
  <2>4. StageInv(c)'
    BY <1>1, <2>1 DEF Types, StageInv
  <2>5. Quiet(c)
    BY DEF Quiet
  <2>6. \A d \in Clients \ {c} : handler'[d] = handler[d] /\ held'[d] = held[d]
    BY <1>1 DEF Types
  <2>7. client[c] # "idle"
    BY <1>1 DEF AttachInv
  <2>. QED
    BY <1>1, <2>3, <2>4, <2>5, <2>6, <2>7, QuietStep
<1>6. CASE takeLag(c) \/ writeFails(c) \/ readEnd(c)
  <2>1. /\ handler[c] \notin {"none", "gone"}
        /\ handler' = [handler EXCEPT ![c] = "gone"]
        /\ UNCHANGED <<logged, daemon, pushq, taken, out, held, socketVars, clientVars>>
        /\ Quiet(c)
    BY <1>6 DEF takeLag, writeFails, readEnd, Quiet, lagged, detach
  <2>2. Types' /\ StageInv(c)'
    BY <1>1, <2>1 DEF Types, HandlerStages, StageInv
  <2>3. \A d \in Clients \ {c} : handler'[d] = handler[d]
    BY <1>1, <2>1 DEF Types
  <2>4. client[c] # "idle"
    BY <1>1, <2>1 DEF AttachInv
  <2>. QED
    BY <1>1, <2>1, <2>2, <2>3, <2>4, QuietStep
<1>. QED
  BY <1>2, <1>3, <1>4, <1>5, <1>6

-------------------------------------------------------------------------------
(* Client steps that move nothing towards the terminal.                      *)

LEMMA QuietClientSteps ==
  ASSUME ConnInv, NEW c \in Clients,
         input(c) \/ sendDone(c) \/ sendFails(c) \/ seeEnd(c) \/ leave(c) \/ suspend(c)
  PROVE  Kept'
<1>. USE DEF fanoutVars, daemonVars, handlerVars, socketVars, clientVars
<1>1. Types /\ StageInv(c) /\ AttachInv(c) /\ MaxTyped \in Nat
  BY ConnectionAssumption DEF ConnInv
<1>2. Quiet(c) /\ UNCHANGED <<daemonVars, handler, out, held, down, replayed, shown>>
  BY DEF input, sendDone, sendFails, seeEnd, leave, suspend, Quiet
<1>3. /\ client' = [client EXCEPT ![c] = client'[c]]
      /\ client'[c] \in ClientStages \ {"idle", "read"}
      /\ client'[c] = "sending" => input(c)
  BY <1>1 DEF input, sendDone, sendFails, seeEnd, leave, suspend, Types, ClientStages
<1>4. /\ typed' = [typed EXCEPT ![c] = typed'[c]] /\ typed'[c] \in 0 .. MaxTyped
      /\ input(c) => typed'[c] # 0
  BY <1>1, SMTT(30) DEF input, sendDone, sendFails, seeEnd, leave, suspend, Types
<1>5. /\ up' \in [Clients -> Seq(Input)]
      /\ \A d \in Clients : Len(up'[d]) <= UpCap
      /\ \A d \in Clients \ {c} : up'[d] = up[d]
      /\ \A i \in 1 .. Len(up'[c]) : up'[c][i].type = "attach" =>
           i \in 1 .. Len(up[c]) /\ up'[c][i] = up[c][i]
  <2>1. CASE up' = up
    BY <1>1, <2>1 DEF Types
  <2>2. CASE sendDone(c)
    <3>1. typed[c] \in 1 .. MaxTyped
      BY <1>1, <2>2 DEF StageInv, Types, sendDone
    <3>2. pushMsg(typed[c]) \in Input /\ pushMsg(typed[c]).type # "attach"
      BY <3>1 DEF pushMsg, Input
    <3>3. Len(up[c]) < UpCap /\ up' = [up EXCEPT ![c] = Append(up[c], pushMsg(typed[c]))]
      BY <2>2 DEF sendDone
    <3>. QED
      BY <3>2, <3>3, PutIntoSocket
  <2>3. CASE suspend(c)
    <3>1. detachMsg \in Input /\ detachMsg.type # "attach"
      BY DEF detachMsg, Input
    <3>2. Len(up[c]) < UpCap /\ up' = [up EXCEPT ![c] = Append(up[c], detachMsg)]
      BY <2>3 DEF suspend
    <3>. QED
      BY <3>1, <3>2, PutIntoSocket
  <2>. QED
    BY <2>1, <2>2, <2>3 DEF input, sendFails, seeEnd, leave
<1>6. Types'
  BY <1>1, <1>2, <1>3, <1>4, <1>5 DEF Types
<1>7. StageInv(c)'
  BY <1>1, <1>2, <1>3, <1>4 DEF StageInv
<1>8. \A d \in Clients \ {c} : client'[d] = client[d] /\ typed'[d] = typed[d]
  BY <1>1, <1>3, <1>4 DEF Types
<1>. QED
  BY <1>2, <1>3, <1>5, <1>6, <1>7, <1>8, QuietStep

LEMMA ConnectStep ==
  ASSUME ConnInv, NEW c \in Clients, connect(c)
  PROVE  Kept'
<1>. USE DEF fanoutVars, daemonVars, handlerVars, socketVars, clientVars
<1>1. Types /\ StageInv(c) /\ AttachInv(c) /\ UpCap \in Nat \ {0}
  BY ConnectionAssumption DEF ConnInv
<1>2. Quiet(c) /\ UNCHANGED <<daemonVars, out, held, down, replayed, typed, shown>>
  BY DEF connect, Quiet
<1>3. client[c] \in {"idle", "read"} /\ up[c] = <<>> /\ Fresh(c)
  BY <1>1 DEF connect, AttachInv
<1>4. ViewInv(c)' /\ Fresh(c)' /\ \A d \in Clients \ {c} : next'[d] = next[d]
  BY <1>2, <1>3, QuietView
<1>. DEFINE first == IF c \in Viewers THEN <<attachMsg(replayed[c])>> ELSE <<>>
<1>5. /\ first \in Seq(Input) /\ Len(first) <= 1
      /\ \A i \in 1 .. Len(first) :
           i = 1 /\ c \in Viewers /\ first[i].skip = replayed[c]
  <2>1. CASE c \in Viewers
    <3>1. attachMsg(replayed[c]) \in Input /\ attachMsg(replayed[c]).skip = replayed[c]
      BY <1>1 DEF attachMsg, Input, Types
    <3>. QED
      BY <2>1, <3>1
  <2>2. CASE c \notin Viewers
    BY <2>2
  <2>. QED
    BY <2>1, <2>2
<1>6. /\ client' = [client EXCEPT ![c] = client'[c]] /\ client'[c] \in {"loop", "failed"}
      /\ handler' = [handler EXCEPT ![c] = handler'[c]]
      /\ handler'[c] \in {handler[c], "backlog"}
      /\ up' = [up EXCEPT ![c] = up'[c]] /\ up'[c] \in {up[c], first}
      /\ handler'[c] = "backlog" => out[c] = <<>>
  BY <1>1, <1>3 DEF connect, Types, Fresh
<1>. HIDE DEF first
<1>7. Types'
  <2>1. up' \in [Clients -> Seq(Input)] /\ \A d \in Clients : Len(up'[d]) <= UpCap
    <3>1. up'[c] \in Seq(Input) /\ Len(up'[c]) <= UpCap
      BY <1>1, <1>5, <1>6 DEF Types
    <3>. QED
      BY <1>1, <1>6, <3>1 DEF Types
  <2>2. client' \in [Clients -> ClientStages] /\ handler' \in [Clients -> HandlerStages]
    <3>1. client'[c] \in ClientStages /\ handler'[c] \in HandlerStages
      BY <1>1, <1>6 DEF Types, HandlerStages, ClientStages
    <3>. QED
      BY <1>1, <1>6, <3>1 DEF Types
  <2>. QED
    BY <1>1, <1>2, <2>1, <2>2 DEF Types
<1>8. StageInv(c)'
  BY <1>1, <1>2, <1>6 DEF StageInv
<1>9. AttachInv(c)'
  <2>1. ASSUME NEW i \in 1 .. Len(up'[c])
        PROVE  i = 1 /\ c \in Viewers /\ up'[c][i].skip = replayed'[c]
    <3>1. up'[c] = first
      BY <1>3, <1>6
    <3>. QED
      BY <1>2, <1>5, <3>1
  <2>. QED
    BY <1>4, <1>6, <2>1 DEF AttachInv
<1>10. ASSUME NEW d \in Clients \ {c} PROVE Same(d)
  BY <1>1, <1>2, <1>4, <1>6 DEF Same, Types, Quiet
<1>11. Local(c)'
  BY <1>4, <1>8, <1>9 DEF Local
<1>. QED
  BY <1>2, <1>7, <1>10, <1>11, OneClient DEF Quiet

-------------------------------------------------------------------------------
(* Steps that move bytes.                                                    *)

\* The client reads the log: there is nothing else on its way yet.
LEMMA ReplayStep ==
  ASSUME ConnInv, NEW c \in Clients, replay_log(c)
  PROVE  Kept'
<1>. USE DEF fanoutVars, daemonVars, handlerVars, socketVars, clientVars, replay_log
<1>1. /\ Types /\ StageInv(c) /\ AttachInv(c) /\ Bounds
      /\ logged \in Nat /\ produced \in Nat
  BY ReachType DEF ConnInv, Types
<1>2. up[c] = <<>> /\ Fresh(c)
  BY <1>1 DEF AttachInv
<1>3. /\ Span(0, logged) \in Seq(Nat) /\ Len(Span(0, logged)) = logged
      /\ Rising(Span(0, logged), produced)
  <2>1. RunTo(Span(0, logged), logged)
    <3>1. 0 \in 0 .. logged /\ (0 < logged \/ logged = 0)
      BY <1>1
    <3>. QED
      BY <3>1 DEF RunTo
  <2>2. Span(0, logged) \in Seq(Nat) /\ Rising(Span(0, logged), logged)
    BY <1>1, <2>1, RunRises
  <2>3. Len(Span(0, logged)) = logged
    BY <1>1, SpanElements
  <2>. QED
    BY <1>1, <2>2, <2>3, RisingHigher DEF Bounds
<1>4. /\ shown'[c] = Span(0, logged) /\ replayed'[c] = (logged > 0)
      /\ client'[c] = "read"
      /\ shown' \in [Clients -> Seq(Nat)] /\ replayed' \in [Clients -> BOOLEAN]
      /\ client' \in [Clients -> ClientStages]
  BY <1>1, <1>3 DEF Types, ClientStages
<1>5. Seen(c)' = Span(0, logged)
  <2>1. down'[c] = <<>> /\ out'[c] = <<>>
    BY <1>2 DEF Fresh
  <2>. QED
    BY <1>3, <1>4, <2>1, ConcatEmptySeq DEF Seen
<1>6. replayed'[c] \/ Span(0, logged) = <<>>
  <2>1. CASE logged = 0
    BY <1>3, <2>1
  <2>2. CASE logged > 0
    BY <1>4, <2>2
  <2>. QED
    BY <1>1, <2>1, <2>2
<1>7. ViewInv(c)'
  <2>1. Reach(c)' = produced
    BY <1>2 DEF Reach, Fresh, produced, EndOf
  <2>2. ~replayed'[c] => Seen(c)' = got'[c]
    BY <1>1, <1>2, <1>4, <1>5, <1>6 DEF Fresh
  <2>3. Rising(Seen(c)', Reach(c)')
    BY <1>3, <1>5, <2>1
  <2>. QED
    BY <2>2, <2>3 DEF ViewInv, Rising
<1>8. Fresh(c)'
  BY <1>1, <1>2, <1>4, <1>6 DEF Fresh
<1>9. AttachInv(c)'
  BY <1>2, <1>4, <1>8 DEF AttachInv
<1>10. StageInv(c)'
  BY <1>1, <1>4 DEF StageInv
<1>11. Types'
  BY <1>1, <1>4 DEF Types
<1>12. ASSUME NEW d \in Clients \ {c} PROVE Same(d)
  BY <1>1 DEF Same, Types
<1>13. Local(c)'
  BY <1>7, <1>9, <1>10 DEF Local
<1>. QED
  BY <1>11, <1>12, <1>13, OneClient

\* The terminal takes what is in the socket.
LEMMA ShowStep ==
  ASSUME ConnInv, NEW c \in Clients, show(c)
  PROVE  Kept'
<1>. USE DEF fanoutVars, daemonVars, handlerVars, socketVars, clientVars, show
<1>1. Types /\ StageInv(c)
  BY DEF ConnInv
<1>2. /\ shown'[c] = shown[c] \o down[c] /\ down'[c] = <<>>
      /\ \A d \in Clients \ {c} : shown'[d] = shown[d] /\ down'[d] = down[d]
  BY <1>1 DEF Types
<1>3. shown[c] \o down[c] \in Seq(Nat)
  BY <1>1, SeenType
<1>4. Seen(c)' = Seen(c)
  BY <1>2, <1>3, ConcatEmptySeq DEF Seen
<1>5. Types'
  <2>1. shown' \in [Clients -> Seq(Nat)]
    BY <1>1, <1>3 DEF Types
  <2>2. down' \in [Clients -> Seq(Nat)] /\ \A d \in Clients : Len(down'[d]) <= DownCap
    BY <1>1, <1>2, ConnectionAssumption DEF Types
  <2>. QED
    BY <1>1, <2>1, <2>2 DEF Types
<1>6. ViewInv(c)'
  BY <1>4, KeepsView
<1>7. AttachInv(c)'
  <2>1. ~Fresh(c)
    BY DEF Fresh
  <2>2. \A i \in 1 .. Len(up[c]) : up[c][i].type # "attach"
    BY <2>1 DEF ConnInv, AttachInv
  <2>. QED
    BY <2>2 DEF AttachInv
<1>8. StageInv(c)'
  BY <1>1 DEF StageInv
<1>9. ASSUME NEW d \in Clients \ {c} PROVE Same(d)
  BY <1>2 DEF Same
<1>10. Local(c)'
  BY <1>6, <1>7, <1>8 DEF Local
<1>. QED
  BY <1>5, <1>9, <1>10, OneClient

\* The types after a poll of write_all, and the clients it is not for.
LEMMA WriteKeeps ==
  ASSUME ConnInv, NEW c \in Clients, NEW bytes \in Seq(Nat), Write(c, bytes),
         UNCHANGED <<daemonVars, held, clientVars>>,
         up' \in [Clients -> Seq(Input)], \A d \in Clients : Len(up'[d]) <= UpCap,
         handler[c] \notin {"none", "gone"},
         \A d \in Clients \ {c} :
           up'[d] = up[d] /\ next'[d] = next[d] /\ got'[d] = got[d]
  PROVE  /\ Types' /\ StageInv(c)' /\ client[c] # "idle"
         /\ Seen(c)' = (shown[c] \o down[c]) \o bytes
         /\ \A d \in Clients \ {c} : Same(d)
<1>. USE DEF daemonVars, clientVars
<1>1. Types /\ StageInv(c) /\ AttachInv(c)
  BY DEF ConnInv
<1>2. /\ down' \in [Clients -> Seq(Nat)] /\ out' \in [Clients -> Seq(Nat)]
      /\ handler' \in [Clients -> HandlerStages]
      /\ Len(down'[c]) <= DownCap
      /\ handler'[c] \in {"select", "sending"}
      /\ handler'[c] = "select" => out'[c] = <<>>
      /\ \A d \in Clients \ {c} :
           down'[d] = down[d] /\ out'[d] = out[d] /\ handler'[d] = handler[d]
  BY <1>1, WriteSplits
<1>3. Seen(c)' = (shown[c] \o down[c]) \o bytes
  BY <1>1, WriteSeen
<1>4. Types'
  <2>1. \A d \in Clients : Len(down'[d]) <= DownCap
    BY <1>1, <1>2 DEF Types
  <2>. QED
    BY <1>1, <1>2, <2>1 DEF Types
<1>5. StageInv(c)'
  BY <1>1, <1>2 DEF StageInv
<1>6. \A d \in Clients \ {c} : Same(d)
  BY <1>2 DEF Same
<1>. QED
  BY <1>1, <1>3, <1>4, <1>5, <1>6 DEF AttachInv

LEMMA WriteMoreStep ==
  ASSUME ConnInv, NEW c \in Clients, writeMore(c)
  PROVE  Kept'
<1>. USE DEF writeMore, fanoutVars, daemonVars, clientVars
<1>1. /\ Types /\ AttachInv(c)
      /\ shown[c] \in Seq(Nat) /\ down[c] \in Seq(Nat) /\ out[c] \in Seq(Nat)
  BY SeenType DEF ConnInv
<1>2. /\ up' \in [Clients -> Seq(Input)] /\ \A d \in Clients : Len(up'[d]) <= UpCap
  BY <1>1 DEF Types
<1>3. /\ Types' /\ StageInv(c)' /\ client[c] # "idle"
      /\ Seen(c)' = (shown[c] \o down[c]) \o out[c]
      /\ \A d \in Clients \ {c} : Same(d)
  BY <1>1, <1>2, WriteKeeps
<1>4. ViewInv(c)'
  BY <1>3, KeepsView DEF Seen
<1>5. Fresh(c) => Fresh(c)'
  <2>. SUFFICES ASSUME Fresh(c) PROVE Fresh(c)'
    OBVIOUS
  <2>1. down'[c] \o out'[c] = down[c] \o out[c]
        /\ down'[c] \in Seq(Nat) /\ out'[c] \in Seq(Nat)
    BY <1>1, WriteSplits
  <2>2. down[c] \o out[c] = <<>>
    BY DEF Fresh
  <2>3. down'[c] = <<>> /\ out'[c] = <<>>
    BY <2>1, <2>2, ConcatEqualIffEmpty
  <2>. QED
    BY <2>3 DEF Fresh
<1>6. AttachInv(c)'
  BY <1>1, <1>3, <1>5, AttachKept
<1>7. Local(c)'
  BY <1>3, <1>4, <1>6 DEF Local
<1>. QED
  BY <1>3, <1>7, OneClient

\* A chunk follows what is on the way: the view ended where it begins.
LEMMA TakeChunkStep ==
  ASSUME ConnInv, NEW c \in Clients, takeChunk(c)
  PROVE  Kept'
<1>. USE DEF takeChunk, daemonVars, clientVars
<1>. DEFINE k == next[c]
            lo == EndOf(k - 1)
            hi == EndOf(k)
<1>1. /\ Types /\ AttachInv(c) /\ StageInv(c) /\ ViewInv(c) /\ TypeOK
      /\ shown[c] \o down[c] \in Seq(Nat) /\ Seen(c) \in Seq(Nat)
  BY SeenType DEF ConnInv, IInv
<1>2. /\ k \in 1 .. Len(ends) /\ ends' = ends
      /\ next' = [next EXCEPT ![c] = k + 1]
      /\ got' = [got EXCEPT ![c] = got[c] \o Span(lo, hi)]
      /\ chunk(next[c]) = Span(lo, hi)
  BY DEF recv, chunk
<1>3. lo \in Nat /\ hi \in Nat /\ lo < hi
  <2>1. EndsGrow /\ k - 1 \in 0 .. Len(ends) /\ k \in 0 .. Len(ends)
    BY <1>2, ReachType DEF ConnInv, IInv
  <2>. QED
    BY <1>1, <1>2, <2>1, EndOfType DEF EndsGrow
<1>4. Span(lo, hi) \in Seq(Nat)
  BY <1>3, SpanElements
<1>5. /\ next'[c] = k + 1 /\ got'[c] = got[c] \o Span(lo, hi)
      /\ \A d \in Clients \ {c} : next'[d] = next[d] /\ got'[d] = got[d]
  BY <1>1, <1>2 DEF TypeOK
<1>6. up' \in [Clients -> Seq(Input)] /\ \A d \in Clients : Len(up'[d]) <= UpCap
  BY <1>1 DEF Types
<1>7. /\ Types' /\ StageInv(c)' /\ client[c] # "idle"
      /\ Seen(c)' = (shown[c] \o down[c]) \o Span(lo, hi)
      /\ \A d \in Clients \ {c} : Same(d)
  BY <1>2, <1>4, <1>5, <1>6, WriteKeeps
<1>8. Seen(c)' = Seen(c) \o Span(lo, hi)
  <2>1. Seen(c) = shown[c] \o down[c]
    BY <1>1, ConcatEmptySeq DEF StageInv, Seen
  <2>. QED
    BY <1>7, <2>1
<1>9. k # 0 /\ Reach(c) = lo /\ Reach(c)' = hi
  <2>1. k \in Nat /\ k # 0 /\ (k + 1) - 1 = k /\ k + 1 # 0
    BY <1>2
  <2>2. Reach(c)' = EndOf(k)
    <3>1. next'[c] # 0 /\ next'[c] - 1 = k
      BY <1>2, <1>5, <2>1
    <3>. HIDE DEF k
    <3>. QED
      BY <1>2, <2>1, <3>1 DEF Reach, EndOf
  <2>. QED
    BY <2>1, <2>2 DEF Reach
<1>. HIDE DEF k, lo, hi
<1>10. ViewInv(c)'
  <2>1. Rising(Seen(c), lo)
    BY <1>1, <1>9 DEF ViewInv
  <2>2. Rising(Seen(c) \o Span(lo, hi), hi)
    BY <1>1, <1>3, <2>1, RisingJoin
  <2>3. Rising(Seen(c)', Reach(c)')
    BY <1>8, <1>9, <2>2
  <2>4. c \in Viewers /\ ~replayed'[c] => Seen(c)' = got'[c]
    BY <1>1, <1>5, <1>8 DEF ViewInv
  <2>. QED
    BY <2>3, <2>4 DEF ViewInv, Rising
<1>11. AttachInv(c)'
  <2>1. ~Fresh(c)
    BY <1>9 DEF Fresh, k
  <2>. QED
    BY <1>7, <2>1, AttachKept
<1>12. Local(c)'
  BY <1>7, <1>10, <1>11 DEF Local
<1>. QED
  BY <1>2, <1>7, <1>12, OneClient

\* The handshake: with the scrollback nothing was on the way, without it
\* nothing past the channel's end was.
LEMMA TakeAttachStep ==
  ASSUME ConnInv, NEW c \in Clients, takeAttach(c)
  PROVE  Kept'
<1>. USE DEF takeAttach, daemonVars, clientVars
<1>1. /\ Types /\ AttachInv(c) /\ StageInv(c) /\ ViewInv(c) /\ TypeOK
      /\ Seen(c) \in Seq(Nat)
  BY SeenType DEF ConnInv, IInv
<1>2. /\ up' \in [Clients -> Seq(Input)]
      /\ \A d \in Clients : Len(up'[d]) <= UpCap
      /\ \A d \in Clients \ {c} : up'[d] = up[d]
      /\ Head(up[c]) = up[c][1] /\ 1 \in 1 .. Len(up[c])
      /\ client[c] \notin {"idle", "read"} /\ out[c] = <<>>
      /\ \A i \in 1 .. Len(up'[c]) : up'[c][i].type # "attach"
      /\ Head(up[c]).type = "attach" /\ handler[c] = "select"
  BY Taken DEF Received
<1>3. c \in Viewers /\ Head(up[c]).skip = replayed[c] /\ Fresh(c)
  BY <1>1, <1>2 DEF AttachInv
<1>4. /\ ends' = ends /\ next' = [next EXCEPT ![c] = Len(ends) + 1]
      /\ got' = [got EXCEPT ![c] = ring]
  BY DEF attach
<1>5. /\ next'[c] = Len(ends) + 1 /\ got'[c] = ring /\ ring \in Seq(Nat)
      /\ \A d \in Clients \ {c} : next'[d] = next[d] /\ got'[d] = got[d]
  BY <1>1, <1>4 DEF TypeOK
<1>6. Reach(c)' = produced /\ Reach(c) = produced /\ produced \in Nat
  <2>1. Len(ends) \in Nat /\ produced \in Nat
    BY ReachType
  <2>2. Reach(c)' = produced
    BY <1>4, <1>5, <2>1 DEF Reach, produced, EndOf
  <2>. QED
    BY <1>3, <2>1, <2>2 DEF Reach, Fresh
<1>7. AttachInv(c)'
  BY <1>2 DEF AttachInv
<1>8. CASE replayed[c]
  <2>1. UNCHANGED <<down, out, handler>>
    BY <1>3, <1>8
  <2>2. Types' /\ StageInv(c)'
    BY <1>1, <1>2, <2>1 DEF Types, StageInv
  <2>3. Seen(c)' = Seen(c)
    BY <2>1 DEF Seen
  <2>4. ViewInv(c)'
    <3>1. Rising(Seen(c)', Reach(c)')
      BY <1>1, <1>6, <2>3 DEF ViewInv
    <3>. QED
      BY <1>8, <3>1 DEF ViewInv, Rising
  <2>5. \A d \in Clients \ {c} : Same(d)
    BY <1>2, <1>5, <2>1 DEF Same
  <2>6. Local(c)'
    BY <1>7, <2>2, <2>4 DEF Local
  <2>. QED
    BY <1>4, <2>2, <2>5, <2>6, OneClient
<1>9. CASE ~replayed[c]
  <2>1. Write(c, ring)
    BY <1>3, <1>9
  <2>2. /\ Types' /\ StageInv(c)'
        /\ Seen(c)' = (shown[c] \o down[c]) \o ring
        /\ \A d \in Clients \ {c} : Same(d)
    BY <1>2, <1>5, <2>1, WriteKeeps
  <2>3. Seen(c)' = ring
    <3>1. shown[c] = <<>> /\ down[c] = <<>>
      BY <1>3, <1>9 DEF Fresh
    <3>. QED
      BY <1>5, <2>2, <3>1, ConcatEmptySeq
  <2>4. Rising(ring, produced)
    BY <1>6, RunRises DEF ConnInv, IInv
  <2>5. ViewInv(c)'
    <3>1. Rising(Seen(c)', Reach(c)')
      BY <1>6, <2>3, <2>4
    <3>. QED
      BY <1>5, <2>3, <3>1 DEF ViewInv, Rising
  <2>6. Local(c)'
    BY <1>7, <2>2, <2>5 DEF Local
  <2>. QED
    BY <1>4, <2>2, <2>6, OneClient
<1>. QED
  BY <1>8, <1>9

-------------------------------------------------------------------------------
(* The daemon's steps.                                                       *)

LEMMA ReadOutputStep ==
  ASSUME ConnInv, NEW n \in 1 .. MaxChunk, readOutput(n)
  PROVE  Kept'
<1>. USE DEF readOutput, daemonVars, handlerVars, socketVars, clientVars
<1>1. /\ TypeOK /\ Types /\ Bounds /\ produced \in Nat /\ Len(ends) \in Nat
      /\ n \in Nat
  BY EndOfType, BoundAssumption DEF ConnInv, IInv, TypeOK
<1>2. /\ Len(ends') = Len(ends) + 1 /\ produced' = produced + n
      /\ \A k \in 0 .. Len(ends) : (IF k = 0 THEN 0 ELSE ends'[k]) = EndOf(k)
  BY <1>1, PushEnds DEF push
<1>3. Types'
  BY <1>1 DEF Types
<1>4. Bounds'
  <2>1. logged' <= produced' /\ produced' <= MaxBytes
    BY <1>1, <1>2 DEF Bounds, Types, push
  <2>2. ASSUME NEW k \in 0 .. Len(ends')
        PROVE  (IF k = 0 THEN 0 ELSE ends'[k]) <= produced'
    <3>1. CASE k \in 0 .. Len(ends)
      <4>1. EndOf(k) \in Nat /\ EndOf(k) <= produced
        BY <1>1, <3>1, EndOfType DEF Bounds
      <4>2. (IF k = 0 THEN 0 ELSE ends'[k]) = EndOf(k)
        BY <1>2, <3>1
      <4>3. EndOf(k) <= produced + n
        BY <1>1, <4>1
      <4>. QED
        BY <1>2, <4>2, <4>3
    <3>2. CASE k = Len(ends')
      <4>1. k # 0 /\ produced' = ends'[k]
        BY <1>1, <1>2, <3>2 DEF produced, EndOf
      <4>. QED
        BY <1>1, <1>2, <4>1
    <3>. QED
      BY <1>1, <1>2, <3>1, <3>2
  <2>. QED
    BY <2>1, <2>2 DEF Bounds, EndOf
<1>5. ASSUME NEW d \in Clients PROVE Local(d)'
  <2>1. Same(d)
    BY DEF Same, push
  <2>2. produced' \in Nat /\ produced <= produced'
    BY <1>1, <1>2
  <2>. QED
    BY <1>2, <2>1, <2>2, SameIsKept
<1>. QED
  BY <1>3, <1>4, <1>5 DEF Kept

LEMMA WriteLogStep ==
  ASSUME ConnInv, writeLog
  PROVE  Kept'
<1>. USE DEF writeLog, fanoutVars, handlerVars, socketVars, clientVars
<1>1. TypeOK /\ Types /\ Bounds /\ Len(ends) \in Nat
  BY DEF ConnInv, IInv, TypeOK
<1>2. logged' \in Nat /\ logged' <= produced
  <2>1. PICK k \in 1 .. Len(ends) : logged' = ends[k]
    OBVIOUS
  <2>2. k \in 0 .. Len(ends) /\ logged' = EndOf(k)
    BY <1>1, <2>1 DEF EndOf
  <2>. QED
    BY <1>1, <2>2, EndOfType DEF Bounds
<1>3. Types'
  BY <1>1, <1>2 DEF Types
<1>4. Bounds'
  BY <1>1, <1>2 DEF Bounds, produced, EndOf
<1>5. ASSUME NEW d \in Clients PROVE Local(d)'
  <2>1. Same(d)
    BY DEF Same
  <2>. QED
    BY <2>1, SameStays
<1>. QED
  BY <1>3, <1>4, <1>5 DEF Kept

LEMMA TakePushStep ==
  ASSUME ConnInv, takePush
  PROVE  Kept'
<1>. USE DEF takePush, fanoutVars, handlerVars, socketVars, clientVars
<1>1. /\ Types /\ Bounds /\ pushq \in Seq(Clients \X (1 .. MaxTyped))
      /\ Len(pushq) <= PushCap /\ PushCap \in Nat /\ pushq # <<>>
  BY ConnectionAssumption DEF ConnInv, Types
<1>2. /\ Head(pushq) \in Clients \X (1 .. MaxTyped)
      /\ Tail(pushq) \in Seq(Clients \X (1 .. MaxTyped))
      /\ Len(Tail(pushq)) = Len(pushq) - 1 /\ Len(pushq) \in Nat
  BY <1>1, HeadTailProperties
<1>3. PICK d \in Clients, m \in 1 .. MaxTyped : Head(pushq)[1] = d /\ Head(pushq)[2] = m
  BY <1>2
<1>4. taken' = [taken EXCEPT ![d] = Append(taken[d], m)]
  BY <1>3
<1>5. taken' \in [Clients -> Seq(1 .. MaxTyped)]
  <2>1. Append(taken[d], m) \in Seq(1 .. MaxTyped)
    BY <1>1, AppendProperties DEF Types
  <2>. QED
    BY <1>1, <1>4, <2>1 DEF Types
<1>6. pushq' \in Seq(Clients \X (1 .. MaxTyped)) /\ Len(pushq') <= PushCap
  BY <1>1, <1>2
<1>7. Types'
  BY <1>1, <1>5, <1>6 DEF Types
<1>8. Bounds'
  BY <1>1 DEF Bounds, produced, EndOf
<1>9. ASSUME NEW e \in Clients PROVE Local(e)'
  <2>1. Same(e)
    BY DEF Same
  <2>. QED
    BY <2>1, SameStays
<1>. QED
  BY <1>7, <1>8, <1>9 DEF Kept

LEMMA EndStep ==
  ASSUME ConnInv, endLoop \/ exit
  PROVE  Kept'
<1>. USE DEF fanoutVars, handlerVars, socketVars, clientVars
<1>1. /\ UNCHANGED <<fanoutVars, logged, pushq, taken, out, held, socketVars, clientVars>>
      /\ daemon' \in {"ending", "exited"}
      /\ \A c \in Clients : handler'[c] \in {handler[c], "gone"}
      /\ handler' \in [Clients -> HandlerStages]
  <2>1. handler \in [Clients -> HandlerStages] /\ "gone" \in HandlerStages
    BY DEF ConnInv, Types, HandlerStages
  <2>2. CASE endLoop
    BY <2>1, <2>2 DEF endLoop
  <2>3. CASE exit
    BY <2>1, <2>3 DEF exit
  <2>. QED
    BY <2>2, <2>3
<1>2. Types'
  BY <1>1 DEF ConnInv, Types
<1>3. Bounds'
  BY <1>1 DEF ConnInv, Bounds, produced, EndOf
<1>4. ASSUME NEW c \in Clients PROVE Local(c)'
  <2>1. StageInv(c) /\ AttachInv(c) /\ handler'[c] \in {handler[c], "gone"}
    BY <1>1 DEF ConnInv
  <2>2. StageInv(c)'
    BY <1>1, <2>1 DEF StageInv
  <2>3. AttachInv(c)'
    BY <1>1, <2>1 DEF AttachInv, Fresh
  <2>4. ViewInv(c)'
    BY <1>1, KeepsView DEF Seen
  <2>. QED
    BY <2>2, <2>3, <2>4 DEF Local
<1>. QED
  BY <1>2, <1>3, <1>4 DEF Kept

-------------------------------------------------------------------------------

\* Each step is one of the fanout's, or leaves it alone.
LEMMA FanoutStep ==
  ASSUME ConnInv, ConnNext
  PROVE  [Next]_fanoutVars
<1>1. next \in [Clients -> Nat]
  BY DEF ConnInv, IInv, TypeOK
<1>2. ASSUME NEW n \in 1 .. MaxChunk, readOutput(n) PROVE Next
  BY <1>2 DEF readOutput, Next
<1>3. ASSUME writeLog \/ takePush \/ endLoop \/ exit PROVE UNCHANGED fanoutVars
  BY <1>3 DEF writeLog, takePush, endLoop, exit
<1>4. ASSUME NEW c \in Clients,
             \/ accept(c) \/ receivePush(c) \/ forwardPush(c) \/ writeMore(c)
             \/ replay_log(c) \/ connect(c) \/ input(c) \/ leave(c) \/ suspend(c)
             \/ SendStep(c) \/ ReadStep(c)
      PROVE  UNCHANGED fanoutVars
  BY <1>4 DEF accept, receivePush, forwardPush, writeMore, replay_log, connect,
              input, leave, suspend, SendStep, ReadStep, sendDone, sendFails, show,
              seeEnd
<1>5. ASSUME NEW c \in Clients,
             takeAttach(c) \/ takeDetach(c) \/ takeChunk(c) \/ takeLag(c) \/ writeFails(c)
      PROVE  Next
  BY <1>5 DEF takeAttach, takeDetach, takeChunk, takeLag, writeFails, Next
<1>6. ASSUME NEW c \in Clients, readEnd(c)
      PROVE  Next \/ UNCHANGED fanoutVars
  <2>1. CASE next[c] = 0
    <3>1. next' = next
      BY <1>1, <1>6, <2>1 DEF readEnd
    <3>. QED
      BY <1>6, <3>1 DEF readEnd, fanoutVars
  <2>2. CASE next[c] # 0
    <3>1. detach(c)
      BY <1>6, <2>2 DEF readEnd, detach
    <3>. QED
      BY <3>1 DEF Next
  <2>. QED
    BY <2>1, <2>2
<1>. QED
  BY <1>2, <1>3, <1>4, <1>5, <1>6 DEF ConnNext, MessageStep, OutputStep, WaitStep

LEMMA ConnStepPreserves ==
  ASSUME ConnInv, [ConnNext]_connVars
  PROVE  ConnInv'
<1>1. ASSUME ConnNext PROVE IInv'
  BY <1>1, FanoutStep, StepPreserves DEF ConnInv
<1>2. ASSUME ConnNext PROVE Kept'
  <2>1. ASSUME NEW n \in 1 .. MaxChunk, readOutput(n) PROVE Kept'
    BY <2>1, ReadOutputStep
  <2>2. ASSUME NEW c \in Clients, MessageStep(c) \/ OutputStep(c) \/ WaitStep(c)
        PROVE  Kept'
    BY <2>2, QuietHandlerSteps, TakeAttachStep, TakeChunkStep, WriteMoreStep
       DEF MessageStep, OutputStep, WaitStep
  <2>3. ASSUME NEW c \in Clients,
               \/ accept(c) \/ replay_log(c) \/ connect(c) \/ input(c) \/ leave(c)
               \/ suspend(c) \/ SendStep(c) \/ ReadStep(c)
        PROVE  Kept'
    BY <2>3, QuietHandlerSteps, QuietClientSteps, ReplayStep, ConnectStep, ShowStep
       DEF SendStep, ReadStep
  <2>. QED
    BY <1>2, <2>1, <2>2, <2>3, WriteLogStep, TakePushStep, EndStep DEF ConnNext
<1>3. CASE UNCHANGED connVars
  <2>1. UNCHANGED fanoutVars /\ ends' = ends /\ logged' = logged
    BY <1>3 DEF connVars, fanoutVars, daemonVars
  <2>2. IInv'
    BY <2>1, StepPreserves DEF ConnInv
  <2>3. Types'
    BY <1>3 DEF ConnInv, Types, connVars, daemonVars, handlerVars, socketVars,
                clientVars
  <2>4. Bounds'
    BY <2>1 DEF ConnInv, Bounds, produced, EndOf
  <2>5. ASSUME NEW d \in Clients PROVE Local(d)'
    <3>1. Same(d)
      BY <1>3 DEF Same, connVars, fanoutVars, handlerVars, socketVars, clientVars
    <3>. QED
      BY <2>1, <3>1, SameStays
  <2>. QED
    BY <2>2, <2>3, <2>4, <2>5 DEF ConnInv, Local
<1>. QED
  BY <1>1, <1>2, <1>3 DEF ConnInv, Kept, Local

LEMMA ConnInitHolds == ConnInit => ConnInv
<1>. SUFFICES ASSUME ConnInit PROVE ConnInv
  OBVIOUS
<1>. USE DEF ConnInit, new
<1>1. IInv
  BY InitHolds DEF Init
<1>2. ends = <<>> /\ produced = 0
  BY DEF produced, EndOf
<1>3. Types
  BY ConnectionAssumption DEF Types, HandlerStages, ClientStages
<1>4. Bounds
  BY <1>2, BoundAssumption DEF Bounds, EndOf
<1>5. ASSUME NEW c \in Clients PROVE StageInv(c) /\ AttachInv(c) /\ ViewInv(c)
  <2>1. Seen(c) = <<>>
    BY ConcatEmptySeq DEF Seen
  <2>2. ViewInv(c)
    BY <2>1 DEF ViewInv, Rising
  <2>3. StageInv(c) /\ AttachInv(c)
    BY DEF StageInv, AttachInv, Fresh
  <2>. QED
    BY <2>2, <2>3
<1>. QED
  BY <1>1, <1>3, <1>4, <1>5 DEF ConnInv

LEMMA ConnInductive == ConnSpec => []ConnInv
<1>1. ConnInv /\ [ConnNext]_connVars => ConnInv'
  BY ConnStepPreserves
<1>. QED
  BY <1>1, ConnInitHolds, PTL DEF ConnSpec

LEMMA Narrowed ==
  ASSUME NEW S, NEW s \in Seq(Nat), \A i \in 1 .. Len(s) : s[i] \in S
  PROVE  s \in Seq(S)
<1>1. Len(s) \in Nat /\ s = [i \in 1 .. Len(s) |-> s[i]]
  BY LenProperties
<1>2. s \in [1 .. Len(s) -> S]
  BY <1>1
<1>. QED
  BY <1>1, <1>2, SeqDef

\* All that is on its way to a client are bytes of the child's output.
LEMMA SeenBounded ==
  ASSUME ConnInv, NEW c \in Clients
  PROVE  /\ shown[c] \in Seq(1 .. MaxBytes) /\ down[c] \in Seq(1 .. MaxBytes)
         /\ out[c] \in Seq(1 .. MaxBytes)
<1>. DEFINE s == shown[c]
            d == down[c]
            o == out[c]
            sd == s \o d
            all == sd \o o
<1>1. /\ s \in Seq(Nat) /\ d \in Seq(Nat) /\ o \in Seq(Nat) /\ sd \in Seq(Nat)
  BY SeenType DEF ConnInv
<1>2. \A i \in 1 .. Len(all) : all[i] \in 1 .. MaxBytes
  <2>1. /\ Reach(c) \in Nat /\ Reach(c) <= produced /\ produced <= MaxBytes
        /\ produced \in Nat /\ MaxBytes \in Nat
    BY ReachType DEF ConnInv, Bounds
  <2>2. ASSUME NEW i \in 1 .. Len(all) PROVE all[i] \in 1 .. MaxBytes
    <3>1. all[i] \in 1 .. Reach(c)
      BY DEF ConnInv, ViewInv, Rising, Seen
    <3>. HIDE DEF all
    <3>. QED
      BY <2>1, <3>1
  <2>. QED
    BY <2>2
<1>. HIDE DEF s, d, o
<1>3. /\ Len(all) = Len(sd) + Len(o) /\ Len(sd) = Len(s) + Len(d)
      /\ Len(s) \in Nat /\ Len(d) \in Nat /\ Len(o) \in Nat
      /\ \A i \in 1 .. Len(sd) + Len(o) :
           all[i] = IF i <= Len(sd) THEN sd[i] ELSE o[i - Len(sd)]
      /\ \A i \in 1 .. Len(s) + Len(d) :
           sd[i] = IF i <= Len(s) THEN s[i] ELSE d[i - Len(s)]
  BY <1>1, ConcatProperties
<1>. HIDE DEF sd, all
<1>4. \A i \in 1 .. Len(sd) : sd[i] \in 1 .. MaxBytes
  <2>1. ASSUME NEW i \in 1 .. Len(sd) PROVE sd[i] \in 1 .. MaxBytes
    <3>1. i \in 1 .. Len(all) /\ i <= Len(sd) /\ all[i] = sd[i]
      BY <1>3
    <3>. QED
      BY <1>2, <3>1
  <2>. QED
    BY <2>1
<1>5. \A i \in 1 .. Len(o) : o[i] \in 1 .. MaxBytes
  <2>1. ASSUME NEW i \in 1 .. Len(o) PROVE o[i] \in 1 .. MaxBytes
    <3>1. Len(sd) + i \in 1 .. Len(all) /\ ~(Len(sd) + i <= Len(sd))
          /\ (Len(sd) + i) - Len(sd) = i
      BY <1>3
    <3>2. all[Len(sd) + i] = o[i]
      BY <1>3, <3>1
    <3>. QED
      BY <1>2, <3>1, <3>2
  <2>. QED
    BY <2>1
<1>6. \A i \in 1 .. Len(s) : s[i] \in 1 .. MaxBytes
  <2>1. ASSUME NEW i \in 1 .. Len(s) PROVE s[i] \in 1 .. MaxBytes
    <3>1. i \in 1 .. Len(sd) /\ i <= Len(s) /\ sd[i] = s[i]
      BY <1>3
    <3>. QED
      BY <1>4, <3>1
  <2>. QED
    BY <2>1
<1>7. \A i \in 1 .. Len(d) : d[i] \in 1 .. MaxBytes
  <2>1. ASSUME NEW i \in 1 .. Len(d) PROVE d[i] \in 1 .. MaxBytes
    <3>1. Len(s) + i \in 1 .. Len(sd) /\ ~(Len(s) + i <= Len(s))
          /\ (Len(s) + i) - Len(s) = i
      BY <1>3
    <3>2. sd[Len(s) + i] = d[i]
      BY <1>3, <3>1
    <3>. QED
      BY <1>4, <3>1, <3>2
  <2>. QED
    BY <2>1
<1>8. s \in Seq(1 .. MaxBytes) /\ d \in Seq(1 .. MaxBytes) /\ o \in Seq(1 .. MaxBytes)
  BY <1>1, <1>5, <1>6, <1>7, Narrowed
<1>. QED
  BY <1>8 DEF s, d, o

\* For every number of viewers and pushers, every capacity and amount of
\* output: handle_client, the sockets and the push channel keep their limits,
\* and no byte that was never written reaches a client.
THEOREM LimitsKept == ConnSpec => []ConnTypeOK
<1>1. ConnInv => ConnTypeOK
  <2>. SUFFICES ASSUME ConnInv PROVE ConnTypeOK
    OBVIOUS
  <2>1. TypeOK /\ Types /\ Bounds
    BY DEF ConnInv, IInv
  <2>2. logged \in 0 .. MaxBytes
    BY <2>1, EndOfType, BoundAssumption DEF Types, Bounds
  <2>3. ASSUME NEW c \in Clients
        PROVE  \A i \in 1 .. Len(up[c]) : up[c][i].type \in {"attach", "push", "detach"}
    <3>1. up[c] \in Seq(Input)
      BY <2>1 DEF Types
    <3>2. \A m \in Input : m.type \in {"attach", "push", "detach"}
      BY DEF Input, detachMsg
    <3>. QED
      BY <3>1, <3>2
  <2>4. /\ out \in [Clients -> Seq(1 .. MaxBytes)]
        /\ shown \in [Clients -> Seq(1 .. MaxBytes)]
        /\ \A c \in Clients : down[c] \in Seq(1 .. MaxBytes)
    BY <2>1, SeenBounded DEF Types
  <2>. QED
    BY <2>1, <2>2, <2>3, <2>4 DEF ConnTypeOK, Types, HandlerStages, ClientStages
<1>. QED
  BY <1>1, ConnInductive, PTL

\* A viewer's terminal, its socket and what its handler has still to write are
\* exactly what the fanout gave the handler, however writes are split and
\* whatever the other clients do.
THEOREM PipelinesAreExact == ConnSpec => []PipelineExact
<1>1. ConnInv => PipelineExact
  <2>. SUFFICES ASSUME ConnInv, NEW c \in Viewers, ~replayed[c]
                PROVE  shown[c] \o down[c] \o out[c] = got[c]
    BY DEF PipelineExact
  <2>. QED
    BY ConnectionAssumption DEF ConnInv, ViewInv, Seen
<1>. QED
  BY <1>1, ConnInductive, PTL

\* No viewer is shown a byte of history twice or out of order: the log replay,
\* the scrollback and the broadcast never overlap.
THEOREM HistoryOnce == ConnSpec => []NeverTwice
<1>1. ConnInv => NeverTwice
  <2>. SUFFICES ASSUME ConnInv, NEW c \in Viewers
                PROVE  \A i, j \in 1 .. Len(shown[c] \o down[c]) :
                         i < j => (shown[c] \o down[c])[i] < (shown[c] \o down[c])[j]
    BY DEF NeverTwice
  <2>1. c \in Clients /\ Types
    BY ConnectionAssumption DEF ConnInv
  <2>2. Rising(shown[c] \o down[c] \o out[c], Reach(c))
    BY <2>1 DEF ConnInv, ViewInv, Seen
  <2>3. shown[c] \o down[c] \in Seq(Nat) /\ out[c] \in Seq(Nat)
    BY <2>1, SeenType
  <2>4. Rising(shown[c] \o down[c], Reach(c))
    BY <2>2, <2>3, RisingPrefix
  <2>. QED
    BY <2>4 DEF Rising
<1>. QED
  BY <1>1, ConnInductive, PTL

-------------------------------------------------------------------------------
(* Input: runs of numbers, and what the steps do to them.                    *)

LEMMA RunSame ==
  ASSUME NEW num, NEW num2, NEW lo, NEW hi, IsRun(num, lo, hi),
         DOMAIN num2 = DOMAIN num, \A i \in DOMAIN num : num2[i] = num[i]
  PROVE  IsRun(num2, lo, hi)
<1>1. {num2[i] : i \in DOMAIN num2} = {num[i] : i \in DOMAIN num}
  OBVIOUS
<1>. QED
  BY <1>1 DEF IsRun

\* One more number, after all others.
LEMMA RunAppend ==
  ASSUME NEW n \in Nat, NEW num, NEW num2, NEW lo \in Nat, NEW hi \in Nat,
         IsRun(num, lo, hi), DOMAIN num \subseteq 1 .. n,
         DOMAIN num2 = DOMAIN num \cup {n + 1},
         \A i \in DOMAIN num : num2[i] = num[i], num2[n + 1] = hi + 1
  PROVE  IsRun(num2, lo, hi + 1)
<1>1. /\ lo <= hi /\ {num[i] : i \in DOMAIN num} = lo + 1 .. hi
      /\ \A i, j \in DOMAIN num : i < j => num[i] < num[j]
  BY DEF IsRun
<1>2. \A i \in DOMAIN num : i \in 1 .. n /\ num[i] \in lo + 1 .. hi
  BY <1>1
<1>3. {num2[i] : i \in DOMAIN num2} = {num[i] : i \in DOMAIN num} \cup {hi + 1}
  OBVIOUS
<1>4. {num2[i] : i \in DOMAIN num2} = lo + 1 .. hi + 1
  <2>1. (lo + 1 .. hi) \cup {hi + 1} = lo + 1 .. hi + 1
    BY <1>1
  <2>. QED
    BY <1>1, <1>3, <2>1
<1>5. ASSUME NEW i \in DOMAIN num2, NEW j \in DOMAIN num2, i < j
      PROVE  num2[i] < num2[j]
  <2>1. i \in DOMAIN num
    <3>1. i # n + 1
      BY <1>2, <1>5
    <3>. QED
      BY <3>1
  <2>2. CASE j = n + 1
    <3>1. num2[i] \in lo + 1 .. hi /\ num2[j] = hi + 1
      BY <1>2, <2>1, <2>2
    <3>. QED
      BY <3>1
  <2>3. CASE j # n + 1
    BY <1>1, <1>5, <2>1, <2>3
  <2>. QED
    BY <2>2, <2>3
<1>6. lo <= hi + 1
  BY <1>1
<1>. QED
  BY <1>4, <1>5, <1>6 DEF IsRun

\* The first position is taken away: its number, if it has one, was the least.
LEMMA RunTail ==
  ASSUME NEW n \in Nat, NEW num, NEW num2, NEW lo \in Nat, NEW hi \in Nat,
         IsRun(num, lo, hi), DOMAIN num \subseteq 1 .. n,
         DOMAIN num2 = {i \in 1 .. n - 1 : i + 1 \in DOMAIN num},
         \A i \in DOMAIN num2 : num2[i] = num[i + 1]
  PROVE  /\ 1 \in DOMAIN num => num[1] = lo + 1 /\ IsRun(num2, lo + 1, hi)
         /\ 1 \notin DOMAIN num => IsRun(num2, lo, hi)
<1>1. /\ lo <= hi /\ {num[i] : i \in DOMAIN num} = lo + 1 .. hi
      /\ \A i, j \in DOMAIN num : i < j => num[i] < num[j]
  BY DEF IsRun
<1>2. \A i \in DOMAIN num : i \in 1 .. n /\ num[i] \in lo + 1 .. hi
  BY <1>1
<1>3. \A i \in DOMAIN num2 : i \in 1 .. n - 1 /\ i + 1 \in DOMAIN num
  OBVIOUS
<1>4. ASSUME NEW i \in DOMAIN num, i # 1
      PROVE  i - 1 \in DOMAIN num2 /\ num2[i - 1] = num[i]
  <2>1. i - 1 \in 1 .. n - 1 /\ (i - 1) + 1 = i
    BY <1>2, <1>4
  <2>2. i - 1 \in DOMAIN num2
    BY <2>1
  <2>3. num2[i - 1] = num[(i - 1) + 1]
    BY <2>2
  <2>. QED
    BY <2>1, <2>2, <2>3
<1>5. \A i, j \in DOMAIN num2 : i < j => num2[i] < num2[j]
  <2>1. ASSUME NEW i \in DOMAIN num2, NEW j \in DOMAIN num2, i < j
        PROVE  num2[i] < num2[j]
    <3>1. i + 1 < j + 1 /\ i + 1 \in DOMAIN num /\ j + 1 \in DOMAIN num
      BY <1>3, <2>1
    <3>. QED
      BY <1>1, <3>1
  <2>. QED
    BY <2>1
<1>6. CASE 1 \in DOMAIN num
  <2>1. num[1] = lo + 1 /\ lo + 1 <= hi
    <3>1. num[1] \in lo + 1 .. hi
      BY <1>2, <1>6
    <3>2. lo + 1 \in lo + 1 .. hi
      BY <3>1
    <3>3. PICK i \in DOMAIN num : num[i] = lo + 1
      BY <1>1, <3>2
    <3>4. CASE i = 1
      BY <3>1, <3>3, <3>4
    <3>5. CASE i # 1
      <4>1. 1 < i
        BY <1>2, <3>5
      <4>2. num[1] < num[i]
        BY <1>1, <1>6, <4>1
      <4>. QED
        BY <3>1, <3>3, <4>2
    <3>. QED
      BY <3>4, <3>5
  <2>2. ASSUME NEW x \in lo + 2 .. hi PROVE x \in {num2[i] : i \in DOMAIN num2}
    <3>1. x \in lo + 1 .. hi /\ x # lo + 1
      OBVIOUS
    <3>2. PICK i \in DOMAIN num : num[i] = x
      BY <1>1, <3>1
    <3>3. i # 1
      BY <2>1, <3>1, <3>2
    <3>. QED
      BY <1>4, <3>2, <3>3
  <2>3. ASSUME NEW i \in DOMAIN num2 PROVE num2[i] \in lo + 2 .. hi
    <3>1. 1 < i + 1 /\ i + 1 \in DOMAIN num
      BY <1>3
    <3>2. num[1] < num[i + 1] /\ num[i + 1] \in lo + 1 .. hi
      BY <1>1, <1>2, <1>6, <3>1
    <3>3. num2[i] = num[i + 1]
      OBVIOUS
    <3>. QED
      BY <2>1, <3>2, <3>3
  <2>4. {num2[i] : i \in DOMAIN num2} = (lo + 1) + 1 .. hi
    <3>1. lo + 2 = (lo + 1) + 1
      OBVIOUS
    <3>2. {num2[i] : i \in DOMAIN num2} = lo + 2 .. hi
      BY <2>2, <2>3
    <3>. QED
      BY <3>1, <3>2
  <2>. QED
    BY <1>5, <1>6, <2>1, <2>4 DEF IsRun
<1>7. CASE 1 \notin DOMAIN num
  <2>1. {num2[i] : i \in DOMAIN num2} = {num[i] : i \in DOMAIN num}
    <3>1. ASSUME NEW i \in DOMAIN num PROVE num[i] \in {num2[k] : k \in DOMAIN num2}
      <4>1. i # 1
        BY <1>7
      <4>. QED
        BY <1>4, <4>1
    <3>2. ASSUME NEW i \in DOMAIN num2 PROVE num2[i] \in {num[k] : k \in DOMAIN num}
      BY <1>3
    <3>. QED
      BY <3>1, <3>2
  <2>. QED
    BY <1>1, <1>5, <1>7, <2>1 DEF IsRun
<1>. QED
  BY <1>6, <1>7

\* Where a client's input is, from the event loop back to the client.
Stages(c, queued, read, sent) ==
  /\ taken[c] = Span(0, Len(taken[c]))
  /\ IsRun(InChannel(c), Len(taken[c]), queued)
  /\ IF held[c] = 0 THEN read = queued ELSE read = queued + 1 /\ held[c] = read
  /\ IsRun(Numbers(up[c]), read, sent)

\* A handler waits with a message only where it says so.
FlowInv(c) ==
  /\ handler[c] \notin {"pushing", "gone"} \/ client[c] \in {"idle", "read"} => held[c] = 0
  /\ \E queued, read \in 0 .. MaxTyped, sent \in Sent(c) : Stages(c, queued, read, sent)

FlowAll == \A c \in Clients : FlowInv(c)

LEMMA SentType ==
  ASSUME ConnInv, NEW c \in Clients
  PROVE  MaxTyped \in Nat /\ typed[c] \in 0 .. MaxTyped /\ \A n \in Sent(c) : n <= MaxTyped
<1>1. MaxTyped \in Nat /\ typed[c] \in 0 .. MaxTyped
  BY ConnectionAssumption DEF ConnInv, Types
<1>2. Sent(c) \subseteq {typed[c] - 1, typed[c]}
  BY DEF Sent
<1>. QED
  BY <1>1, <1>2

\* What is in front of the socket, where nothing there moves.
LEMMA FrontSame ==
  ASSUME NEW c \in Clients, pushq' = pushq, taken'[c] = taken[c],
         held'[c] = held[c], NEW queued, NEW read, NEW sent, NEW later,
         Stages(c, queued, read, sent), IsRun(Numbers(up'[c]), read, later)
  PROVE  Stages(c, queued, read, later)'
<1>1. InChannel(c)' = InChannel(c)
  BY DEF InChannel
<1>2. Numbers(up[c])' = Numbers(up'[c])
  BY DEF Numbers
<1>3. IsRun(InChannel(c), Len(taken[c]), queued)'
  BY ONLY <1>1, taken'[c] = taken[c], Stages(c, queued, read, sent)
     DEF Stages, IsRun
<1>4. IsRun(Numbers(up[c]), read, later)'
  BY ONLY <1>2, IsRun(Numbers(up'[c]), read, later) DEF IsRun
<1>. QED
  BY <1>3, <1>4 DEF Stages

\* A step that moves none of the client's input.
LEMMA FlowKept ==
  ASSUME NEW c \in Clients, FlowInv(c), pushq' = pushq,
         taken'[c] = taken[c], held'[c] = held[c], up'[c] = up[c],
         \A n \in Sent(c) : n \in Sent(c)',
         handler'[c] \notin {"pushing", "gone"} \/ client'[c] \in {"idle", "read"} =>
           held[c] = 0
  PROVE  FlowInv(c)'
<1>1. PICK queued \in 0 .. MaxTyped, read \in 0 .. MaxTyped, sent \in Sent(c) :
        Stages(c, queued, read, sent)
  BY DEF FlowInv
<1>2. Numbers(up'[c]) = Numbers(up[c])
  BY DEF Numbers
<1>3. IsRun(Numbers(up'[c]), read, sent)
  BY <1>1, <1>2 DEF Stages
<1>4. Stages(c, queued, read, sent)'
  BY <1>1, <1>3, FrontSame
<1>5. sent \in Sent(c)'
  OBVIOUS
<1>6. \E q, r \in 0 .. MaxTyped, n \in Sent(c)' : Stages(c, q, r, n)'
  BY <1>1, <1>4, <1>5
<1>7. handler'[c] \notin {"pushing", "gone"} \/ client'[c] \in {"idle", "read"} => held'[c] = 0
  OBVIOUS
<1>. QED
  BY <1>6, <1>7 DEF FlowInv

LEMMA FlowSame ==
  ASSUME NEW c \in Clients, FlowInv(c), pushq' = pushq,
         taken'[c] = taken[c], held'[c] = held[c], up'[c] = up[c],
         client'[c] = client[c], typed'[c] = typed[c], handler'[c] = handler[c]
  PROVE  FlowInv(c)'
<1>1. \A n \in Sent(c) : n \in Sent(c)'
  BY DEF Sent
<1>. QED
  BY <1>1, FlowKept DEF FlowInv

\* The steps of one client's handler or of the client itself move only that
\* client's input.
LEMMA FlowOne ==
  ASSUME FlowAll, NEW c \in Clients, pushq' = pushq, taken' = taken,
         \A d \in Clients \ {c} :
           /\ held'[d] = held[d] /\ up'[d] = up[d] /\ client'[d] = client[d]
           /\ typed'[d] = typed[d] /\ handler'[d] = handler[d],
         FlowInv(c)'
  PROVE  FlowAll'
<1>1. ASSUME NEW d \in Clients \ {c} PROVE FlowInv(d)'
  BY FlowSame DEF FlowAll
<1>. QED
  BY <1>1 DEF FlowAll

\* One message leaves the socket's front.
LEMMA NumbersTail ==
  ASSUME NEW msgs \in Seq(Input), msgs # <<>>, NEW lo \in Nat, NEW hi \in Nat,
         IsRun(Numbers(msgs), lo, hi)
  PROVE  IF Head(msgs).type = "push"
         THEN Head(msgs).n = lo + 1 /\ IsRun(Numbers(Tail(msgs)), lo + 1, hi)
         ELSE IsRun(Numbers(Tail(msgs)), lo, hi)
<1>. DEFINE n == Len(msgs)
            num == Numbers(msgs)
            num2 == Numbers(Tail(msgs))
<1>1. /\ n \in Nat /\ 1 \in 1 .. n /\ Head(msgs) = msgs[1]
      /\ Len(Tail(msgs)) = n - 1 /\ \A i \in 1 .. n - 1 : Tail(msgs)[i] = msgs[i + 1]
  BY HeadTailProperties
<1>2. /\ DOMAIN num = {k \in 1 .. n : msgs[k].type = "push"}
      /\ \A k \in DOMAIN num : num[k] = msgs[k].n
  BY DEF Numbers
<1>3. /\ DOMAIN num2 = {k \in 1 .. n - 1 : Tail(msgs)[k].type = "push"}
      /\ \A k \in DOMAIN num2 : num2[k] = Tail(msgs)[k].n
  BY <1>1 DEF Numbers
<1>. HIDE DEF n, num, num2
<1>4. \A i \in 1 .. n - 1 : i + 1 \in 1 .. n
  BY <1>1
<1>5. DOMAIN num2 = {i \in 1 .. n - 1 : i + 1 \in DOMAIN num}
  BY <1>1, <1>2, <1>3, <1>4
<1>6. \A i \in DOMAIN num2 : num2[i] = num[i + 1]
  BY <1>1, <1>2, <1>3, <1>4, <1>5
<1>7. /\ 1 \in DOMAIN num => num[1] = lo + 1 /\ IsRun(num2, lo + 1, hi)
      /\ 1 \notin DOMAIN num => IsRun(num2, lo, hi)
  <2>1. IsRun(num, lo, hi) /\ DOMAIN num \subseteq 1 .. n
    BY <1>2 DEF num
  <2>. QED
    BY <1>1, <1>5, <1>6, <2>1, RunTail
<1>. QED
  BY <1>1, <1>2, <1>7 DEF num2

\* One more message at the end of the socket.
LEMMA NumbersAppend ==
  ASSUME NEW msgs \in Seq(Input), NEW msg \in Input, NEW lo \in Nat, NEW hi \in Nat,
         IsRun(Numbers(msgs), lo, hi)
  PROVE  /\ msg.type = "push" /\ msg.n = hi + 1 =>
              IsRun(Numbers(Append(msgs, msg)), lo, hi + 1)
         /\ msg.type # "push" => IsRun(Numbers(Append(msgs, msg)), lo, hi)
<1>. DEFINE n == Len(msgs)
            num == Numbers(msgs)
            more == Append(msgs, msg)
            num2 == Numbers(more)
<1>1. /\ n \in Nat /\ Len(more) = n + 1 /\ more[n + 1] = msg
      /\ \A i \in 1 .. n : more[i] = msgs[i]
  BY AppendProperties
<1>2. /\ DOMAIN num = {k \in 1 .. n : msgs[k].type = "push"}
      /\ \A k \in DOMAIN num : num[k] = msgs[k].n
  BY DEF Numbers
<1>. HIDE DEF more
<1>3. /\ DOMAIN num2 = {k \in 1 .. n + 1 : more[k].type = "push"}
      /\ \A k \in DOMAIN num2 : num2[k] = more[k].n
  BY <1>1 DEF Numbers
<1>. HIDE DEF n, num, num2
<1>4. 1 .. n + 1 = (1 .. n) \cup {n + 1}
  BY <1>1
<1>5. \A i \in DOMAIN num : i \in DOMAIN num2 /\ num2[i] = num[i]
  BY <1>1, <1>2, <1>3, <1>4
<1>6. IsRun(num, lo, hi) /\ DOMAIN num \subseteq 1 .. n
  BY <1>2 DEF num
<1>7. ASSUME msg.type = "push", msg.n = hi + 1 PROVE IsRun(num2, lo, hi + 1)
  <2>1. DOMAIN num2 = DOMAIN num \cup {n + 1}
    BY <1>1, <1>2, <1>3, <1>4, <1>7
  <2>2. num2[n + 1] = hi + 1
    BY <1>1, <1>3, <1>7, <2>1
  <2>. QED
    BY <1>1, <1>5, <1>6, <2>1, <2>2, RunAppend
<1>8. ASSUME msg.type # "push" PROVE IsRun(num2, lo, hi)
  <2>1. DOMAIN num2 = DOMAIN num
    BY <1>1, <1>2, <1>3, <1>4, <1>8
  <2>. QED
    BY <1>5, <1>6, <2>1, RunSame
<1>. QED
  BY <1>7, <1>8 DEF num2, more

LEMMA SpanAppend ==
  ASSUME NEW l \in Nat
  PROVE  Append(Span(0, l), l + 1) = Span(0, l + 1) /\ Len(Span(0, l + 1)) = l + 1
<1>1. /\ Span(0, l) \in Seq(Nat) /\ Len(Span(0, l)) = l
      /\ \A i \in 1 .. l : Span(0, l)[i] = i
  <2>1. 0 \in Nat /\ 0 <= l /\ l - 0 = l /\ \A i \in 1 .. l : 0 + i = i
    OBVIOUS
  <2>2. /\ Span(0, l) \in Seq(Nat) /\ Len(Span(0, l)) = l - 0
        /\ \A i \in 1 .. l - 0 : Span(0, l)[i] = 0 + i
    BY <2>1, SpanElements
  <2>. QED
    BY <2>1, <2>2
<1>2. /\ Span(0, l + 1) \in Seq(Nat) /\ Len(Span(0, l + 1)) = l + 1
      /\ \A i \in 1 .. l + 1 : Span(0, l + 1)[i] = i
  <2>1. l + 1 \in Nat /\ 0 <= l + 1 /\ (l + 1) - 0 = l + 1
    OBVIOUS
  <2>2. \A i \in 1 .. l + 1 : 0 + i = i
    OBVIOUS
  <2>. QED
    BY <2>1, <2>2, SpanElements
<1>. DEFINE s == Span(0, l)
            t == Span(0, l + 1)
            a == Append(s, l + 1)
<1>. HIDE DEF s, t
<1>3. /\ a \in Seq(Nat) /\ Len(a) = l + 1 /\ a[l + 1] = l + 1
      /\ \A i \in 1 .. l : a[i] = i
  BY <1>1, AppendProperties DEF s
<1>4. \A i \in 1 .. l + 1 : i = l + 1 \/ i \in 1 .. l
  OBVIOUS
<1>. HIDE DEF a
<1>5. \A i \in 1 .. Len(a) : a[i] = t[i]
  BY <1>2, <1>3, <1>4 DEF t
<1>6. a = t
  BY <1>2, <1>3, <1>5, SeqEqual DEF t
<1>. QED
  BY <1>2, <1>6 DEF a, s, t

\* The event loop takes the oldest push.
LEMMA FlowTakePush ==
  ASSUME ConnInv, FlowAll, takePush
  PROVE  FlowAll'
<1>. DEFINE n == Len(pushq)
<1>1. /\ pushq \in Seq(Clients \X (1 .. MaxTyped)) /\ pushq # <<>>
      /\ taken \in [Clients -> Seq(1 .. MaxTyped)] /\ MaxTyped \in Nat
  BY ConnectionAssumption DEF ConnInv, Types, takePush
<1>2. /\ Head(pushq) \in Clients \X (1 .. MaxTyped) /\ Head(pushq) = pushq[1]
      /\ n \in Nat /\ 1 \in 1 .. n /\ pushq' = Tail(pushq)
      /\ Len(pushq') = n - 1 /\ \A i \in 1 .. n - 1 : pushq'[i] = pushq[i + 1]
  BY <1>1, HeadTailProperties DEF takePush
<1>3. PICK d \in Clients, m \in 1 .. MaxTyped : Head(pushq)[1] = d /\ Head(pushq)[2] = m
  BY <1>2
<1>4. /\ taken'[d] = Append(taken[d], m)
      /\ \A c \in Clients \ {d} : taken'[c] = taken[c]
  BY <1>1, <1>3 DEF takePush
<1>5. UNCHANGED <<handler, held, up, client, typed>>
  BY DEF takePush, handlerVars, socketVars, clientVars
<1>. HIDE DEF n
<1>6. ASSUME NEW c \in Clients PROVE FlowInv(c)'
  <2>. DEFINE l == Len(taken[c])
              num == InChannel(c)
              num2 == InChannel(c)'
  <2>1. PICK queued \in 0 .. MaxTyped, read \in 0 .. MaxTyped, sent \in Sent(c) :
          Stages(c, queued, read, sent)
    BY DEF FlowAll, FlowInv
  <2>2. l \in Nat /\ queued \in Nat
    BY <1>1
  <2>3. /\ DOMAIN num = {k \in 1 .. n : pushq[k][1] = c}
        /\ \A k \in DOMAIN num : num[k] = pushq[k][2]
    BY DEF InChannel, n
  <2>4. /\ DOMAIN num2 = {k \in 1 .. n - 1 : pushq'[k][1] = c}
        /\ \A k \in DOMAIN num2 : num2[k] = pushq'[k][2]
    BY <1>2 DEF InChannel
  <2>5. IsRun(num, l, queued)
    BY <2>1 DEF Stages
  <2>. HIDE DEF num, num2, l
  <2>6. \A i \in 1 .. n - 1 : i + 1 \in 1 .. n
    BY <1>2
  <2>7. DOMAIN num2 = {i \in 1 .. n - 1 : i + 1 \in DOMAIN num}
    BY <1>2, <2>3, <2>4, <2>6
  <2>8. \A i \in DOMAIN num2 : num2[i] = num[i + 1]
    BY <1>2, <2>3, <2>4, <2>6, <2>7
  <2>9. /\ 1 \in DOMAIN num => num[1] = l + 1 /\ IsRun(num2, l + 1, queued)
        /\ 1 \notin DOMAIN num => IsRun(num2, l, queued)
    <3>1. DOMAIN num \subseteq 1 .. n
      BY <2>3
    <3>. QED
      BY <1>2, <2>2, <2>5, <2>7, <2>8, <3>1, RunTail
  <2>10. /\ taken'[c] = Span(0, Len(taken'[c]))
         /\ IsRun(num2, Len(taken'[c]), queued)
    <3>1. CASE c = d
      <4>1. 1 \in DOMAIN num /\ num[1] = m
        BY <1>2, <1>3, <2>3, <3>1
      <4>2. m = l + 1 /\ IsRun(num2, l + 1, queued)
        BY <2>9, <4>1
      <4>3. taken[c] = Span(0, l) /\ taken'[c] = Append(taken[c], l + 1)
        BY <1>4, <2>1, <3>1, <4>2 DEF Stages, l
      <4>4. Append(Span(0, l), l + 1) = Span(0, l + 1) /\ Len(Span(0, l + 1)) = l + 1
        BY <2>2, SpanAppend
      <4>. QED
        BY <4>2, <4>3, <4>4
    <3>2. CASE c # d
      <4>1. 1 \notin DOMAIN num
        BY <1>2, <1>3, <2>3, <3>2
      <4>. QED
        BY <1>4, <2>1, <2>9, <3>2, <4>1 DEF Stages, l
    <3>. QED
      BY <3>1, <3>2
  <2>11. Numbers(up[c])' = Numbers(up[c]) /\ Sent(c)' = Sent(c)
    BY <1>5 DEF Numbers, Sent
  <2>12. Stages(c, queued, read, sent)'
    BY <1>5, <2>1, <2>10, <2>11 DEF Stages, num2
  <2>13. \E q, r \in 0 .. MaxTyped, s \in Sent(c)' : Stages(c, q, r, s)'
    BY <2>11, <2>12
  <2>. QED
    BY <1>5, <2>13 DEF FlowAll, FlowInv
<1>. QED
  BY <1>6 DEF FlowAll

\* The handler's message goes to the end of the channel.
LEMMA FlowForward ==
  ASSUME ConnInv, FlowAll, NEW c \in Clients, forwardPush(c)
  PROVE  FlowAll'
<1>. DEFINE n == Len(pushq)
            msg == <<c, held[c]>>
<1>1. /\ pushq \in Seq(Clients \X (1 .. MaxTyped)) /\ handler[c] = "pushing"
      /\ held \in [Clients -> 0 .. MaxTyped] /\ handler \in [Clients -> HandlerStages]
      /\ held[c] # 0 /\ MaxTyped \in Nat /\ held[c] \in 1 .. MaxTyped
      /\ taken \in [Clients -> Seq(1 .. MaxTyped)]
  BY ConnectionAssumption DEF ConnInv, Types, StageInv, forwardPush
<1>2. /\ n \in Nat /\ pushq' = Append(pushq, msg) /\ Len(pushq') = n + 1
      /\ pushq'[n + 1] = msg /\ \A i \in 1 .. n : pushq'[i] = pushq[i]
  BY <1>1, AppendProperties DEF forwardPush
<1>3. /\ UNCHANGED <<taken, up, client, typed>>
      /\ held'[c] = 0 /\ \A d \in Clients \ {c} : held'[d] = held[d]
      /\ handler'[c] = "select" /\ \A d \in Clients \ {c} : handler'[d] = handler[d]
  BY <1>1 DEF forwardPush, socketVars, clientVars
<1>. HIDE DEF n
<1>4. 1 .. n + 1 = (1 .. n) \cup {n + 1}
  BY <1>2
<1>5. ASSUME NEW d \in Clients PROVE FlowInv(d)'
  <2>. DEFINE l == Len(taken[d])
              num == InChannel(d)
              num2 == InChannel(d)'
  <2>1. PICK queued \in 0 .. MaxTyped, read \in 0 .. MaxTyped, sent \in Sent(d) :
          Stages(d, queued, read, sent)
    BY DEF FlowAll, FlowInv
  <2>2. l \in Nat /\ queued \in Nat
    BY <1>1
  <2>3. /\ DOMAIN num = {k \in 1 .. n : pushq[k][1] = d}
        /\ \A k \in DOMAIN num : num[k] = pushq[k][2]
    BY DEF InChannel, n
  <2>4. /\ DOMAIN num2 = {k \in 1 .. n + 1 : pushq'[k][1] = d}
        /\ \A k \in DOMAIN num2 : num2[k] = pushq'[k][2]
    BY <1>2 DEF InChannel
  <2>5. IsRun(num, l, queued) /\ DOMAIN num \subseteq 1 .. n
    BY <2>1, <2>3 DEF Stages
  <2>. HIDE DEF num, num2, l
  <2>6. \A i \in DOMAIN num : i \in DOMAIN num2 /\ num2[i] = num[i]
    BY <1>2, <1>4, <2>3, <2>4
  <2>7. Numbers(up[d])' = Numbers(up[d]) /\ Sent(d)' = Sent(d)
    BY <1>3 DEF Numbers, Sent
  <2>8. CASE d = c
    <3>1. read = queued + 1 /\ held[c] = read
      BY <1>1, <2>1, <2>8 DEF Stages
    <3>2. DOMAIN num2 = DOMAIN num \cup {n + 1}
      BY <1>2, <1>4, <2>3, <2>4, <2>8
    <3>3. num2[n + 1] = queued + 1
      BY <1>2, <2>4, <2>8, <3>1, <3>2
    <3>4. IsRun(num2, l, read)
      BY <1>2, <2>2, <2>5, <2>6, <3>1, <3>2, <3>3, RunAppend
    <3>5. Stages(d, read, read, sent)'
      BY <1>3, <2>1, <2>7, <2>8, <3>4 DEF Stages, num2, l
    <3>6. \E q, r \in 0 .. MaxTyped, s \in Sent(d)' : Stages(d, q, r, s)'
      BY <2>7, <3>5
    <3>. QED
      BY <1>3, <2>8, <3>6 DEF FlowInv
  <2>9. CASE d # c
    <3>1. DOMAIN num2 = DOMAIN num
      BY <1>2, <1>4, <2>3, <2>4, <2>9
    <3>2. IsRun(num2, l, queued)
      BY <2>5, <2>6, <3>1, RunSame
    <3>3. Stages(d, queued, read, sent)'
      BY <1>3, <2>1, <2>7, <2>9, <3>2 DEF Stages, num2, l
    <3>4. \E q, r \in 0 .. MaxTyped, s \in Sent(d)' : Stages(d, q, r, s)'
      BY <2>7, <3>3
    <3>. QED
      BY <1>3, <2>9, <3>4 DEF FlowAll, FlowInv
  <2>. QED
    BY <2>8, <2>9
<1>. QED
  BY <1>5 DEF FlowAll

\* The handler takes a message from the socket: a push waits with it.
LEMMA FlowReceive ==
  ASSUME ConnInv, FlowAll, NEW c \in Clients,
         takeAttach(c) \/ takeDetach(c) \/ receivePush(c)
  PROVE  FlowAll'
<1>1. /\ Types /\ held[c] = 0 /\ MaxTyped \in Nat
      /\ handler[c] = "select" /\ up[c] # <<>> /\ up[c] \in Seq(Input)
      /\ up' = [up EXCEPT ![c] = Tail(up[c])]
      /\ client[c] \notin {"idle", "read"}
  <2>1. \E type \in {"attach", "detach", "push"} : Received(c, type)
    BY DEF takeAttach, takeDetach, receivePush
  <2>2. handler[c] = "select" /\ up[c] # <<>> /\ up' = [up EXCEPT ![c] = Tail(up[c])]
    BY <2>1 DEF Received
  <2>3. held[c] = 0
    BY <2>2 DEF FlowAll, FlowInv
  <2>. QED
    BY <2>2, <2>3, ConnectionAssumption DEF ConnInv, Types, AttachInv
<1>2. UNCHANGED <<pushq, taken, client, typed>>
  BY DEF takeAttach, takeDetach, receivePush, daemonVars, clientVars
<1>3. up'[c] = Tail(up[c]) /\ \A d \in Clients \ {c} : up'[d] = up[d]
  BY <1>1 DEF Types
<1>4. PICK queued \in 0 .. MaxTyped, read \in 0 .. MaxTyped, sent \in Sent(c) :
        Stages(c, queued, read, sent)
  BY DEF FlowAll, FlowInv
<1>5. read = queued /\ read \in Nat /\ sent \in Nat /\ sent <= MaxTyped
  <2>1. read <= sent /\ read = queued /\ read \in Nat
    BY <1>1, <1>4 DEF Stages, IsRun
  <2>2. sent \in Int
    BY <1>1, SentType DEF Sent
  <2>. QED
    BY <2>1, <2>2, SentType
<1>6. IF Head(up[c]).type = "push"
      THEN Head(up[c]).n = read + 1 /\ IsRun(Numbers(Tail(up[c])), read + 1, sent)
      ELSE IsRun(Numbers(Tail(up[c])), read, sent)
  BY <1>1, <1>4, <1>5, NumbersTail DEF Stages
<1>7. Sent(c)' = Sent(c)
  BY <1>2 DEF Sent
<1>8. \A d \in Clients \ {c} : handler'[d] = handler[d]
  <2>1. CASE takeDetach(c)
    BY <2>1 DEF takeDetach, handlerVars
  <2>2. CASE receivePush(c)
    BY <1>1, <2>2 DEF receivePush, Types
  <2>3. CASE takeAttach(c)
    BY <1>1, <2>3 DEF takeAttach, Write, Types
  <2>. QED
    BY <2>1, <2>2, <2>3
<1>9. CASE receivePush(c)
  <2>1. /\ held' = [held EXCEPT ![c] = Head(up[c]).n] /\ Head(up[c]).type = "push"
        /\ handler' = [handler EXCEPT ![c] = "pushing"]
    BY <1>9 DEF receivePush, Received
  <2>2. /\ held'[c] = read + 1 /\ handler'[c] = "pushing"
        /\ \A d \in Clients \ {c} : held'[d] = held[d]
    BY <1>1, <1>6, <2>1 DEF Types
  <2>3. IsRun(Numbers(up'[c]), read + 1, sent)
    BY <1>3, <1>6, <2>1
  <2>4. read + 1 \in 0 .. MaxTyped
    BY <1>1, <1>5, <2>3 DEF IsRun
  <2>5. InChannel(c)' = InChannel(c) /\ Numbers(up[c])' = Numbers(up'[c])
    BY <1>2 DEF InChannel, Numbers
  <2>6. /\ (taken[c] = Span(0, Len(taken[c])))'
        /\ IsRun(InChannel(c)', Len(taken'[c]), queued)
    BY <1>2, <1>4, <2>5 DEF Stages
  <2>7. held'[c] # 0 /\ held'[c] = queued + 1
    BY <1>5, <2>2
  <2>8. Stages(c, queued, read + 1, sent)'
    BY <1>5, <2>2, <2>3, <2>5, <2>6, <2>7 DEF Stages
  <2>9. \E q, r \in 0 .. MaxTyped, s \in Sent(c)' : Stages(c, q, r, s)'
    BY <1>7, <2>4, <2>8
  <2>10. FlowInv(c)'
    BY <1>1, <1>2, <2>2, <2>9 DEF FlowInv
  <2>. QED
    BY <1>2, <1>3, <1>8, <2>2, <2>10, FlowOne
<1>10. CASE takeAttach(c) \/ takeDetach(c)
  <2>1. held' = held /\ Head(up[c]).type # "push"
    BY <1>10 DEF takeAttach, takeDetach, Received, handlerVars
  <2>2. IsRun(Numbers(up'[c]), read, sent)
    BY <1>3, <1>6, <2>1
  <2>3. Stages(c, queued, read, sent)'
    BY <1>2, <1>4, <2>1, <2>2, FrontSame
  <2>4. \E q, r \in 0 .. MaxTyped, s \in Sent(c)' : Stages(c, q, r, s)'
    BY <1>4, <1>7, <2>3
  <2>5. FlowInv(c)'
    BY <1>1, <2>1, <2>4 DEF FlowInv
  <2>. QED
    BY <1>2, <1>3, <1>8, <2>1, <2>5, FlowOne
<1>. QED
  BY <1>9, <1>10

\* A message the client made is sent, or is lost with the connection; a detach
\* message is no input.
LEMMA FlowClient ==
  ASSUME ConnInv, FlowAll, NEW c \in Clients,
         input(c) \/ sendDone(c) \/ sendFails(c) \/ seeEnd(c) \/ leave(c) \/ suspend(c)
  PROVE  FlowAll'
<1>. USE DEF fanoutVars, daemonVars, handlerVars, socketVars, clientVars
<1>1. /\ Types /\ MaxTyped \in Nat /\ typed[c] \in 0 .. MaxTyped
      /\ UNCHANGED <<pushq, taken, handler, held>>
      /\ client[c] \in {"loop", "sending"}
  BY ConnectionAssumption
     DEF ConnInv, Types, input, sendDone, sendFails, seeEnd, leave, suspend
<1>2. /\ client'[c] \notin {"idle", "read"}
      /\ \A d \in Clients \ {c} :
           up'[d] = up[d] /\ client'[d] = client[d] /\ typed'[d] = typed[d]
  BY <1>1 DEF Types, input, sendDone, sendFails, seeEnd, leave, suspend
<1>3. PICK queued \in 0 .. MaxTyped, read \in 0 .. MaxTyped, sent \in Sent(c) :
        Stages(c, queued, read, sent)
  BY DEF FlowAll, FlowInv
<1>4. sent \in Nat /\ read \in Nat /\ IsRun(Numbers(up[c]), read, sent)
  <2>1. read <= sent /\ IsRun(Numbers(up[c]), read, sent) /\ read \in Nat
    BY <1>1, <1>3 DEF Stages, IsRun
  <2>2. sent \in Int
    BY <1>1 DEF Sent
  <2>. QED
    BY <2>1, <2>2
<1>5. SUFFICES ASSUME TRUE
               PROVE  \E later \in Sent(c)' : IsRun(Numbers(up'[c]), read, later)
  <2>1. ASSUME NEW later \in Sent(c)', IsRun(Numbers(up'[c]), read, later)
        PROVE  FlowInv(c)'
    <3>1. Stages(c, queued, read, later)'
      BY <1>1, <1>3, <2>1, FrontSame
    <3>2. \E q, r \in 0 .. MaxTyped, s \in Sent(c)' : Stages(c, q, r, s)'
      BY <1>3, <2>1, <3>1
    <3>. QED
      BY <1>1, <1>2, <3>2 DEF FlowAll, FlowInv
  <2>. QED
    BY <1>1, <1>2, <2>1, FlowOne
<1>6. CASE input(c)
  <2>1. up' = up /\ typed'[c] = typed[c] + 1 /\ client'[c] = "sending" /\ sent = typed[c]
    BY <1>1, <1>6 DEF input, Types, Sent
  <2>2. sent \in Sent(c)'
    BY <1>1, <2>1 DEF Sent
  <2>. QED
    BY <1>4, <2>1, <2>2
<1>7. CASE sendDone(c)
  <2>1. /\ up'[c] = Append(up[c], pushMsg(typed[c])) /\ typed' = typed
        /\ client'[c] = "loop" /\ sent = typed[c] - 1 /\ up[c] \in Seq(Input)
    BY <1>1, <1>7 DEF sendDone, Types, Sent
  <2>2. typed[c] \in 1 .. MaxTyped /\ sent + 1 = typed[c]
    BY <1>1, <1>7, <2>1 DEF ConnInv, StageInv, sendDone
  <2>3. /\ pushMsg(typed[c]) \in Input /\ pushMsg(typed[c]).type = "push"
        /\ pushMsg(typed[c]).n = sent + 1
    BY <2>2 DEF pushMsg, Input
  <2>4. IsRun(Numbers(up'[c]), read, sent + 1)
    BY <1>4, <2>1, <2>3, NumbersAppend
  <2>5. sent + 1 \in Sent(c)'
    BY <2>1, <2>2 DEF Sent
  <2>. QED
    BY <2>4, <2>5
<1>8. CASE suspend(c)
  <2>1. /\ up'[c] = Append(up[c], detachMsg) /\ typed' = typed
        /\ client'[c] = "left" /\ sent = typed[c] /\ up[c] \in Seq(Input)
    BY <1>1, <1>8 DEF suspend, Types, Sent
  <2>2. detachMsg \in Input /\ detachMsg.type # "push"
    BY DEF detachMsg, Input
  <2>3. IsRun(Numbers(up'[c]), read, sent)
    BY <1>4, <2>1, <2>2, NumbersAppend
  <2>4. sent \in Sent(c)'
    BY <2>1 DEF Sent
  <2>. QED
    BY <2>3, <2>4
<1>9. CASE sendFails(c) \/ seeEnd(c) \/ leave(c)
  <2>1. up' = up /\ typed' = typed
    BY <1>9 DEF sendFails, seeEnd, leave
  <2>2. \/ client[c] = "sending" /\ client'[c] = "failed"
        \/ client[c] = "loop" /\ client'[c] \in {"ended", "failed", "left"}
    BY <1>1, <1>9 DEF sendFails, seeEnd, leave, Types
  <2>3. sent \in Sent(c)'
    BY <1>3, <2>1, <2>2 DEF Sent
  <2>. QED
    BY <1>4, <2>1, <2>3
<1>. QED
  BY <1>6, <1>7, <1>8, <1>9

\* A connection starts with an empty socket, or with the handshake in it.
LEMMA FlowConnect ==
  ASSUME ConnInv, FlowAll, NEW c \in Clients, connect(c)
  PROVE  FlowAll'
<1>. USE DEF fanoutVars, daemonVars, handlerVars, socketVars, clientVars
<1>1. /\ Types /\ client[c] \in {"idle", "read"} /\ up[c] = <<>> /\ held[c] = 0
      /\ UNCHANGED <<pushq, taken, held, typed>>
  BY DEF ConnInv, AttachInv, FlowAll, FlowInv, connect
<1>2. /\ client'[c] \in {"loop", "failed"}
      /\ up'[c] \in {<<>>, <<attachMsg(replayed[c])>>}
      /\ \A d \in Clients \ {c} :
           up'[d] = up[d] /\ client'[d] = client[d] /\ handler'[d] = handler[d]
  <2>1. CASE daemon = "exited"
    BY <1>1, <2>1 DEF connect, Types
  <2>2. CASE daemon # "exited"
    <3>1. up'[c] = IF c \in Viewers THEN <<attachMsg(replayed[c])>> ELSE <<>>
      BY <1>1, <2>2 DEF connect, Types
    <3>2. up'[c] \in {<<>>, <<attachMsg(replayed[c])>>}
      BY <3>1
    <3>. QED
      BY <1>1, <2>2, <3>2 DEF connect, Types
  <2>. QED
    BY <2>1, <2>2
<1>3. PICK queued \in 0 .. MaxTyped, read \in 0 .. MaxTyped, sent \in Sent(c) :
        Stages(c, queued, read, sent)
  BY DEF FlowAll, FlowInv
<1>4. sent \in Sent(c)'
  BY <1>1, <1>2 DEF Sent
<1>5. \A i \in 1 .. Len(up'[c]) : up'[c][i].type # "push"
  <2>1. CASE up'[c] = <<>>
    BY <2>1
  <2>2. CASE up'[c] = <<attachMsg(replayed[c])>>
    <3>1. Len(up'[c]) = 1 /\ up'[c][1] = attachMsg(replayed[c])
      BY <2>2
    <3>. QED
      BY <3>1 DEF attachMsg
  <2>. QED
    BY <1>2, <2>1, <2>2
<1>6. IsRun(Numbers(up'[c]), read, sent)
  <2>1. DOMAIN Numbers(up'[c]) = DOMAIN Numbers(up[c])
    <3>1. DOMAIN Numbers(up'[c]) = {}
      BY <1>5 DEF Numbers
    <3>2. DOMAIN Numbers(up[c]) = {}
      BY <1>1 DEF Numbers
    <3>. QED
      BY <3>1, <3>2
  <2>2. DOMAIN Numbers(up[c]) = {}
    BY <1>1 DEF Numbers
  <2>. QED
    BY <1>3, <2>1, <2>2, RunSame DEF Stages
<1>7. Stages(c, queued, read, sent)'
  BY <1>1, <1>3, <1>6, FrontSame
<1>8. \E q, r \in 0 .. MaxTyped, s \in Sent(c)' : Stages(c, q, r, s)'
  BY <1>3, <1>4, <1>7
<1>9. FlowInv(c)'
  BY <1>1, <1>8 DEF FlowInv
<1>. QED
  BY <1>1, <1>2, <1>9, FlowOne

\* Output, the log, the ends of handlers and of the daemon leave input where
\* it is.
LEMMA FlowOther ==
  ASSUME ConnInv, FlowAll,
         \/ \E n \in 1 .. MaxChunk : readOutput(n)
         \/ writeLog \/ endLoop \/ exit
         \/ \E c \in Clients :
              \/ accept(c) \/ takeChunk(c) \/ takeLag(c) \/ writeMore(c)
              \/ writeFails(c) \/ readEnd(c) \/ replay_log(c) \/ show(c)
  PROVE  FlowAll'
<1>. USE DEF fanoutVars, daemonVars, handlerVars, socketVars, clientVars
<1>1. Types
  BY DEF ConnInv
<1>2. ASSUME UNCHANGED <<pushq, taken, held, up, typed, client>>,
             NEW d \in Clients,
             handler'[d] \in {handler[d], "gone"} \/ held[d] = 0
      PROVE  FlowInv(d)'
  <2>1. \A n \in Sent(d) : n \in Sent(d)'
    BY <1>2 DEF Sent
  <2>2. handler'[d] \notin {"pushing", "gone"} \/ client'[d] \in {"idle", "read"} =>
          held[d] = 0
    BY <1>2 DEF FlowAll, FlowInv
  <2>. QED
    BY <1>2, <2>1, <2>2, FlowKept DEF FlowAll
<1>3. ASSUME (\E n \in 1 .. MaxChunk : readOutput(n)) \/ writeLog \/ endLoop \/ exit
      PROVE  FlowAll'
  <2>1. /\ UNCHANGED <<pushq, taken, held, up, typed, client>>
        /\ \A d \in Clients : handler'[d] \in {handler[d], "gone"}
    BY <1>3 DEF readOutput, writeLog, endLoop, exit
  <2>. QED
    BY <1>2, <2>1 DEF FlowAll
<1>4. ASSUME NEW c \in Clients,
             \/ accept(c) \/ takeChunk(c) \/ takeLag(c) \/ writeMore(c)
             \/ writeFails(c) \/ readEnd(c) \/ show(c)
      PROVE  FlowAll'
  <2>1. UNCHANGED <<pushq, taken, held, up, typed, client>>
    BY <1>4 DEF accept, takeChunk, takeLag, writeMore, writeFails, readEnd, show
  <2>2. ASSUME NEW d \in Clients, d # c PROVE handler'[d] = handler[d]
    <3>1. CASE takeChunk(c) \/ writeMore(c)
      BY <1>1, <2>2, <3>1 DEF takeChunk, writeMore, Write, Types
    <3>2. CASE accept(c) \/ takeLag(c) \/ writeFails(c) \/ readEnd(c) \/ show(c)
      BY <1>1, <2>2, <3>2 DEF accept, takeLag, writeFails, readEnd, show, Types
    <3>. QED
      BY <1>4, <3>1, <3>2
  <2>3. handler'[c] \in {handler[c], "gone"} \/ held[c] = 0
    <3>1. CASE accept(c) \/ takeChunk(c) \/ writeMore(c)
      <4>1. handler[c] \in {"backlog", "select", "sending"}
        BY <3>1 DEF accept, takeChunk, writeMore
      <4>. QED
        BY <4>1 DEF FlowAll, FlowInv
    <3>2. CASE takeLag(c) \/ writeFails(c) \/ readEnd(c) \/ show(c)
      BY <1>1, <3>2 DEF takeLag, writeFails, readEnd, show, Types
    <3>. QED
      BY <1>4, <3>1, <3>2
  <2>. QED
    BY <1>2, <2>1, <2>2, <2>3 DEF FlowAll
<1>5. ASSUME NEW c \in Clients, replay_log(c) PROVE FlowAll'
  <2>1. /\ UNCHANGED <<pushq, taken, held, up, typed, handler>>
        /\ client[c] = "idle" /\ client'[c] = "read"
        /\ \A d \in Clients \ {c} : client'[d] = client[d]
    BY <1>1, <1>5 DEF replay_log, Types
  <2>2. \A n \in Sent(c) : n \in Sent(c)'
    BY <2>1 DEF Sent
  <2>3. FlowInv(c) /\ held[c] = 0
    BY <2>1 DEF FlowAll, FlowInv
  <2>4. FlowInv(c)'
    BY <2>1, <2>2, <2>3, FlowKept
  <2>. QED
    BY <2>1, <2>4, FlowOne
<1>. QED
  BY <1>3, <1>4, <1>5

LEMMA FlowStep ==
  ASSUME ConnInv, FlowAll, [ConnNext]_connVars
  PROVE  FlowAll'
<1>1. CASE ConnNext
  BY <1>1, FlowTakePush, FlowForward, FlowReceive, FlowClient, FlowConnect, FlowOther
     DEF ConnNext, MessageStep, OutputStep, WaitStep, SendStep, ReadStep
<1>2. CASE UNCHANGED connVars
  <2>1. UNCHANGED <<pushq, taken, held, up, typed, handler, client>>
    BY <1>2 DEF connVars, daemonVars, handlerVars, socketVars, clientVars
  <2>. QED
    BY <2>1, FlowSame DEF FlowAll
<1>. QED
  BY <1>1, <1>2

LEMMA FlowInit == ConnInit => FlowAll
<1>. SUFFICES ASSUME ConnInit, NEW c \in Clients PROVE FlowInv(c)
  BY DEF FlowAll
<1>1. /\ taken[c] = <<>> /\ held[c] = 0 /\ up[c] = <<>> /\ typed[c] = 0
      /\ client[c] = "idle" /\ pushq = <<>>
  BY DEF ConnInit
<1>2. /\ DOMAIN Numbers(up[c]) = {} /\ DOMAIN InChannel(c) = {}
  BY <1>1 DEF Numbers, InChannel
<1>3. \A num : DOMAIN num = {} => IsRun(num, 0, 0)
  BY DEF IsRun
<1>4. IsRun(Numbers(up[c]), 0, 0) /\ IsRun(InChannel(c), 0, 0)
  BY <1>2, <1>3
<1>5. Len(taken[c]) = 0 /\ taken[c] = Span(0, 0)
  BY <1>1 DEF Span
<1>6. Stages(c, 0, 0, 0)
  BY <1>1, <1>4, <1>5 DEF Stages
<1>7. 0 \in Sent(c) /\ 0 \in 0 .. MaxTyped
  BY <1>1, ConnectionAssumption DEF Sent
<1>. QED
  BY <1>1, <1>6, <1>7 DEF FlowInv

\* For every number of clients and every capacity: each client's input reaches
\* the event loop in order and whole, however the handlers' sends into the
\* push channel interleave; only a message still being sent, or one whose send
\* failed, is not on its way.
THEOREM InputKeepsOrder == ConnSpec => []InputInOrder
<1>1. FlowAll => InputInOrder
  BY DEF FlowAll, FlowInv, Stages, InputInOrder
<1>2. ConnInv /\ FlowAll /\ [ConnNext]_connVars => FlowAll'
  BY FlowStep
<1>. QED
  BY <1>1, <1>2, ConnInductive, FlowInit, PTL DEF ConnSpec
===============================================================================
