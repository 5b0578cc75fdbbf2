--------------------------------- MODULE Codec ---------------------------------
(***************************************************************************)
(* The control messages on the wire, crates/proto/src/codec.rs and         *)
(* message.rs: one client that encodes messages, may be killed in the      *)
(* middle of a write or speak another protocol, and the FramedRead of the  *)
(* handler that reads them.  The socket gives any number of bytes at a     *)
(* time, so a frame is met in pieces, or several at once.                  *)
(*                                                                         *)
(* A byte is a digit to the base Base: 256 in the code, less for TLC.  The *)
(* other modules pass whole messages; that is what this one justifies.     *)
(***************************************************************************)
EXTENDS Naturals, Sequences

CONSTANTS
  Base,      \* values of a byte
  MaxFrame,  \* max_frame_len
  Messages,  \* what clients send
  Foreign,   \* what a peer that speaks another protocol may write
  MaxSent,   \* messages per connection (bounds the model)
  MaxRead    \* bytes one read of the socket may return

Byte  == 0 .. Base - 1
Short == 0 .. Base * Base - 1      \* a u16

Signals       == Byte
RedrawMethods == {"unspecified", "none", "ctrl_l", "winch"}

Message ==
  [type : {"push"}, data : Seq(Byte)]
    \cup [type : {"attach"}, skip_ring : BOOLEAN]
    \cup [type : {"detach"}]
    \cup [type : {"winch"}, rows : Short, cols : Short]
    \cup [type : {"redraw"}, method : RedrawMethods, rows : Short, cols : Short]
    \cup [type : {"kill"}, signal : Signals]

\* Six values for the tags and one that is none; the length of a frame fits four
\* bytes; every other message fits a frame, and a client's pushes do: it reads
\* less than max_frame_len at a time.
ASSUME SizesAssumption ==
  /\ Base \in Nat /\ Base > 6
  /\ MaxFrame \in Nat /\ MaxFrame >= 5 /\ MaxFrame < Base * Base * Base * Base
  /\ MaxSent \in Nat /\ MaxRead \in Nat \ {0}

ASSUME MessagesAssumption ==
  /\ \A m \in Messages :
       m \in Message /\ (m.type = "push" => Len(m.data) <= MaxFrame)
  /\ Foreign \subseteq Seq(Byte)

VARIABLES
  sent,     \* messages the client has written in whole
  closed,   \* the client has gone
  foreign,  \* it wrote something else
  wire,     \* bytes in the socket
  buffer,   \* FramedRead: bytes read and not yet decoded
  readable, \* there may be a frame in the buffer
  eof,      \* the last read returned nothing
  got,      \* messages the handler was given
  ended     \* why the handler returned: no (it has not), refused, eof

reader == <<buffer, readable, eof, got, ended>>
vars   == <<sent, closed, foreign, wire, reader>>

-------------------------------------------------------------------------------

HEADER_LEN == 5

TagOf == [push |-> 0, attach |-> 1, detach |-> 2, winch |-> 3, redraw |-> 4, kill |-> 5]

to_u8 == [unspecified |-> 0, none |-> 1, ctrl_l |-> 2, winch |-> 3]

\* A number as bytes, the most significant first (put_u16, put_u32: more is cut
\* off), and back (get_u16, from_be_bytes).
u16(n) == <<(n \div Base) % Base, n % Base>>
u32(n) == u16(n \div (Base * Base)) \o u16(n % (Base * Base))

u16Of(hi, lo) == hi * Base + lo
u32Of(a, b, c, d) == u16Of(a, b) * (Base * Base) + u16Of(c, d)

PayloadOf(m) ==
  CASE m.type = "push"   -> m.data
    [] m.type = "attach" -> <<IF m.skip_ring THEN 1 ELSE 0>>
    [] m.type = "detach" -> <<>>
    [] m.type = "winch"  -> u16(m.rows) \o u16(m.cols)
    [] m.type = "redraw" -> <<to_u8[m.method]>> \o u16(m.rows) \o u16(m.cols)
    [] m.type = "kill"   -> <<m.signal>>

encode(m) ==
  <<TagOf[m.type]>> \o u32(Len(PayloadOf(m))) \o PayloadOf(m)

\* decode's answers that are no message.
Incomplete == [type |-> "incomplete"]
Refused    == [type |-> "refused"]

\* The answers that a tag and a payload allow; each has its length.
decode_payload(ty, p) ==
  CASE ty = TagOf.push -> [type |-> "push", data |-> p]
    [] ty = TagOf.attach /\ Len(p) = 1 -> [type |-> "attach", skip_ring |-> p[1] # 0]
    [] ty = TagOf.detach /\ Len(p) = 0 -> [type |-> "detach"]
    [] ty = TagOf.winch /\ Len(p) = 4 ->
         [type |-> "winch", rows |-> u16Of(p[1], p[2]), cols |-> u16Of(p[3], p[4])]
    [] ty = TagOf.redraw /\ Len(p) = 5 /\ \E r \in RedrawMethods : to_u8[r] = p[1] ->
         [type |-> "redraw", method |-> CHOOSE r \in RedrawMethods : to_u8[r] = p[1],
          rows |-> u16Of(p[2], p[3]), cols |-> u16Of(p[4], p[5])]
    [] ty = TagOf.kill /\ Len(p) = 1 -> [type |-> "kill", signal |-> p[1]]
    [] OTHER -> Refused

ClaimedLen(src) == u32Of(src[2], src[3], src[4], src[5])
FrameEnd(src)   == HEADER_LEN + ClaimedLen(src)

\* Faulty variant: too long a frame is refused once it is there.
decodeChecksLate(src) ==
  IF Len(src) < HEADER_LEN THEN Incomplete
  ELSE IF Len(src) < FrameEnd(src) THEN Incomplete
  ELSE IF ClaimedLen(src) > MaxFrame THEN Refused
  ELSE decode_payload(src[1], SubSeq(src, HEADER_LEN + 1, FrameEnd(src)))

\* What decode makes of the bytes at hand.
decode(src) ==
  IF Len(src) < HEADER_LEN THEN Incomplete
  ELSE IF ClaimedLen(src) > MaxFrame THEN Refused
  ELSE IF Len(src) < FrameEnd(src) THEN Incomplete
  ELSE decode_payload(src[1], SubSeq(src, HEADER_LEN + 1, FrameEnd(src)))

-------------------------------------------------------------------------------

Init ==
  /\ sent = <<>> /\ closed = FALSE /\ foreign = FALSE /\ wire = <<>>
  /\ buffer = <<>> /\ readable = FALSE /\ eof = FALSE /\ got = <<>> /\ ended = "no"

\* The client encodes a message and writes it.
send(m) ==
  /\ ~closed /\ ~foreign /\ Len(sent) < MaxSent
  /\ sent' = Append(sent, m) /\ wire' = wire \o encode(m)
  /\ UNCHANGED <<closed, foreign, reader>>

\* The client goes, having written n bytes of a message, or 0 of them.
hangUp(m, n) ==
  /\ ~closed /\ closed' = TRUE /\ (foreign => n = 0)
  /\ wire' = wire \o SubSeq(encode(m), 1, n)
  /\ UNCHANGED <<sent, foreign, reader>>

\* The client writes bytes that are no message of this protocol.
writeForeign(bytes) ==
  /\ ~closed /\ ~foreign /\ foreign' = TRUE
  /\ wire' = wire \o bytes
  /\ UNCHANGED <<sent, closed, reader>>

\* FramedRead, no frame at hand: the socket is read.
read(n) ==
  /\ ended = "no" /\ ~readable /\ n <= Len(wire)
  /\ buffer' = buffer \o SubSeq(wire, 1, n) /\ wire' = SubSeq(wire, n + 1, Len(wire))
  /\ readable' = TRUE /\ eof' = FALSE
  /\ UNCHANGED <<sent, closed, foreign, got, ended>>

\* The read that returns nothing.  What is in the buffer is decoded once more.
readEof ==
  /\ ended = "no" /\ ~readable /\ closed /\ wire = <<>>
  /\ readable' = TRUE /\ eof' = TRUE
  /\ UNCHANGED <<sent, closed, foreign, wire, buffer, got, ended>>

\* Faulty variant: only the header is taken out.
AfterHeader(src) == SubSeq(src, HEADER_LEN + 1, Len(src))

\* split_to takes the frame out of the buffer.
AfterFrame(src) == SubSeq(src, FrameEnd(src) + 1, Len(src))

\* Faulty variants: one read is taken for one frame, as in the C code; the rest
\* of a frame is awaited although nothing more can come.
decodeFrameOnce ==
  LET answer == decode(buffer)
  IN  /\ ended = "no" /\ readable /\ answer \notin {Incomplete, Refused}
      /\ got' = Append(got, answer) /\ buffer' = AfterFrame(buffer) /\ readable' = FALSE
      /\ UNCHANGED <<sent, closed, foreign, wire, eof, ended>>

decodeNothingWaits ==
  /\ ended = "no" /\ readable /\ decode(buffer) = Incomplete /\ readable' = FALSE
  /\ ended' = IF eof /\ buffer = <<>> THEN "eof" ELSE "no"
  /\ UNCHANGED <<sent, closed, foreign, wire, buffer, eof, got>>

\* FramedRead, a frame may be at hand: it is taken and given to the handler.
decodeFrame ==
  LET answer == decode(buffer)
  IN  /\ ended = "no" /\ readable /\ answer \notin {Incomplete, Refused}
      /\ got' = Append(got, answer) /\ buffer' = AfterFrame(buffer)
      /\ UNCHANGED <<sent, closed, foreign, wire, readable, eof, ended>>

\* There is no frame: the socket is next.  At the end of the stream the answer
\* is the end, or an error for a piece of a frame.
decodeNothing ==
  /\ ended = "no" /\ readable /\ decode(buffer) = Incomplete /\ readable' = FALSE
  /\ ended' = IF ~eof THEN "no" ELSE IF buffer = <<>> THEN "eof" ELSE "refused"
  /\ UNCHANGED <<sent, closed, foreign, wire, buffer, eof, got>>

\* An error ends the handler, and the connection with it.
decodeRefused ==
  /\ ended = "no" /\ readable /\ decode(buffer) = Refused
  /\ ended' = "refused"
  /\ UNCHANGED <<sent, closed, foreign, wire, buffer, readable, eof, got>>

ReaderStep == (\E n \in 1 .. MaxRead : read(n)) \/ readEof
                \/ decodeFrame \/ decodeNothing \/ decodeRefused

Next ==
  \/ \E m \in Messages : send(m) \/ \E n \in 0 .. Len(encode(m)) - 1 : hangUp(m, n)
  \/ \E bytes \in Foreign : writeForeign(bytes)
  \/ ReaderStep

Spec == Init /\ [][Next]_vars

\* The runtime polls the handler when its socket is readable.
FairSpec == Spec /\ WF_vars(ReaderStep)

-------------------------------------------------------------------------------

\* The type invariant, with the bound the comment on DEFAULT_MAX_FRAME_LEN is
\* about: whatever a peer claims, the buffer holds less than one header, one
\* frame and one read.
TypeOK ==
  /\ sent \in Seq(Messages) /\ closed \in BOOLEAN /\ foreign \in BOOLEAN
  /\ wire \in Seq(Byte) /\ buffer \in Seq(Byte) /\ got \in Seq(Message)
  /\ readable \in BOOLEAN /\ eof \in BOOLEAN /\ ended \in {"no", "refused", "eof"}
  /\ Len(buffer) < HEADER_LEN + MaxFrame + MaxRead

\* However the stream is cut, the handler is given the messages that were sent,
\* in order and with every field as it was; a piece of a message is no message,
\* and what a peer of another protocol wrote changes none that it sent before.
FramesInOrder ==
  /\ \A i \in 1 .. Len(got) : i <= Len(sent) => got[i] = sent[i]
  /\ Len(got) > Len(sent) => foreign

\* When the handler waits for bytes that nobody has written, or has returned,
\* for whatever reason, it has been given everything the client sent.
NothingLeftBehind ==
  ended # "no" \/ (~readable /\ wire = <<>>) => Len(got) >= Len(sent)

\* A connection whose client is gone ends, wherever in a frame the client
\* stopped: no handler is left behind.
DeadClientEnds == closed ~> ended # "no"
===============================================================================
