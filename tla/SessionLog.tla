------------------------------ MODULE SessionLog ------------------------------
(***************************************************************************)
(* The on-disk session log, crates/daemon/src/session_log.rs: the writer   *)
(* thread of one daemon after another on the same file, a second daemon    *)
(* started on the name of the first, `hytch clear` at any moment, a full   *)
(* disk, and daemons that die at any moment.  A writer is modelled call by *)
(* call, because other processes work on the file between two of its       *)
(* calls.                                                                  *)
(*                                                                         *)
(* The second daemon, the rival, opens and rotates the log before it tries *)
(* to bind the socket (daemon.rs, run), be there one or not.  It may have  *)
(* another cap.                                                            *)
(*                                                                         *)
(* The file holds positions of the session's output, so that order and     *)
(* loss can be seen; what the code looks at is the kind of the byte there. *)
(* The file is not opened for appending: a write goes to the writer's own  *)
(* offset, and bytes between the end of the file and that offset read NUL. *)
(***************************************************************************)
EXTENDS Naturals, Sequences

CONSTANTS
  MaxSize,    \* the cap on the log, more than 0: a cap of 0 is no log at all
  Lookback,   \* ESCAPE_LOOKBACK
  MaxChunk,   \* bytes one read from the pty may return
  Streams,    \* the outputs a session may produce
  RivalCaps(_) \* bound: for each, the caps a second daemon may be given

ASSUME SizesAssumption ==
  /\ MaxSize \in Nat \ {0} /\ Lookback \in Nat \ {0} /\ MaxChunk \in Nat \ {0}

\* What the code can tell of a byte, and one thing it cannot: whether a letter
\* stands for itself or ends an escape sequence ("final").
Byte == {"esc", "bracket", "digit", "final", "letter", "lead", "cont"}

ASSUME StreamsAssumption ==
  /\ Streams \subseteq Seq(Byte)
  /\ \A s \in Streams : RivalCaps(s) \subseteq Nat \ {0}

\* Kinds a letter, a character or an escape sequence begins with, and what
\* stands behind a byte of each kind.
Starts == {"letter", "esc", "lead"}

Followers(kind) ==
  CASE kind \in {"letter", "final"}  -> Starts
    [] kind \in {"lead", "cont"}     -> Starts \cup {"cont"}
    [] kind = "esc"                  -> {"bracket", "final"}
    [] kind \in {"bracket", "digit"} -> {"digit", "final"}

\* Output of whole characters and of escape sequences of the two forms that
\* escape_sequence_terminated knows, none longer than Lookback + 1 bytes.
WellFormed(s) ==
  /\ s # <<>> => s[1] \in Starts
  /\ \A i \in 2 .. Len(s) : s[i] \in Followers(s[i - 1])
  /\ \A i, j \in 1 .. Len(s) :
       s[i] = "esc" /\ i < j /\ (\A k \in i + 1 .. j : s[k] \notin Starts) => j - i <= Lookback

VARIABLES
  stream,       \* the output of this session
  taken,        \* how much of it the writers have been given
  file,         \* the log: positions in stream, or NUL
  pc,           \* the writer's next call; "closed" without a daemon
  opening,      \* the log is being opened: append is not yet possible
  offset,       \* the writer's place in the file
  current_size, \* what the writer takes the file's length to be
  size,         \* the length rotate_log_file measured
  tail,         \* the bytes it keeps
  rival,        \* a second daemon: its next call, cap, place, length, tail
  faults        \* what has gone wrong so far: clear, full, torn, rival

writerVars == <<opening, offset, current_size, size, tail>>
vars       == <<stream, taken, file, pc, writerVars, rival, faults>>

NUL == 0

KindAt(p)  == IF p = NUL THEN "nul" ELSE stream[p]
IsFinal(p) == KindAt(p) \in {"letter", "final", "bracket"}
IsCont(p)  == KindAt(p) = "cont"

SmallerOf(a, b) == IF a < b THEN a ELSE b

\* d written at offset `at` of a file holding f.
Written(f, at, d) ==
  LET end == IF at + Len(d) > Len(f) THEN at + Len(d) ELSE Len(f)
  IN  IF d = <<>> THEN f
      ELSE [i \in 1 .. end |-> IF i > at /\ i <= at + Len(d) THEN d[i - at]
                               ELSE IF i <= Len(f) THEN f[i] ELSE NUL]

\* The positions after n up to m; b without its first n bytes.
Span(n, m) == [i \in 1 .. m - n |-> n + i]
Drop(b, n) == SubSeq(b, n + 1, Len(b))

-------------------------------------------------------------------------------

\* seq begins with ESC.
escape_sequence_terminated(seq) ==
  /\ Len(seq) > 1
  /\ KindAt(seq[2]) = "bracket" => \E i \in 3 .. Len(seq) : IsFinal(seq[i])

\* Faulty variant: the cut at the cap, whatever is there.
trim_start_raw(b, naive_cut) == naive_cut

\* How many bytes of b to drop; rotation never asks for a cut beyond Lookback,
\* so the window before the cut is all of b before it.
safe_trim_start(b, naive_cut) ==
  LET escs == {i \in 1 .. naive_cut : KindAt(b[i]) = "esc"}
      last == CHOOSE i \in escs : \A j \in escs : j <= i
  IN  IF escs # {} /\ ~escape_sequence_terminated(SubSeq(b, last, naive_cut))
      THEN last - 1
      ELSE CHOOSE n \in naive_cut .. Len(b) :
             /\ \A i \in naive_cut + 1 .. n : IsCont(b[i])
             /\ n < Len(b) => ~IsCont(b[n + 1])

\* Faulty variants: the length is the writer's own count; the count is reset
\* after a rotation, as atch did; the file is not truncated first.
MeasuredByCount == current_size
RecountedZero   == 0
EmptiedNot      == file

\* The seek to the end that returns the length, set_len(0), and the length in
\* the file's metadata.
Measured  == Len(file)
Emptied   == <<>>
Recounted == Len(file)

\* Faulty variants: one byte too few is kept; the file is read from its start.
NaiveStartShort(sz, cap) == sz - cap + 1
ReadStartZero(sz, cap)   == 0

\* Where rotation to a cap cuts a file of sz bytes, and where it reads from.
NaiveStart(sz, cap)   == sz - cap
LookbackUsed(sz, cap) == SmallerOf(Lookback, NaiveStart(sz, cap))
ReadStart(sz, cap)    == NaiveStart(sz, cap) - LookbackUsed(sz, cap)

\* What rotation looks at of a file it has measured as sz bytes, which may be
\* shorter or longer by now; what it reads of that, and what it keeps.
Seen(sz)          == SubSeq(file, 1, SmallerOf(sz, Len(file)))
Buffer(sz, cap)   == Drop(Seen(sz), ReadStart(sz, cap))
KeptTail(sz, cap) ==
  Drop(Buffer(sz, cap), safe_trim_start(Buffer(sz, cap), LookbackUsed(sz, cap)))

\* The cut is behind the end of what was read: slicing up to it panics.
OutOfBounds(sz, cap) == Len(file) < NaiveStart(sz, cap)

NoRival == [pc |-> "closed", cap |-> 0, offset |-> 0, size |-> 0, tail |-> <<>>]

-------------------------------------------------------------------------------

Init ==
  /\ stream \in Streams /\ taken = 0 /\ file = <<>>
  /\ pc = "closed" /\ opening = TRUE /\ offset = 0 /\ current_size = 0
  /\ size = 0 /\ tail = <<>> /\ rival = NoRival /\ faults = {}

\* A daemon starts and opens the log, which begins with a rotation.
open ==
  /\ pc = "closed" /\ pc' = "measure"
  /\ UNCHANGED <<stream, taken, file, writerVars, rival, faults>>

\* A chunk of n bytes comes; k of them are written.  When the disk is full
\* (k < n) append returns early, and spawn_log_writer ignores the error.
append(n, k) ==
  /\ pc = "idle" /\ taken + n <= Len(stream)
  /\ taken' = taken + n
  /\ file' = Written(file, offset, Span(taken, taken + k))
  /\ offset' = offset + k
  /\ IF k < n
     THEN faults' = faults \cup {"full"} /\ UNCHANGED <<pc, current_size>>
     ELSE /\ current_size' = current_size + n
          /\ pc' = IF current_size' > MaxSize THEN "measure" ELSE "idle"
          /\ UNCHANGED faults
  /\ UNCHANGED <<stream, opening, size, tail, rival>>

\* rotate_log_file: the seek that returns the length.
measure ==
  /\ pc = "measure"
  /\ size' = Measured /\ offset' = Measured
  /\ pc' = IF Measured > MaxSize THEN "read" ELSE "recount"
  /\ UNCHANGED <<stream, taken, file, opening, current_size, tail, rival, faults>>

\* The read and the cut.  A file truncated since it was measured may have too
\* little to read: the panic ends the thread in append and the daemon in open.
readTail ==
  /\ pc = "read"
  /\ IF OutOfBounds(size, MaxSize)
     THEN /\ pc' = IF opening THEN "closed" ELSE "panicked"
          /\ offset' = ReadStart(size, MaxSize) /\ UNCHANGED tail
     ELSE /\ pc' = "truncate" /\ offset' = Len(Seen(size))
          /\ tail' = KeptTail(size, MaxSize)
  /\ UNCHANGED <<stream, taken, file, opening, current_size, size, rival, faults>>

\* set_len(0) and the seek to the start.
truncate ==
  /\ pc = "truncate" /\ pc' = "rewrite"
  /\ file' = Emptied /\ offset' = 0
  /\ UNCHANGED <<stream, taken, opening, current_size, size, tail, rival, faults>>

\* k bytes of the tail are written back; a full disk ends append, or the
\* daemon if it was opening the log.
rewrite(k) ==
  /\ pc = "rewrite"
  /\ file' = Written(file, offset, SubSeq(tail, 1, k)) /\ offset' = offset + k
  /\ IF k = Len(tail)
     THEN pc' = "recount" /\ UNCHANGED faults
     ELSE pc' = (IF opening THEN "closed" ELSE "idle") /\ faults' = faults \cup {"full"}
  /\ UNCHANGED <<stream, taken, opening, current_size, size, tail, rival>>

\* The rotation ends at the end of the file, whose length is read back: the
\* seek and the metadata call are one step here.
recount ==
  /\ pc = "recount" /\ pc' = "idle"
  /\ offset' = Len(file) /\ current_size' = Recounted
  /\ opening' = FALSE /\ size' = 0 /\ tail' = <<>>
  /\ UNCHANGED <<stream, taken, file, rival, faults>>

\* commands.rs, clear: another process truncates the file; the writer is not
\* told, and its offset stays where it was.
clear ==
  /\ file # <<>> /\ file' = <<>>
  /\ faults' = faults \cup {"clear"}
  /\ UNCHANGED <<stream, taken, pc, writerVars, rival>>

\* The daemon ends, between two chunks or in the middle of a rotation.
die ==
  /\ pc # "closed" /\ pc' = "closed"
  /\ opening' = TRUE /\ offset' = 0 /\ current_size' = 0 /\ size' = 0 /\ tail' = <<>>
  /\ faults' = faults \cup (IF pc = "rewrite" THEN {"torn"} ELSE {})
  /\ UNCHANGED <<stream, taken, file, rival>>

-------------------------------------------------------------------------------
(* A second daemon on the log of one that lives.                             *)

RivalGoes(next) == rival' = next /\ UNCHANGED <<stream, taken, pc, writerVars>>

\* `hytch start` on a live name, with a cap of its own.
rivalOpen(cap) ==
  /\ rival.pc = "closed" /\ pc # "closed"
  /\ RivalGoes([NoRival EXCEPT !.pc = "measure", !.cap = cap])
  /\ UNCHANGED <<file, faults>>

rivalMeasure ==
  /\ rival.pc = "measure"
  /\ RivalGoes([rival EXCEPT !.pc = IF Measured > rival.cap THEN "read" ELSE "recount",
                             !.size = Measured])
  /\ UNCHANGED <<file, faults>>

\* The writer may have rotated the file meanwhile.
rivalRead ==
  /\ rival.pc = "read"
  /\ IF OutOfBounds(rival.size, rival.cap)
     THEN RivalGoes(NoRival)
     ELSE RivalGoes([rival EXCEPT !.pc = "truncate", !.tail = KeptTail(rival.size, rival.cap)])
  /\ UNCHANGED <<file, faults>>

\* From here on the writer's place and count are not the file's.
rivalTruncate ==
  /\ rival.pc = "truncate"
  /\ RivalGoes([rival EXCEPT !.pc = "rewrite"])
  /\ file' = Emptied /\ faults' = faults \cup {"rival"}

\* A full disk ends the rival.
rivalRewrite(k) ==
  /\ rival.pc = "rewrite"
  /\ file' = Written(file, 0, SubSeq(rival.tail, 1, k))
  /\ RivalGoes(IF k = Len(rival.tail) THEN [rival EXCEPT !.pc = "recount"] ELSE NoRival)
  /\ UNCHANGED faults

\* The log is open: what the rival takes for its end and its length.
rivalRecount ==
  /\ rival.pc = "recount"
  /\ RivalGoes([NoRival EXCEPT !.pc = "opened", !.cap = rival.cap, !.offset = Len(file)])
  /\ UNCHANGED <<file, faults>>

\* The socket is the first daemon's, so the bind fails; or the rival dies.
rivalEnds ==
  /\ rival.pc # "closed"
  /\ RivalGoes(NoRival)
  /\ UNCHANGED <<file, faults>>

\* The first daemon has ended in between, and the rival binds: it writes where
\* the end of the log was when it opened it.  One with another cap is left out.
takeOver ==
  /\ rival.pc = "opened" /\ rival.cap = MaxSize /\ pc = "closed"
  /\ pc' = "idle" /\ opening' = FALSE
  /\ offset' = rival.offset /\ current_size' = rival.offset
  /\ size' = 0 /\ tail' = <<>> /\ rival' = NoRival
  /\ faults' = faults \cup {"rival"}
  /\ UNCHANGED <<stream, taken, file>>

-------------------------------------------------------------------------------

RivalStep ==
  \/ \E cap \in RivalCaps(stream) : rivalOpen(cap)
  \/ rivalMeasure \/ rivalRead \/ rivalTruncate \/ rivalRecount \/ rivalEnds \/ takeOver
  \/ \E k \in 0 .. Len(rival.tail) : rivalRewrite(k)

Next ==
  \/ open \/ measure \/ readTail \/ truncate \/ recount \/ clear \/ die
  \/ \E n \in 1 .. MaxChunk : \E k \in 0 .. n : append(n, k)
  \/ \E k \in 0 .. Len(tail) : rewrite(k)
  \/ RivalStep

Spec == Init /\ [][Next]_vars

-------------------------------------------------------------------------------

Positions == 0 .. Len(stream)

RivalStages == {"closed", "measure", "read", "truncate", "rewrite", "recount", "opened"}

\* The type invariant, with the bound rotate_log_file's comment gives: what it
\* keeps passes the cap by Lookback at most.
TypeOK ==
  /\ stream \in Streams /\ taken \in Positions /\ file \in Seq(Positions)
  /\ pc \in {"closed", "measure", "read", "truncate", "rewrite", "recount",
            "idle", "panicked"}
  /\ opening \in BOOLEAN
  /\ offset \in Nat /\ current_size \in Nat /\ size \in Nat
  /\ tail \in Seq(Positions) /\ Len(tail) <= MaxSize + Lookback
  /\ rival \in [pc : RivalStages, cap : Nat, offset : Nat, size : Nat, tail : Seq(Positions)]
  /\ Len(rival.tail) <= rival.cap + Lookback
  /\ faults \subseteq {"clear", "full", "torn", "rival"}

\* Until a second daemon has truncated the log under its writer, or has taken
\* over a log that it opened earlier, what is in the file is output in the order
\* it was produced, nothing twice, whatever else happens to it; the filler a
\* write behind the end leaves is all at the front, and `hytch clear` is the
\* cause of it.  A second daemon that finds the log below its cap does no harm.
InOrder ==
  "rival" \notin faults =>
    \A i \in 1 .. Len(file) :
      /\ file[i] = NUL => "clear" \in faults
      /\ \A j \in 1 .. i - 1 : file[j] = NUL \/ file[j] < file[i]

\* Between two appends the writer's count is the length of the file and its
\* offset the end, also after rotations, restarts and deaths in the middle of
\* a rotation; so append rotates when it should, and the log stays bounded.  It
\* is so while one daemon at a time writes to the log.
CountIsExact ==
  pc = "idle" /\ faults \subseteq {"torn"}
    => /\ current_size = Len(file) /\ offset = Len(file)
       /\ Len(file) <= MaxSize + Lookback

\* The newest MaxSize bytes given to append are in the file, except the rest
\* of a character that the cut would have split.
Kept ==
  LET from == IF taken > MaxSize THEN taken - MaxSize + 1 ELSE 1
  IN  \A p \in from .. taken :
        \/ \E i \in 1 .. Len(file) : file[i] = p
        \/ \A q \in from .. p : IsCont(q)

\* Rotation forgets only old output: after any number of appends, rotations and
\* restarts of daemons with the same cap the newest bytes are there, also while
\* a second daemon looks at the log.  It is not so between truncate and rewrite,
\* when the file is empty for whoever reads it.
HistoryKept == faults = {} /\ pc # "rewrite" => Kept

\* f cut after n bytes does not begin inside a character or escape sequence
\* whose beginning was in f.
SafeCut(f, n) ==
  n < Len(f) /\ f[n + 1] # NUL
    => LET p     == f[n + 1]
           First(q) == KindAt(q) \in Starts
           begin == CHOOSE q \in 1 .. p : First(q) /\ \A r \in q + 1 .. p : ~First(r)
       IN  \/ begin = p \/ n < p - begin
           \/ SubSeq(f, n - (p - begin) + 1, n) # Span(begin - 1, p - 1)

\* The comment on rotate_log_file: "never inside a multi-byte UTF-8 character,
\* never inside an unterminated ANSI escape sequence".  It holds for output that
\* is WellFormed.
CutIsSafe ==
  [][/\ readTail /\ pc' = "truncate" =>
          SafeCut(Seen(size), Len(Seen(size)) - Len(tail'))
     /\ rivalRead /\ rival'.pc = "truncate" =>
          SafeCut(Seen(rival.size), Len(Seen(rival.size)) - Len(rival'.tail))]_vars

\* What the writer's rotation reads is as long as it was measured, and its
\* slices are in bounds, unless `hytch clear` or the rotation of a second daemon
\* truncated the file between the two calls: then the writer thread is gone, and
\* the rest of the session is not logged.
PanicNeedsTruncation == pc = "panicked" => faults \cap {"clear", "rival"} # {}

\* "so a cold reattach (session exited, crashed, or the machine rebooted) can
\* replay full history" (session_log.rs:1-4): what a dead daemon leaves behind
\* is the newest output, if nobody cleared it and the disk was not full.
CrashKeepsHistory == pc = "closed" /\ faults \subseteq {"torn"} => Kept
===============================================================================
