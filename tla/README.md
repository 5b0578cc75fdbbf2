# Verification of hytch

TLA+ models of hytch, the terminal session daemon under `crates/`, with TLC
configurations that check them and TLAPS proofs about them. Paths below are
relative to the repository.

## 1. The system

A session is one **daemon** process. It hosts a program (the **child**) on a
pty, keeps a **scrollback** ring of recent output and an on-disk **log**, and
serves **clients** over a Unix socket. Everything but the log writer runs on a
runtime with one thread (`cli/src/main.rs`), so a task's code between two
awaits is not interrupted, and the hard interleavings are those at awaits.

| Component | State | Operations | Hard behaviour | What makes it correct |
|---|---|---|---|---|
| Scrollback ring, `daemon/src/ring_buffer.rs` | array, head, length | append, snapshot | wrap-around, overwriting, oversized input | snapshot = newest bytes, in order |
| Fanout, `daemon/src/fanout.rs` | ring and broadcast channel behind one mutex | push, attach | push and attach interleave; slow receivers are overrun | no gap and no duplicate between snapshot and live output; a lag ends the connection |
| Event loop, `daemon/src/daemon.rs` `run` | two bounded command channels, biased `select!`, write in progress | control, read, accept, push, signals, shutdown | starvation by the bias, timeouts, a child that does not read, does not die, or lets go of its tty | bounded delay of a kill, bounded queues, complete log before the socket goes, the session ends |
| Handlers, `daemon/src/daemon.rs` `handle_client` | receiver, partial write, message being forwarded | attach, detach, push, resize, kill, live output | waits inside a branch, dead clients, lag, daemon exit | exact delivery in both directions |
| Pty, `daemon/src/pty.rs` | master, child, process group | read, write, resize, signal, wait | processes that outlive the child, job control | signals arrive, output is drained |
| Attach client, `client/src/attach.rs`, `cli/src/attach.rs` | handshake, loop, replayed log | replay, connect, input, output, detach, suspend | replay against live output, blocked sends, end of file with two meanings | history shown once; input in order, and nothing of it behind the character that ends it |
| Resizes, `client/src/resize.rs` | the signal, the watcher's channel | signal, size, message | signals that become one, a full channel, a size read before the message goes out | the pty ends with the terminal's last size |
| Commands, `cli/src/commands.rs` | none of their own | kill, push, clear, rm, list | escalation against a stuck daemon, probe and act | the report is true |
| Session log, `daemon/src/session_log.rs` | file, position, tracked size | open, append, rotate | crash inside a rotation, clear or a second daemon under the writer, full disk | a log is a run of the output in order, within its limit, cut where a terminal can begin |
| Lifecycle, `cli/src/spawn.rs`, `main.rs`, `sockets.rs`; start and end of `run` in `daemon.rs` | session directory: a socket and a log for each name | start, new, attach, attach-or-create, rm, kill; open, bind, unlink of a daemon | every command probes and then acts, next to others and to daemons that come up, fail to, end or crash | whoever serves can be reached, only a crash or a start that failed late leaves a socket behind, what is reported is so |
| Codec, `proto/src/` | bytes received so far | encode, decode | partial frames, refused frames, a client killed in a write | every message sent arrives once and unchanged, however the stream is cut |
| Names, `session/src/lib.rs` | ancestry chain in the environment | resolve, extend, contains | sessions in sessions, colons in names, two spellings of a path | nobody attaches to a session it runs in |

How they interact: clients connect to the socket; the loop's accept branch
makes a handler task for each. A handler calls `Fanout::attach` directly, and
hands pushes and commands to the loop through two channels (256 pushes, 16
commands). The loop alone reads and writes the pty; what it reads goes to
`Fanout::push` and to the log writer thread. `hytch kill` sends a command and
then watches the socket file; the daemon removes it after the log is complete.

`PROJECT.json` lists every component with its status, the hazards with the
line where each bites, and the map from definitions to source lines.

## 2. Modules

| Module | What it is |
|---|---|
| `Scrollback` | what a scrollback promises: the newest `Capacity` bytes |
| `RingBuffer` | `ring_buffer.rs`: `buf`, `head`, `len`; `append` with its clamp, two copies and wrapped head. Implements `Scrollback` |
| `RingBufferProofs` | type correctness and the refinement, proved |
| `Fanout` | `fanout.rs` as documented: `push` and `attach` one step each; `recv`, `lagged`, `detach` of a handler's receiver |
| `FanoutLocked` | the calls inside `push` and `attach` as steps, with the mutex. Extends and implements `Fanout` |
| `FanoutProofs` | type correctness, the two properties of a client's view, mutual exclusion and the refinement, proved |
| `Daemon` | the event loop, its channels, the command part of the handlers, the log writer, the processes behind the pty, `hytch kill`, streaming clients |
| `DaemonProofs` | its four invariants, proved |
| `Connection` | extends `Fanout`: handler tasks and clients end to end, the two directions of the socket, the push channel, log replay, the daemon's exit |
| `ConnectionProofs` | limits of its queues, the exact pipeline, history shown once and input in order, proved |
| `SessionLog` | `session_log.rs` call by call, one daemon after another on one file; a second daemon (the rival) started on the name of the first; `hytch clear`; full disks; death at any call |
| `SessionLogProofs` | its six properties, proved |
| `Codec` | `codec.rs` and `message.rs`: `encode` and `decode` byte by byte, the `FramedRead` around `decode`, a client that may stop anywhere |
| `CodecProofs` | the bound on the buffer, frames in order and nothing left behind, proved |
| `Lifecycle` | the session directory with the commands and the daemons' starts and ends around it; the ancestry chain and the self-attach guard |
| `LifecycleProofs` | its six invariants, proved |
| `AttachClient` | the client's loop with special characters, the SIGWINCH watcher, and the way of a size to the pty |
| `AttachClientProofs` | its three invariants and the order of sizes, proved |
| `MC*` | constants and configurations for TLC |

**Composition.** `Fanout` uses `Scrollback!AfterAppend` for its ring;
`RingBuffer` implements it. `Connection` takes `Fanout`'s `push`, `attach`,
`recv`, `lagged` and `detach` as they are and adds the tasks that call them.
`Daemon` and `Connection` share no variable: `Daemon` has the commands, the pty
and the log; `Connection` has the bytes. Each stands for the other's part by one
action (`readOutput` and `takePush`). `SessionLog` is what `Daemon`'s `writeLog`
does with one chunk. `Codec` is why the other modules may pass whole messages.
`Lifecycle` has many daemons, of each of which it sees the start, the two moments
of its end and a crash; what one does while it serves is `Daemon`'s, and `stop`
stands for every reason its loop has to end. `AttachClient` is the client of
`Connection` with its input and resizes in detail; of the output it has only that
it may keep the handler in `write_all` until the client reads (`fillSocket`,
`readOutput`).

**Data.** In `Fanout` and `Connection` the n-th byte the child writes is the
number n, so any lost, repeated or reordered byte shows. A client's input
messages are numbered likewise. `Daemon` counts units (one `read()` of output,
one fill of the input queue) and names messages by their kind. `SessionLog`'s
file holds positions of the session's output; what the code looks at is the kind
of the byte there (escape, bracket, letter, lead, continuation). `Codec` alone
has bytes, digits to a base that is 256 in the code and 7 in the run. In
`Lifecycle` a command, the daemon it spawns and that daemon's files share one
number; a path is a value with the directory entry it leads to and the segments
it has between colons. In `AttachClient` sizes are numbered as the terminal takes
them, and a byte of input is a key or a special character.

**Steps.** In `Daemon` and `Connection` a step is a task's code between two
awaits. The exception is a wait inside a `select!` branch, which is a state of
its own (`writing`, `reaping`, `sending`, `pushing`): that the other branches
are not looked at meanwhile is what several of the findings come from. A
`biased` `select!` is a chain of guards: each branch waits until those above it
are not ready. `handle_client`'s `select!` is not biased, so any ready branch
may go. `FanoutLocked` is finer: it lets threads interleave at every call, as
the file's documentation claims to allow. `SessionLog` has a step per system
call, since `hytch clear` and death come between two of them; the seek that
measures the file at the end of a rotation and the metadata call are one. The
rival opens and rotates the log as the code does before it binds, and may then
fail to bind, die, or bind because the first daemon has ended in between.
`Lifecycle` too goes by system calls: a command looks in one step and acts in
another, `UnixListener::bind` is a bind and a listen, and a daemon may crash
between any two. What a command polls for (`wait_for_socket`, `wait_gone`) it sees
at any moment while it is there, and a timeout may come whenever it is not.

**Left out of these modules.** Resizing changes nothing modelled (its command
still takes a slot in the control channel). A protocol error ends a handler like
an end of file. The write of `hytch kill`'s message always succeeds. In
`Connection` the log file is the first `logged` bytes of the output, without
rotation; a log left by an earlier session of the same name is not there. In
`SessionLog` the I/O error is the full disk, which stops a write anywhere; a
daemon does not die in the middle of a write, and what the machine's own crash
takes from its caches is not there. There is one rival at a time, one with another
cap than the writer's does not take the log over, and two daemons that serve on one
log, which takes an `rm` in between, are not there. `Codec` takes the handler to come back to
its stream; when it does not is the subject of `Daemon` and `Connection`.
In `Lifecycle` a name resolves without failing and the directory can be written;
a connect that succeeds before the accept counts as connected. `crash` stands for
SIGKILL, so that the SIGKILL of `hytch kill` needs no step of its own. The two
calls behind `bind` that may fail are one step (`startFails`).

## 3. Runs

| Run | Checks | Bounds |
|---|---|---|
| `ring` | `TypeOK`, `AppendKeepsNewest`, `ImplementsScrollback` | capacity 4, chunks of up to 5 of three values: appends that fit, wrap, fill exactly, overwrite, exceed the ring. `MaskIsModulo` ties the code's mask to `%` |
| `fanout` | `TypeOK`, `ViewContiguous`, `ViewReachesCursor`, `MutualExclusion`, `ImplementsFanout` | two clients, ring of 3, channel of 2 chunks, 6 bytes: snapshots are truncated, receivers lag and attach again in the middle of a push |
| `daemon` | `TypeOK`, `KillWaitsOneWrite`, `LogCompleteWhenGone`, `ReportIsTrue`, `KillEndsSession` | a child that ignores SIGTERM, a job in another process group, one `hytch kill`, one streaming client; channels of one slot, an input queue of one unit, writes of up to two: every queue fills, every timeout can fire |
| `connection_safety` | `ConnTypeOK`, `PipelineExact`, `NeverTwice`, `InputInOrder` | a viewer and a `hytch push`; ring 2, channel 1 chunk, 3 bytes, 1 byte of socket buffer, 2 messages each: partial writes, lag, a full push channel, exit at every moment |
| `connection_live` | `ViewerCatchesUp`, `PushesAreTaken` | the same with 2 bytes of output; two messages into a socket that holds one are enough for handler and client to block each other, which happens in the run, as do a lag, a full push channel and an end of the loop that strands somebody |
| `codec` | `TypeOK`, `FramesInOrder`, `NothingLeftBehind`, `DeadClientEnds` | two messages of every kind, lengths of one digit and of two, payloads that look like frames, a longest frame of 8 bytes, reads of up to 6: every frame is met in pieces, together with the next, and cut off at each byte; an unknown tag, a wrong length, an unknown method, a frame too long, a length in the highest byte |
| `session_log` | `TypeOK`, `InOrder`, `CountIsExact`, `HistoryKept`, `PanicNeedsTruncation`, `CutIsSafe` | every output of six bytes, and every one of four, made of letters, characters of two and three bytes and escapes of two and four; a cap of 2, a lookback of 3, chunks of up to 4: rotations cut before, in and behind each of them, several times in a session. Beside the outputs of four bytes a rival at any moment, with a cap of 1 or 2: the hole, the disorder and the panic that the properties except do occur |
| `lifecycle` | `TypeOK`, `ServedIsReachable`, `StaleNeedsFailure`, `SuccessHasSocket`, `KillReportIsTrue`, `NoSelfAttach` | three commands, one crash, starts that fail before or behind the bind: `start a`; then attach-or-create, rm or kill of `a`, or `start b:c`; then start, rm, kill or attach of `a`, attach by another spelling, or a name that is refused; the later ones in a plain shell or in a session |
| `client` | `TypeOK`, `FirstSpecialWins`, `SuspendedIsDetached`, `SizesInOrder`, `SizeConverges` | socket, resize and control channel of one, four bytes of input in reads of up to three, four sizes, output that blocks the handler at any moment |
| `start_report` | violates `SuccessIsNotStale` | as `lifecycle` |
| `log_crash` | violates `CrashKeepsHistory` | as `session_log` |
| `write_deadlock` | violates `LaggingClientIsDisconnected` | one viewer that types three messages into a socket that holds one |

The bounds are the smallest at which each limit is reached from both sides:
every queue can be empty, full and waited for. Two clients suffice for
`Fanout`, whose clients do not see each other (the proofs are for any number);
one viewer and one pusher for `Connection`, where clients meet only in the push
channel. Three commands are what the hazards of `Lifecycle` take: one that
creates, one that creates again, removes or kills, and one that comes in between
or after; the proofs are for any number of them. In `AttachClient` four sizes
fill the socket and both channels. Deadlock is not checked in `Daemon`,
`Connection` and their variants because a session ends, in `Codec` and
`AttachClient` because a connection does, in `Lifecycle` because `MaxCmds` bounds
the commands, and in `fanout` only the bound on the output stops the pushes.

**Fairness.** `Daemon`: the loop and the log writer run (the runtime polls what
can move); tokio's channels serve waiting senders in order, hence strong
fairness for the handler of a kill; `hytch kill` runs on; a process that was
sent a fatal signal dies. The child, the job and the streaming client owe
nothing. `Connection`: tasks that can move are polled. Weak fairness is enough for
the branches of handlers and clients, though `select!`, which picks at random
among the ready ones, and channels that serve their senders in order give more:
output and input are bounded, so what can come in between is. The loop gets weak
fairness for `accept` and `takePush` while it is in its `select!`, where output
goes first: it comes to them because `MaxBytes` makes the output finite. It may leave the `select!` at any
moment (`endLoop`) and stay in `pty.wait()` for ever: `exit` is not assumed to
happen, and neither are input and leaving. `Codec`: the runtime polls a handler
whose socket has bytes or has ended; clients owe nothing. `AttachClient`: tasks
that can move are polled; `takeResize` and `readOutput` get strong fairness,
because `select!` picks at random among the ready branches and input may be ready
each time, and so does `handle`, because output may put the handler into
`write_all` again and again but not for ever while the client reads. Nothing is
assumed of a handler in `write_all` whose client is in `send`. The loop serves
resizes until `endLoop`, and the user, the terminal, the program's output and the
end of the loop owe nothing. `SessionLog` and `Lifecycle`
have no liveness: nothing in the code makes a command be typed, and what waits
there has a timeout.
`KillEndsSession` takes the child's output to be
finite: a child that never stops writing keeps the read branch ready and
nothing is accepted, which the `select!` order makes possible.

What the liveness properties except is what the code allows. `ViewerCatchesUp`
excepts a viewer that is disconnected, one whose own blocked `send` keeps its
handler in `write_all` (`WritesBlock`, the wait of the run `write_deadlock`), and
one whose connection or push the loop had not taken when it ended (`Abandoned`).
`PushesAreTaken` excepts the end of the loop, and says that the loop takes what was
pushed: whether the child reads it before the timeout of the write drops the rest
is `Daemon`'s (`writeTimeout`). `SizeConverges` excepts the end of the client, of
the connection and of the loop, and two blocked writes.

### What the violated runs show

* **`start_report`**: `wait_for_socket` takes any socket at the path for the one
  of the daemon it waits for. After a crash the old one is there at once: `start`
  reports a success, `new` and the bare form say "created" and then fail to
  attach, while the new daemon finds the path taken and exits.
* **`write_deadlock`**: a handler in `write_all` reads nothing, a client in
  `send` reads nothing; with both socket buffers full they wait for each other.
  The receiver lags and nobody looks at it.
* **`log_crash`**: rotation sets the log's length to 0 and then writes the tail
  back; a daemon that dies in between leaves an empty or a short log.

### Further disagreements

These are built into the models without a run of their own.

* `Daemon`, the exceptions of `KillEndsSession`: a process outside the child's
  group that holds the tty keeps the daemon alive after the child (`daemon.rs:60`
  says it runs until the child exits) and is not signalled (`pty.rs:139-141` says
  grandchildren are). After the child has closed its tty, `pty.read` fails, the
  loop leaves `select!` for `pty.wait()` and takes no command any more: a `hytch
  kill` that comes then reports "did not stop", against `README.md:157`. The
  signal branches come last in the biased `select!`, so a client that streams
  pushes without end keeps a SIGTERM to the daemon from being seen.
* `Connection`: the log is read before the connection exists, and `skip_ring`
  then drops the snapshot; output in between is in neither (`README.md:3-4`
  promises the whole of it). A client whose handler dropped it for lagging cannot
  tell that from the end of the session, and reports the exit code (90) that logs
  the user off (`attach.rs:48-55`). `exit` drops what handlers have not sent, a
  slow client's unwritten tail that `README.md:249` says cannot be lost.
* `SessionLog`: `session_log.rs:122-123` says the log never exceeds `max_size`;
  `CountIsExact` has the bound that holds, with the lookback that the comment on
  `rotate_log_file` allows. `hytch clear` under a running session does not move
  the writer's offset: the next write leaves a hole that reads as NUL bytes, the
  only filler `InOrder` admits before a second daemon comes; between the writer's
  seek and its read it makes the slice in `rotate_log_file` panic, and the session
  is not logged from then on (`PanicNeedsTruncation`).
* `SessionLog`, a second `start` on a live name: the new daemon opens and rotates
  the log before its bind fails, maybe with a smaller cap. A log longer than that
  cap is truncated under the writer, with the same hole and the same panic as by
  `clear`. If the first daemon ends in between, the bind succeeds and the new one
  writes where the end of the log was when it opened it. `InOrder` and `HistoryKept`
  say that a rival does no harm until then; `CountIsExact` and the bound on the log
  are for one writer after another with one cap.
* `Lifecycle`, the guard: it knows the sessions a command runs in, not those
  that are attached to one another. Two sessions created side by side may each
  attach to the other, though `session/src/lib.rs:66-68` and
  `cli/src/attach.rs:106-112` speak of indirect loops. A name with a colon is
  split and never found again, and another spelling of the path is another name;
  `NoSelfAttach` excepts both.
* `Lifecycle`, attach-or-create: any failure of the attach, that of the guard
  included, makes the bare command create (`main.rs:425` says "only spawn if
  nothing is listening"). The second daemon runs its program and opens the log of
  the session that is there before it fails to bind. The same goes for a second
  `start`.
* `Lifecycle`, a start that fails late: `daemon.rs:60-61` says that `run` cleans up
  before it returns, the socket included. When the way back to the working
  directory (`daemon.rs:248`) or a signal handler (`daemon.rs:120-121`) fails behind
  the bind, it returns the error and leaves the socket: nobody is behind it, and
  the name cannot be started again before `hytch rm`. `failed` in
  `StaleNeedsFailure` names these daemons.
* `Lifecycle`, rm and kill: `rm` probes, then removes two files by name. A daemon
  that binds in between loses them, and goes on without anybody being able to
  reach it; when it ends it removes the socket of whoever has the name by then.
  `exposed` in `ServedIsReachable` names these daemons. `kill` connects again for
  its SIGKILL, and may meet a successor.

Seen in the code and outside the models: after a failed bind or a crash of the
daemon its program lives on, if it has inherited the master side of its own pty
(`pty.rs:53`, which depends on the flags `openpt` is given); a session called
`foo.log` has the path of the log of `foo`; `parse_log_cap` multiplies without a
check.

## 4. Proofs

Proved by TLAPS for all values of the constants, from the assumptions named in
each module (capacities positive; chunks are sequences of bytes; the holder
names distinct):

* `RingBufferProofs!TypeCorrect`, `NewestKept`, `RefinesScrollback`. `TypeOK` is
  inductive. `NewestKept` rests on `AppendElements`: after an append, element i
  of the snapshot is element i of the newest bytes of the old snapshot followed
  by the data, by cases on whether the copy wraps and whether the ring
  overflows; the refinement follows. `NewestKept` says more than the refinement,
  whose steps do not name the input: a chunk as long as the ring may leave any
  content. The proofs take any positive capacity, with `%` for the code's mask.
* `FanoutProofs!TypeCorrect`, `ViewsHaveNoGap`, `ViewsReachTheCursor`. Neither
  property is inductive alone: `recv` continues a view without a gap only because
  the view ends where the chunk begins. The invariant `IInv` says that the
  chunk ends grow, that the ring is a run of bytes ending with the last byte
  sent, and that each view is a run ending at its receiver's position. `SpanJoin`
  and `SpanNewest` are the lemmas about runs of bytes.
* `FanoutProofs!LockExcludes`, `LockRefinesAtomic`. The refinement mapping
  hides a push until its chunk is sent: between the append and the send the
  abstract ring is the one before the push. `LockedInv` adds to mutual exclusion
  what each holder knows: a subscribed receiver's position is still the end of the
  channel when its snapshot is taken, because nobody else can send.

* `SessionLogProofs!TypeCorrect`, `LogInOrder`, `LogBounded`, `SlicesInBounds`,
  `RotationKeepsHistory`, `CutsAreSafe`.
  The invariant has two parts. `Steady` holds always: types, that a file which is
  read was measured as longer than the cap, and that a rival which rewrites counts
  among the faults. `Undisturbed` holds until a rival truncates or takes over: a
  measured file still has its length or was cleared (`SizeInv`), where the offset
  is at each call (`OffsetInv`), the bound at the call before the count
  (`BoundInv`), that only a clear makes the writer panic (`PanicInv`), and that the
  kept tail is ordered like the file. `RivalCalm` shows that a rival which has not
  truncated yet has changed nothing of the writer's, and `FaultsStay` that what has
  gone wrong once is not forgotten, so the second part needs no proof behind it.
  The lemmas on a rotation take the measured length and the cap as parameters and
  serve writer and rival alike (`KeptPart`, `SeenPart`, `CutPlaces`). `CutInRange`
  shows that `safe_trim_start` returns an index of its buffer whatever is in it;
  its CHOOSE of the last escape and of the next character rest on the least
  element of a set of naturals, from the library's well-founded order.
  `HistoryKept` says nothing between `truncate` and `rewrite`, when the file is
  empty; `HistInv` says it there of the tail that is to be written back, and that
  without a fault the file is one run of the output up to the last byte taken.
  `CutsAreSafe` is about outputs that are `WellFormed`: whole characters, and escape
  sequences of the two forms that the code knows and no longer than the lookback
  allows. Its hypothesis is met, by every output of the run (an assumption in
  `MCSessionLog`), and cannot be dropped: a longer sequence is cut. The proof takes
  the byte a log begins with and the last start of anything before it
  (`BeginningExists`): inside a sequence, its ESC is in the window and what follows
  it up to the naive cut is not terminated (`InsideSequence`), so the cut is in
  front of it; inside a character, the cut is behind it.

* `LifecycleProofs!TypeCorrect`, `AttachIsGuarded`, `StaleSocketsNeedFailure`,
  `ServedStaysReachable`, `SuccessIsBound`, `KillReportsTruly`: all six invariants
  of the run, for any paths, menu, number of commands and of crashes, from the
  assumptions that every path has an entry and at least one segment, which is the
  path itself when it is the only one. The invariant has five parts. `BaseInv`
  orders invocation, creation and the program's start. `AncestryInv` says that
  the chain of a program leads through every session it runs in and that an
  attached client was let past the guard; `AncestryStep` needs that a chain, once
  given, never changes (`Stability`). `DirInv` is what makes the two properties of
  the directory inductive: of two daemons that are up at one entry both are
  exposed, no rm is past its probe where a daemon that is not exposed is alive,
  and such a daemon has the log that is there. `QuietKeepsDir` treats the steps
  that touch no file at once; the six others (`probe`, `removeSocket`,
  `removeLog`, `open`, `bind`, `unlink`) have their cases. `LogInv` says
  that a log is that of a daemon which has opened one. `ReportInv` ties what a
  command has been connected to to the entry it named.

* `ConnectionProofs!LimitsKept`, `PipelinesAreExact`, `HistoryOnce`,
  `InputKeepsOrder`: for any viewers and pushers. Every step of `Connection` is a step of `Fanout` or leaves
  it alone (`FanoutStep`), so `FanoutProofs!StepPreserves` gives the fanout's
  part of the invariant and the rest is about the way from the handler to the
  terminal. `ViewInv` says that what is on this way, shown, in the socket or left
  to write, rises and does not pass the position of the receiver, and without a
  log replay is the view. `AttachInv` says that a viewer asks for its history once
  and before any output has come; without it a second snapshot would repeat the
  first. `StageInv` says that only a handler inside `write_all` has something left
  to write, which is why a chunk follows what is on the way. `WriteSplits` is the
  lemma about a partial write, `QuietStep` treats the 13 steps that move no byte. For `InputInOrder`, `FlowInv`
  numbers a client's messages and says where each is: taken by the loop, in the
  channel, held by the handler, in the socket, still being sent, each place with
  a run of numbers that goes on where the one before it ends. The property is
  stated by positions and not by filtering the channel, which has the messages of
  all clients: `RunTail` and `RunAppend` say what taking one and putting one does
  to the run of one client, and leave the others as they are. That the handler
  holds a message only while it is forwarding one, or gone, is the part a step
  could break.

* `DaemonProofs!TypeCorrect`, `KillIsPrompt`, `LogIsComplete`, `KillReportsTruth`,
  for any processes, kills, streamers and capacities. `TypeOK` is inductive, the
  others are not. `Latency` adds that after a counted timeout the signal is still
  in the control channel and the loop is no longer in the write, so that the next
  branch taken is that of the signal. `Ending` says what each stage of the
  shutdown leaves to the next: the marker is the last thing given to the writer
  once the loop has left `select!`, the queue is empty once it has exited, and
  from the end of the output on the tty is closed and stays so, because nobody
  has it who could hand it on and the leader is never born a second time. A kill
  that reports a success has seen the socket go, which is the loop's exit.

* `AttachClientProofs!TypeCorrect`, `FirstSpecialCharWins`, `SuspendDetaches`,
  `SizesNeverGoBack`, for input of any length and any number of sizes.
  `InputKept` says that what is pushed, in the socket and still to be sent is the
  typed input up to its first special character, cut into messages; a read
  continues it because a client that still reads has met none (`KeysUpTo`,
  `FindSpecial`). `LastIsDetach` has the detach of a suspended client as its last
  message, or read. `SizesFlow` orders the sizes along the way from the pty to the
  terminal, through the control channel, the messages and the watcher's channel,
  each place between its neighbours; `SetUp`, that nothing is on its way before the
  handshake, makes the handshake's size the oldest of them.

* `CodecProofs!TypeCorrect`, `MessagesArrive`, `NothingIsLeft`, for any base above
  six, frame limit below what four bytes can say, messages, and reads.
  `U16Inverse`, `U32Inverse` and `PayloadInverse` say that numbers and payloads are
  read back as they were written, and `DecodeEncoded` that `decode` waits for the
  whole of a frame and returns its message whatever follows. The invariant has the
  stream, buffer and socket together: it begins with the frames of the messages
  not yet decoded, one behind the other (`Framed`, by the positions where they
  end), and ends there, or with the piece of one that a killed client left, or
  with anything if the client wrote something else (`Remainder`). The reader looks
  at the socket only when `decode` finds nothing, which bounds the buffer
  (`ReadInv`); and it ends only when nothing is missing (`EndInv`), since while
  something is missing `decode` waits for the next message or has it (`NextFrame`).
  The proof found that `decodeNothing` was written as a CASE with conditions that
  overlap, whose value TLA+ leaves open although TLC takes the first; it is an IF.

Model-checked only: liveness (`KillEndsSession`, `ViewerCatchesUp`, `PushesAreTaken`,
`DeadClientEnds`, `SizeConverges`), which is out of the prover's reach as ENABLED is.
Every invariant and every action property of the passing runs is stated by a
theorem.

## 5. Plan

What safety the runs check is proved. What is left to state and prove are facts
that join modules: that the queues of `Daemon` and of `Connection` stand for the
same channel, which would need a module that has both, and that `SessionLog`'s
append is what `Daemon`'s `writeLog` counts. Lemmas on the least element of a set
of naturals are proved in `SessionLogProofs` and again in `AttachClientProofs`,
from the library's well-founded order.

The runs are kept to one for each question: a violated run whose finding has
been described gives its place to a component that has none.

## 6. Not modelled

* Pure functions without state: the formatting of ages (`age.rs`), character
  specifications (`parse_char_spec`), log limits, the shortening of paths for
  `sun_path` and the display of names. They work on strings and change nothing.
  Of `session/src/lib.rs` the chain is modelled; what a name becomes as a path is
  given.
* `hytch list` and `current`, which read and change nothing.
* Raw terminal mode, argument parsing, logging and the version stamp: system
  calls on the local terminal, or no state.
* Benchmarks, the installer and the workflows, which are not part of the running
  system.
