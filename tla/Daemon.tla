-------------------------------- MODULE Daemon --------------------------------
(***************************************************************************)
(* The daemon of one session: the event loop of crates/daemon/src/         *)
(* daemon.rs, its command channels and handler tasks, the log writer       *)
(* thread, the pty (pty.rs) with the processes behind it, and the `hytch   *)
(* kill` and streaming clients that talk to it (cli/src/commands.rs).      *)
(*                                                                         *)
(* The runtime has one thread, so a task's code between two awaits is one  *)
(* step.  Output, input and queued data are counted in units, not bytes:   *)
(* one unit is one read() of the pty, or what the pty input queue takes at *)
(* once.  Attached views of the output are Fanout's and Connection's.      *)
(***************************************************************************)
EXTENDS Naturals, Sequences

CONSTANTS
  Procs,      \* processes of the session: the child and what it spawns
  Leader,     \* the child itself, leader of the process group signalled
  InGroup,    \* the processes in the leader's process group
  Ignoring,   \* the processes that ignore SIGTERM
  Detaching,  \* the processes that may close the tty and live on
  Killers,    \* runs of `hytch kill`
  Forced,     \* those with -f
  Streamers,  \* clients that send Push and Winch messages
  CtlCap,     \* capacity of the control channel (16 in the code)
  PushCap,    \* capacity of the push channel (256 in the code)
  InCap,      \* units the pty's input queue holds
  OutCap,     \* units the pty's output queue holds
  MaxWrite,   \* bound: most units of one push chunk
  MaxInbox,   \* bound: messages one client has in its socket
  MaxOutput,  \* bound: units of output
  MaxLogq,    \* bound: the child pauses while the writer is this far behind
  MaxResizes  \* bound: resizes streamers send; pushes have no end

ASSUME ProcsAssumption ==
  /\ Leader \in InGroup
  /\ InGroup \subseteq Procs /\ Ignoring \subseteq Procs /\ Detaching \subseteq Procs
ASSUME ClientsAssumption ==
  Forced \subseteq Killers /\ Killers \cap Streamers = {}
ASSUME SizesAssumption ==
  /\ {CtlCap, PushCap, InCap, OutCap, MaxWrite, MaxInbox} \subseteq Nat \ {0}
  /\ {MaxOutput, MaxResizes} \subseteq Nat /\ MaxLogq \in Nat \ {0}

\* Connections: a kill without -f may need a second one, for its SIGKILL.
Conns == (Killers \X {"term", "kill"}) \cup (Streamers \X {"data"})

VARIABLES
  loop,        \* where the event loop is
  reason,      \* why it stopped: none, child, signaled
  ctl,         \* control channel: term, kill, resize
  pushq,       \* push chunks queued
  unwritten,   \* units left of the chunk being written to the pty
  ptyIn,       \* units in the pty's input queue
  ptyOut,      \* units in its output queue
  outLeft,     \* units the child will still write
  alive,       \* processes that run
  unborn,      \* processes not spawned yet
  tty,         \* processes that hold the slave side open
  doomed,      \* processes a fatal signal was sent to
  signaled,    \* SIGTERM or SIGINT was sent to the daemon itself
  logq,        \* log channel: out, mark
  logTail,     \* the last thing written to the log file: none, out, mark
  socketFile,  \* the socket exists
  conn,        \* connections: none, backlog, served, closed
  inbox,       \* messages in a connection's socket
  resizes,     \* resizes still to be sent
  killer,      \* what each `hytch kill` is doing
  stalls       \* history: writes timed out while a signal is queued

procVars   == <<alive, unborn, tty, doomed>>
ptyVars    == <<ptyIn, ptyOut, outLeft>>
clientVars == <<conn, inbox, resizes, killer>>
logVars    == <<logq, logTail>>
vars == <<loop, reason, ctl, pushq, unwritten, ptyVars, procVars, signaled,
          logVars, socketFile, clientVars, stalls>>

Signals == {"term", "kill"}

SignalQueued == \E i \in 1 .. Len(ctl) : ctl[i] \in Signals

-------------------------------------------------------------------------------

Init ==
  /\ loop = "select"
  /\ reason = "none"
  /\ ctl = <<>>
  /\ pushq = 0
  /\ unwritten = 0
  /\ ptyIn = 0 /\ ptyOut = 0 /\ outLeft = MaxOutput
  /\ alive = {Leader} /\ tty = {Leader} /\ doomed = {}
  /\ unborn = Procs \ {Leader}
  /\ signaled = FALSE
  /\ logq = <<>> /\ logTail = "none"
  /\ socketFile = TRUE
  /\ conn = [x \in Conns |-> "none"]
  /\ inbox = [x \in Conns |-> <<>>] /\ resizes = MaxResizes
  /\ killer = [k \in Killers |-> "idle"]
  /\ stalls = 0

-------------------------------------------------------------------------------
(* The branches of the select!, in its order: each waits for those above.    *)

ControlReady == ctl # <<>>
ReadReady    == ptyOut > 0 \/ tty = {}
AcceptReady  == \E x \in Conns : conn[x] = "backlog"
PushReady    == pushq > 0

\* A control command: a resize changes nothing modelled here, a signal goes
\* to every process of the leader's group.
takeControl ==
  /\ loop = "select" /\ ControlReady
  /\ ctl' = Tail(ctl)
  /\ doomed' = CASE Head(ctl) = "kill" -> doomed \cup (alive \cap InGroup)
                 [] Head(ctl) = "term" -> doomed \cup (alive \cap (InGroup \ Ignoring))
                 [] OTHER -> doomed
  /\ stalls' = IF \E i \in 2 .. Len(ctl) : ctl[i] \in Signals THEN stalls ELSE 0
  /\ UNCHANGED <<loop, reason, pushq, unwritten, ptyVars, alive, unborn, tty,
                 signaled, logVars, socketFile, clientVars>>

\* Output: to the scrollback and the channel (Fanout), and to the log writer.
readOutput ==
  /\ loop = "select" /\ ~ControlReady
  /\ ptyOut > 0
  /\ ptyOut' = ptyOut - 1
  /\ logq' = Append(logq, "out")
  /\ UNCHANGED <<loop, reason, ctl, pushq, unwritten, ptyIn, outLeft, procVars,
                 signaled, logTail, socketFile, clientVars, stalls>>

\* Faulty variant: the loop stops as soon as the child is dead.
readEndAtChildExit ==
  /\ loop = "select" /\ ~ControlReady
  /\ Leader \notin alive
  /\ loop' = "reaping"
  /\ UNCHANGED <<reason, ctl, pushq, unwritten, ptyVars, procVars, signaled,
                 logVars, socketFile, clientVars, stalls>>

\* End of file or EIO: no process holds the slave and the output is drained.
\* The loop leaves select! and waits for the child.
readEnd ==
  /\ loop = "select" /\ ~ControlReady
  /\ ptyOut = 0 /\ tty = {}
  /\ loop' = "reaping"
  /\ UNCHANGED <<reason, ctl, pushq, unwritten, ptyVars, procVars, signaled,
                 logVars, socketFile, clientVars, stalls>>

\* A connection gets its handler task.
accept(x) ==
  /\ loop = "select" /\ ~ControlReady /\ ~ReadReady
  /\ conn[x] = "backlog"
  /\ conn' = [conn EXCEPT ![x] = "served"]
  /\ UNCHANGED <<loop, reason, ctl, pushq, unwritten, ptyVars, procVars, signaled,
                 logVars, socketFile, inbox, resizes, killer, stalls>>

\* Faulty variant: queued push data is looked at before control commands.
takePushBeforeControl(n) ==
  /\ loop = "select" /\ ~ReadReady /\ ~AcceptReady
  /\ PushReady
  /\ pushq' = pushq - 1
  /\ unwritten' = n
  /\ loop' = "writing"
  /\ UNCHANGED <<reason, ctl, ptyVars, procVars, signaled, logVars, socketFile,
                 clientVars, stalls>>

\* Faulty variant, the regression the comment in the code tells of: push is
\* polled before read.
takePushBeforeRead(n) ==
  /\ loop = "select" /\ ~ControlReady
  /\ PushReady
  /\ pushq' = pushq - 1
  /\ unwritten' = n
  /\ loop' = "writing"
  /\ UNCHANGED <<reason, ctl, ptyVars, procVars, signaled, logVars, socketFile,
                 clientVars, stalls>>

\* A chunk is taken from the queue and its write begins.
takePush(n) ==
  /\ loop = "select" /\ ~ControlReady /\ ~ReadReady /\ ~AcceptReady
  /\ PushReady
  /\ pushq' = pushq - 1
  /\ unwritten' = n
  /\ loop' = "writing"
  /\ UNCHANGED <<reason, ctl, ptyVars, procVars, signaled, logVars, socketFile,
                 clientVars, stalls>>

\* What both ways out of the loop do first: the marker goes after all output.
Stopped(why) ==
  /\ reason' = why
  /\ logq' = Append(logq, "mark")
  /\ loop' = "draining"

takeSignal ==
  /\ loop = "select" /\ ~ControlReady /\ ~ReadReady /\ ~AcceptReady /\ ~PushReady
  /\ signaled
  /\ Stopped("signaled")
  /\ UNCHANGED <<ctl, pushq, unwritten, ptyVars, procVars, signaled, logTail,
                 socketFile, clientVars, stalls>>

-------------------------------------------------------------------------------
(* Inside the push branch: write_all under PTY_WRITE_TIMEOUT.                *)

writeSome ==
  /\ loop = "writing"
  /\ unwritten > 0 /\ ptyIn < InCap /\ tty # {}
  /\ ptyIn' = ptyIn + 1
  /\ unwritten' = unwritten - 1
  /\ UNCHANGED <<loop, reason, ctl, pushq, ptyOut, outLeft, procVars, signaled,
                 logVars, socketFile, clientVars, stalls>>

\* The whole chunk is written, or the write fails because no process holds
\* the slave; the result is ignored.
writeDone ==
  /\ loop = "writing"
  /\ unwritten = 0 \/ tty = {}
  /\ unwritten' = 0
  /\ loop' = "select"
  /\ UNCHANGED <<reason, ctl, pushq, ptyVars, procVars, signaled, logVars,
                 socketFile, clientVars, stalls>>

\* The input queue stays full for PTY_WRITE_TIMEOUT: the rest is dropped.
writeTimeout ==
  /\ loop = "writing"
  /\ unwritten > 0 /\ ptyIn = InCap /\ tty # {}
  /\ unwritten' = 0
  /\ loop' = "select"
  /\ stalls' = IF SignalQueued THEN stalls + 1 ELSE stalls
  /\ UNCHANGED <<reason, ctl, pushq, ptyVars, procVars, signaled, logVars,
                 socketFile, clientVars>>

-------------------------------------------------------------------------------
(* The end of the daemon.                                                    *)

\* Faulty variant: the child is not waited for.
reapNobody ==
  /\ loop = "reaping"
  /\ Stopped("child")
  /\ UNCHANGED <<ctl, pushq, unwritten, ptyVars, procVars, signaled, logTail,
                 socketFile, clientVars, stalls>>

\* pty.wait(): nothing else is served until the child itself has exited.
reap ==
  /\ loop = "reaping" /\ Leader \notin alive
  /\ Stopped("child")
  /\ UNCHANGED <<ctl, pushq, unwritten, ptyVars, procVars, signaled, logTail,
                 socketFile, clientVars, stalls>>

\* Faulty variant: the writer thread is not awaited before the unlink.
unlinkEarly ==
  /\ loop = "draining"
  /\ socketFile' = FALSE
  /\ loop' = "exited"
  /\ conn' = [x \in Conns |-> "closed"]
  /\ inbox' = [x \in Conns |-> <<>>]
  /\ UNCHANGED <<reason, ctl, pushq, unwritten, ptyVars, procVars, signaled,
                 logVars, resizes, killer, stalls>>

\* The writer thread has finished: the socket is unlinked, and the process
\* exits with its handler tasks, queues and connections.
unlink ==
  /\ loop = "draining" /\ logq = <<>>
  /\ socketFile' = FALSE
  /\ loop' = "exited"
  /\ conn' = [x \in Conns |-> "closed"]
  /\ inbox' = [x \in Conns |-> <<>>]
  /\ UNCHANGED <<reason, ctl, pushq, unwritten, ptyVars, procVars, signaled,
                 logVars, resizes, killer, stalls>>

\* The log writer thread appends the oldest chunk (spawn_log_writer).
writeLog ==
  /\ logq # <<>>
  /\ logTail' = Head(logq)
  /\ logq' = Tail(logq)
  /\ UNCHANGED <<loop, reason, ctl, pushq, unwritten, ptyVars, procVars, signaled,
                 socketFile, clientVars, stalls>>

-------------------------------------------------------------------------------
(* The handler tasks (handle_client) and the signal handler.                 *)

\* Faulty variant: queues without a limit.
forwardUnbounded(x) ==
  /\ conn[x] = "served" /\ inbox[x] # <<>>
  /\ inbox' = [inbox EXCEPT ![x] = Tail(@)]
  /\ IF Head(inbox[x]) = "push"
     THEN pushq' = pushq + 1 /\ UNCHANGED ctl
     ELSE ctl' = Append(ctl, Head(inbox[x])) /\ UNCHANGED pushq
  /\ UNCHANGED <<loop, reason, unwritten, ptyVars, procVars, signaled, logVars,
                 socketFile, conn, resizes, killer, stalls>>

\* A handler moves its client's next message to the channel it belongs to,
\* and waits, with everything behind that message, while the channel is full.
forward(x) ==
  /\ conn[x] = "served" /\ inbox[x] # <<>> /\ loop # "exited"
  /\ inbox' = [inbox EXCEPT ![x] = Tail(@)]
  /\ IF Head(inbox[x]) = "push"
     THEN pushq < PushCap /\ pushq' = pushq + 1 /\ UNCHANGED ctl
     ELSE Len(ctl) < CtlCap /\ ctl' = Append(ctl, Head(inbox[x])) /\ UNCHANGED pushq
  /\ UNCHANGED <<loop, reason, unwritten, ptyVars, procVars, signaled, logVars,
                 socketFile, conn, resizes, killer, stalls>>

\* Someone sends the daemon itself SIGTERM or SIGINT.
signalDaemon ==
  /\ ~signaled /\ loop # "exited"
  /\ signaled' = TRUE
  /\ UNCHANGED <<loop, reason, ctl, pushq, unwritten, ptyVars, procVars, logVars,
                 socketFile, clientVars, stalls>>

-------------------------------------------------------------------------------
(* The processes behind the pty (the kernel and the hosted program).         *)

daemonVars == <<loop, reason, ctl, pushq, unwritten, signaled, logVars, socketFile>>

\* A process exits, of itself or by a signal; the kernel closes its files.
die(p) ==
  /\ p \in alive
  /\ alive' = alive \ {p} /\ tty' = tty \ {p} /\ doomed' = doomed \ {p}
  /\ UNCHANGED <<daemonVars, ptyVars, unborn, clientVars, stalls>>

\* A process starts another, which inherits its open files.
spawn(p) ==
  /\ p \in unborn
  /\ \E q \in alive \ doomed : tty' = IF q \in tty THEN tty \cup {p} ELSE tty
  /\ alive' = alive \cup {p} /\ unborn' = unborn \ {p}
  /\ UNCHANGED <<daemonVars, ptyVars, doomed, clientVars, stalls>>

closeTty(p) ==
  /\ p \in tty \cap Detaching
  /\ tty' = tty \ {p}
  /\ UNCHANGED <<daemonVars, ptyVars, alive, unborn, doomed, clientVars, stalls>>

writeOutput ==
  /\ tty # {} /\ ptyOut < OutCap
  /\ ptyOut + Len(logq) < MaxLogq
  /\ outLeft > 0
  /\ ptyOut' = ptyOut + 1
  /\ outLeft' = outLeft - 1
  /\ UNCHANGED <<daemonVars, ptyIn, procVars, clientVars, stalls>>

readInput ==
  /\ tty # {} /\ ptyIn > 0
  /\ ptyIn' = ptyIn - 1
  /\ UNCHANGED <<daemonVars, ptyOut, outLeft, procVars, clientVars, stalls>>

-------------------------------------------------------------------------------
(* The clients.                                                              *)

\* Opens connection x and sends its only message.  The message waits in the
\* socket until the connection is accepted.
SendOnce(x, msg) ==
  /\ conn' = [conn EXCEPT ![x] = "backlog"]
  /\ inbox' = [inbox EXCEPT ![x] = <<msg>>]

\* `hytch kill`: a SIGTERM, or a SIGKILL with -f.
kill(k) ==
  /\ killer[k] = "idle"
  /\ IF ~socketFile
     THEN killer' = [killer EXCEPT ![k] = "failed"] /\ UNCHANGED <<conn, inbox>>
     ELSE LET signal == IF k \in Forced THEN "kill" ELSE "term"
          IN  /\ SendOnce(<<k, signal>>, signal)
              /\ killer' = [killer EXCEPT ![k] =
                              IF k \in Forced THEN "waitForced" ELSE "waitTerm"]
  /\ UNCHANGED <<daemonVars, ptyVars, procVars, resizes, stalls>>

\* wait_gone finds that the socket is gone.
seeGone(k) ==
  /\ ~socketFile
  /\ killer[k] \in {"waitTerm", "waitForced", "waitKill"}
  /\ killer' = [killer EXCEPT ![k] = IF @ = "waitKill" THEN "killed" ELSE "stopped"]
  /\ UNCHANGED <<daemonVars, ptyVars, procVars, conn, inbox, resizes, stalls>>

\* wait_gone's deadline passes and the socket is still there.
waitTimesOut(k) ==
  /\ socketFile
  /\ killer[k] \in {"waitTerm", "waitForced", "waitKill"}
  /\ killer' = [killer EXCEPT ![k] = IF @ = "waitTerm" THEN "escalating" ELSE "failed"]
  /\ UNCHANGED <<daemonVars, ptyVars, procVars, conn, inbox, resizes, stalls>>

\* The SIGKILL after the grace period; a failed connect is ignored.
escalate(k) ==
  /\ killer[k] = "escalating"
  /\ killer' = [killer EXCEPT ![k] = "waitKill"]
  /\ IF socketFile THEN SendOnce(<<k, "kill">>, "kill") ELSE UNCHANGED <<conn, inbox>>
  /\ UNCHANGED <<daemonVars, ptyVars, procVars, resizes, stalls>>

connectStream(s) ==
  /\ conn[<<s, "data">>] = "none" /\ socketFile
  /\ conn' = [conn EXCEPT ![<<s, "data">>] = "backlog"]
  /\ UNCHANGED <<daemonVars, ptyVars, procVars, inbox, resizes, killer, stalls>>

sendPush(s) ==
  /\ conn[<<s, "data">>] \in {"backlog", "served"}
  /\ Len(inbox[<<s, "data">>]) < MaxInbox
  /\ inbox' = [inbox EXCEPT ![<<s, "data">>] = Append(@, "push")]
  /\ UNCHANGED <<daemonVars, ptyVars, procVars, conn, resizes, killer, stalls>>

sendResize(s) ==
  /\ conn[<<s, "data">>] \in {"backlog", "served"}
  /\ Len(inbox[<<s, "data">>]) < MaxInbox /\ resizes > 0
  /\ inbox' = [inbox EXCEPT ![<<s, "data">>] = Append(@, "resize")]
  /\ resizes' = resizes - 1
  /\ UNCHANGED <<daemonVars, ptyVars, procVars, conn, killer, stalls>>

\* A streamer hangs up after its last message; its handler returns.
leaveStream(s) ==
  /\ conn[<<s, "data">>] = "served" /\ inbox[<<s, "data">>] = <<>>
  /\ conn' = [conn EXCEPT ![<<s, "data">>] = "closed"]
  /\ UNCHANGED <<daemonVars, ptyVars, procVars, inbox, resizes, killer, stalls>>

-------------------------------------------------------------------------------

\* One turn of the event loop.
LoopStep ==
  \/ takeControl
  \/ readOutput
  \/ readEnd
  \/ \E x \in Conns : accept(x)
  \/ \E n \in 1 .. MaxWrite : takePush(n)
  \/ takeSignal
  \/ writeSome
  \/ writeDone
  \/ writeTimeout
  \/ reap
  \/ unlink

KillerStep(k) == kill(k) \/ seeGone(k) \/ waitTimesOut(k) \/ escalate(k)

StreamerStep(s) ==
  \/ connectStream(s)
  \/ sendPush(s)
  \/ sendResize(s)
  \/ leaveStream(s)

ProcStep(p) == die(p) \/ spawn(p) \/ closeTty(p)

Next ==
  \/ LoopStep
  \/ writeLog
  \/ \E x \in Conns : forward(x)
  \/ signalDaemon
  \/ \E p \in Procs : ProcStep(p)
  \/ writeOutput
  \/ readInput
  \/ \E k \in Killers : KillerStep(k)
  \/ \E s \in Streamers : StreamerStep(s)

Spec == Init /\ [][Next]_vars

\* The runtime keeps polling a task that can move; the writer thread runs; a
\* channel wakes its senders in the order they began to wait, so the handler
\* of a kill gets a slot that keeps becoming free; `hytch kill` runs to its
\* end; a process that was sent a fatal signal dies.  The hosted program and
\* the streamers owe nothing.
Fairness ==
  /\ WF_vars(LoopStep)
  /\ WF_vars(writeLog)
  /\ \A x \in Killers \X {"term", "kill"} : SF_vars(forward(x))
  /\ \A k \in Killers : WF_vars(KillerStep(k))
  /\ \A p \in Procs : WF_vars(p \in doomed /\ die(p))

FairSpec == Spec /\ Fairness

-------------------------------------------------------------------------------

\* No channel or kernel queue passes its limit, and a process that is doomed
\* or holds the tty is alive.
TypeOK ==
  /\ loop \in {"select", "writing", "reaping", "draining", "exited"}
  /\ reason \in {"none", "child", "signaled"}
  /\ ctl \in Seq(Signals \cup {"resize"}) /\ Len(ctl) <= CtlCap
  /\ pushq \in 0 .. PushCap
  /\ unwritten \in 0 .. MaxWrite
  /\ ptyIn \in 0 .. InCap /\ ptyOut \in 0 .. OutCap /\ outLeft \in 0 .. MaxOutput
  /\ alive \subseteq Procs /\ unborn \subseteq Procs
  /\ tty \subseteq alive /\ doomed \subseteq alive
  /\ signaled \in BOOLEAN /\ socketFile \in BOOLEAN
  /\ logq \in Seq({"out", "mark"}) /\ logTail \in {"none", "out", "mark"}
  /\ conn \in [Conns -> {"none", "backlog", "served", "closed"}]
  /\ inbox \in [Conns -> Seq(Signals \cup {"push", "resize"})]
  /\ resizes \in 0 .. MaxResizes
  /\ killer \in [Killers -> {"idle", "waitTerm", "waitForced", "escalating", "waitKill",
                             "stopped", "killed", "failed"}]
  /\ stalls \in Nat

\* The latency bound of the select!'s comments: however much push data is
\* queued, a queued signal waits for one timed-out write at most.
KillWaitsOneWrite == stalls <= 1

\* When the socket disappears the log is complete: the writer has written
\* everything up to the end marker, and if the daemon stopped because of the
\* child, the pty had no output left and nobody to write more.
LogCompleteWhenGone ==
  ~socketFile => /\ logq = <<>> /\ logTail = "mark"
                 /\ reason = "child" => ptyOut = 0 /\ tty = {}

\* What `hytch kill` reports is true: the daemon is gone, and unless someone
\* stopped the daemon itself, the child has exited.
ReportIsTrue ==
  \A k \in Killers : killer[k] \in {"stopped", "killed"} =>
    loop = "exited" /\ (reason = "child" => Leader \notin alive)

\* A session that `hytch kill` is waiting for ends: SIGKILL, at once or after
\* the grace period, gets through whatever streams of push data are queued.
\* There are two ways out: the loop waits for a child that has let go of its
\* tty, or the tty is held by a process outside the group.
KillEndsSession ==
  \A k \in Killers :
    killer[k] \in {"waitTerm", "waitForced", "waitKill"} ~>
      \/ loop = "exited"
      \/ loop = "reaping" /\ Leader \in alive
      \/ tty \ InGroup # {}
===============================================================================
