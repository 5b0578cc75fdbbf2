----------------------------- MODULE DaemonProofs -----------------------------
(***************************************************************************)
(* For every set of processes, killers and streamers and every capacity:   *)
(* the daemon's queues keep their limits, a queued signal waits for one    *)
(* timed-out write at most, the log is complete when the socket is gone,   *)
(* and what `hytch kill` reports is true.                                  *)
(***************************************************************************)
EXTENDS Daemon, SequenceTheorems, TLAPS

\* A timeout that was counted left the write behind, and the signal it made
\* wait is still queued: the next branch taken is the control branch.
Latency ==
  /\ stalls \in {0, 1}
  /\ stalls = 1 => SignalQueued /\ loop # "writing"

\* The marker is the last thing given to the log writer.
MarkIsLast ==
  IF logq = <<>> THEN logTail = "mark" ELSE logq[Len(logq)] = "mark"

\* The way to the end: what each stage leaves true for those after it.
Ending ==
  /\ reason # "none" <=> loop \in {"draining", "exited"}
  /\ ~socketFile <=> loop = "exited"
  /\ loop \in {"draining", "exited"} => MarkIsLast
  /\ loop = "exited" => logq = <<>>
  /\ loop = "reaping" \/ reason = "child" => ptyOut = 0 /\ tty = {}
  /\ reason = "child" => Leader \notin alive

\* Who has stopped waiting with a good report saw the daemon gone.
Reports == \A k \in Killers : killer[k] \in {"stopped", "killed"} => loop = "exited"

\* The inductive invariant.  Neither property about the end is inductive:
\* that the log ends with the marker rests on the order of Stopped and unlink,
\* that no output follows it on the tty staying closed once it is closed, and
\* that the child is gone on its never being spawned twice.
IInv ==
  /\ TypeOK
  /\ Latency
  /\ Ending
  /\ Leader \notin unborn
  /\ Reports
-------------------------------------------------------------------------------

\* The assumptions on the sizes, one constant at a time.
LEMMA Sizes ==
  /\ CtlCap \in Nat /\ PushCap \in Nat /\ InCap \in Nat /\ OutCap \in Nat
  /\ MaxWrite \in Nat /\ MaxOutput \in Nat /\ MaxResizes \in Nat
BY SizesAssumption

LEMMA TailType ==
  ASSUME NEW S, NEW s \in Seq(S), s # <<>>
  PROVE  Head(s) \in S /\ Tail(s) \in Seq(S) /\ Len(Tail(s)) = Len(s) - 1
BY HeadTailProperties

LEMMA AppendType ==
  ASSUME NEW S, NEW s \in Seq(S), NEW e \in S
  PROVE  Append(s, e) \in Seq(S) /\ Len(Append(s, e)) = Len(s) + 1
BY AppendProperties

\* Opening a connection with its message in it keeps the sockets' types.
LEMMA SendOnceType ==
  ASSUME TypeOK, NEW x, NEW msg \in Signals, SendOnce(x, msg)
  PROVE  /\ conn' \in [Conns -> {"none", "backlog", "served", "closed"}]
         /\ inbox' \in [Conns -> Seq(Signals \cup {"push", "resize"})]
<1>1. <<msg>> \in Seq(Signals \cup {"push", "resize"})
  OBVIOUS
<1>2. QED
  BY <1>1 DEF SendOnce, TypeOK

\* TypeOK is inductive by itself.
LEMMA TypeStep ==
  ASSUME TypeOK, Next
  PROVE  TypeOK'
<1> USE Sizes DEF TypeOK
<1> USE DEF vars, procVars, ptyVars, clientVars, logVars, daemonVars
<1>1. CASE takeControl
  <2>1. /\ Tail(ctl) \in Seq(Signals \cup {"resize"})
        /\ Len(Tail(ctl)) = Len(ctl) - 1 /\ Len(ctl) \in Nat
    BY <1>1, TailType DEF takeControl, ControlReady
  <2>2. ctl' \in Seq(Signals \cup {"resize"}) /\ Len(ctl') <= CtlCap
    BY <1>1, <2>1 DEF takeControl
  <2>3. doomed' \subseteq alive
    BY <1>1 DEF takeControl
  <2>4. stalls' \in Nat
    BY <1>1 DEF takeControl
  <2>5. UNCHANGED <<loop, reason, pushq, unwritten, ptyVars, alive, unborn, tty,
                    signaled, logVars, socketFile, clientVars>>
    BY <1>1 DEF takeControl
  <2>6. QED
    BY ONLY TypeOK, <2>2, <2>3, <2>4, <2>5
       DEF TypeOK, ptyVars, logVars, clientVars
<1>2. CASE readOutput
  BY <1>2 DEF readOutput
<1>3. CASE readEnd
  BY <1>3 DEF readEnd
<1>4. ASSUME NEW x \in Conns, accept(x) PROVE TypeOK'
  BY <1>4 DEF accept
<1>5. ASSUME NEW n \in 1 .. MaxWrite, takePush(n) PROVE TypeOK'
  BY <1>5 DEF takePush, PushReady
<1>6. CASE takeSignal
  <2>1. Append(logq, "mark") \in Seq({"out", "mark"})
    BY AppendType
  <2>2. QED
    BY <1>6, <2>1 DEF takeSignal, Stopped
<1>7. CASE writeSome
  BY <1>7 DEF writeSome
<1>8. CASE writeDone
  BY <1>8 DEF writeDone
<1>9. CASE writeTimeout
  BY <1>9 DEF writeTimeout
<1>10. CASE reap
  <2>1. Append(logq, "mark") \in Seq({"out", "mark"})
    BY AppendType
  <2>2. QED
    BY <1>10, <2>1 DEF reap, Stopped
<1>11. CASE unlink
  <2>1. <<>> \in Seq(Signals \cup {"push", "resize"})
    OBVIOUS
  <2>2. QED
    BY <1>11, <2>1 DEF unlink
<1>12. CASE writeLog
  BY <1>12 DEF writeLog
<1>13. ASSUME NEW x \in Conns, forward(x) PROVE TypeOK'
  <2>1. /\ Head(inbox[x]) \in Signals \cup {"push", "resize"}
        /\ Tail(inbox[x]) \in Seq(Signals \cup {"push", "resize"})
    BY <1>13, TailType DEF forward
  <2>2. inbox' \in [Conns -> Seq(Signals \cup {"push", "resize"})]
    BY <1>13, <2>1 DEF forward
  <2>3. pushq' \in 0 .. PushCap
    BY <1>13 DEF forward
  <2>4. ctl' \in Seq(Signals \cup {"resize"}) /\ Len(ctl') <= CtlCap
    <3>1. CASE Head(inbox[x]) = "push"
      BY <1>13, <3>1 DEF forward
    <3>2. CASE Head(inbox[x]) # "push"
      <4>1. Head(inbox[x]) \in Signals \cup {"resize"}
        BY <2>1, <3>2
      <4>2. /\ Append(ctl, Head(inbox[x])) \in Seq(Signals \cup {"resize"})
            /\ Len(Append(ctl, Head(inbox[x]))) = Len(ctl) + 1
        BY <4>1, AppendType
      <4>3. Len(ctl) < CtlCap /\ ctl' = Append(ctl, Head(inbox[x])) /\ Len(ctl) \in Nat
        BY <1>13, <3>2 DEF forward
      <4>4. QED
        BY <4>2, <4>3
    <3>3. QED
      BY <3>1, <3>2
  <2>5. QED
    BY <1>13, <2>2, <2>3, <2>4 DEF forward
<1>14. CASE signalDaemon
  BY <1>14 DEF signalDaemon
<1>15. ASSUME NEW p \in Procs, die(p) PROVE TypeOK'
  BY <1>15 DEF die
<1>16. ASSUME NEW p \in Procs, spawn(p) PROVE TypeOK'
  BY <1>16 DEF spawn
<1>17. ASSUME NEW p \in Procs, closeTty(p) PROVE TypeOK'
  BY <1>17 DEF closeTty
<1>18. CASE writeOutput
  BY <1>18 DEF writeOutput
<1>19. CASE readInput
  BY <1>19 DEF readInput
<1>20. ASSUME NEW k \in Killers, kill(k) PROVE TypeOK'
  <2>1. killer' \in [Killers -> {"idle", "waitTerm", "waitForced", "escalating",
                                 "waitKill", "stopped", "killed", "failed"}]
    BY <1>20 DEF kill
  <2>2. /\ conn' \in [Conns -> {"none", "backlog", "served", "closed"}]
        /\ inbox' \in [Conns -> Seq(Signals \cup {"push", "resize"})]
    <3>1. CASE ~socketFile
      BY <1>20, <3>1 DEF kill
    <3>2. CASE socketFile
      <4>1. PICK msg \in Signals : SendOnce(<<k, msg>>, msg)
        BY <1>20, <3>2 DEF kill, Signals
      <4>2. QED
        BY ONLY <4>1, TypeOK, SendOnceType
    <3>3. QED
      BY <3>1, <3>2
  <2>3. QED
    BY <1>20, <2>1, <2>2 DEF kill
<1>21. ASSUME NEW k \in Killers, seeGone(k) PROVE TypeOK'
  BY <1>21 DEF seeGone
<1>22. ASSUME NEW k \in Killers, waitTimesOut(k) PROVE TypeOK'
  BY <1>22 DEF waitTimesOut
<1>23. ASSUME NEW k \in Killers, escalate(k) PROVE TypeOK'
  <2>1. /\ conn' \in [Conns -> {"none", "backlog", "served", "closed"}]
        /\ inbox' \in [Conns -> Seq(Signals \cup {"push", "resize"})]
    <3>1. CASE ~socketFile
      BY <1>23, <3>1 DEF escalate
    <3>2. CASE socketFile
      <4>1. SendOnce(<<k, "kill">>, "kill") /\ "kill" \in Signals
        BY <1>23, <3>2 DEF escalate, Signals
      <4>2. QED
        BY ONLY <4>1, TypeOK, SendOnceType
    <3>3. QED
      BY <3>1, <3>2
  <2>2. QED
    BY <1>23, <2>1 DEF escalate
<1>24. ASSUME NEW s \in Streamers, connectStream(s) PROVE TypeOK'
  BY <1>24 DEF connectStream
<1>25. ASSUME NEW s \in Streamers, sendPush(s) PROVE TypeOK'
  <2>1. <<s, "data">> \in Conns
    BY DEF Conns
  <2>2. Append(inbox[<<s, "data">>], "push") \in Seq(Signals \cup {"push", "resize"})
    BY <2>1, AppendType
  <2>3. inbox' \in [Conns -> Seq(Signals \cup {"push", "resize"})]
    BY <1>25, <2>2 DEF sendPush
  <2>4. QED
    BY <1>25, <2>3 DEF sendPush
<1>26. ASSUME NEW s \in Streamers, sendResize(s) PROVE TypeOK'
  <2>1. <<s, "data">> \in Conns
    BY DEF Conns
  <2>2. Append(inbox[<<s, "data">>], "resize") \in Seq(Signals \cup {"push", "resize"})
    BY <2>1, AppendType
  <2>3. inbox' \in [Conns -> Seq(Signals \cup {"push", "resize"})]
    BY <1>26, <2>2 DEF sendResize
  <2>4. QED
    BY <1>26, <2>3 DEF sendResize
<1>27. ASSUME NEW s \in Streamers, leaveStream(s) PROVE TypeOK'
  BY <1>27 DEF leaveStream
<1>28. QED
  BY <1>1, <1>2, <1>3, <1>4, <1>5, <1>6, <1>7, <1>8, <1>9, <1>10, <1>11, <1>12, <1>13, <1>14, <1>15, <1>16, <1>17, <1>18, <1>19, <1>20, <1>21, <1>22, <1>23, <1>24, <1>25, <1>26, <1>27
     DEF Next, LoopStep, KillerStep, StreamerStep, ProcStep
-------------------------------------------------------------------------------

\* A step that neither takes a command nor begins or times out a write keeps
\* the bound; only takePush begins one.
LEMMA LatencyKept ==
  ASSUME Latency, UNCHANGED <<ctl, stalls>>, loop' # "writing" \/ UNCHANGED loop
  PROVE  Latency'
BY DEF Latency, SignalQueued

LEMMA SignalStaysQueued ==
  ASSUME TypeOK, NEW e, SignalQueued, ctl' = Append(ctl, e)
  PROVE  SignalQueued'
<1>1. PICK i \in 1 .. Len(ctl) : ctl[i] \in Signals
  BY DEF SignalQueued
<1>2. ctl \in Seq(Signals \cup {"resize"})
  BY DEF TypeOK
<1>3. ctl'[i] = ctl[i] /\ Len(ctl') = Len(ctl) + 1 /\ Len(ctl) \in Nat
  BY <1>2, AppendProperties
<1>4. QED
  BY <1>1, <1>3 DEF SignalQueued

\* The bound of the select!'s comments: a timed-out write is counted only when
\* none was, because the control branch comes before the next write begins.
LEMMA LatencyStep ==
  ASSUME TypeOK, Latency, Next
  PROVE  Latency'
<1> USE DEF ptyVars, procVars, clientVars, logVars, daemonVars
<1>1. CASE takeControl
  <2>1. CASE \E i \in 2 .. Len(ctl) : ctl[i] \in Signals
    <3>1. PICK i \in 2 .. Len(ctl) : ctl[i] \in Signals
      BY <2>1
    <3>2. ctl \in Seq(Signals \cup {"resize"}) /\ ctl # <<>> /\ Len(ctl) \in Nat
      BY <1>1 DEF takeControl, ControlReady, TypeOK
    <3>3. Tail(ctl)[i - 1] = ctl[i] /\ Len(Tail(ctl)) = Len(ctl) - 1
      BY <3>1, <3>2, HeadTailProperties
    <3>4. i - 1 \in 1 .. Len(ctl') /\ ctl'[i - 1] \in Signals
      BY <1>1, <3>1, <3>2, <3>3 DEF takeControl
    <3>5. SignalQueued'
      BY <3>4 DEF SignalQueued
    <3>6. QED
      BY <1>1, <2>1, <3>5 DEF takeControl, Latency
  <2>2. CASE ~\E i \in 2 .. Len(ctl) : ctl[i] \in Signals
    BY <1>1, <2>2 DEF takeControl, Latency
  <2>3. QED
    BY <2>1, <2>2
<1>2. ASSUME NEW n \in 1 .. MaxWrite, takePush(n) PROVE Latency'
  <2>1. ctl = <<>>
    BY <1>2 DEF takePush, ControlReady
  <2>2. ~SignalQueued
    BY <2>1 DEF SignalQueued
  <2>3. QED
    BY <1>2, <2>2 DEF takePush, Latency
<1>3. CASE writeTimeout
  <2>1. stalls = 0
    BY <1>3 DEF writeTimeout, Latency
  <2>2. SignalQueued' <=> SignalQueued
    BY <1>3 DEF writeTimeout, SignalQueued
  <2>3. QED
    BY <1>3, <2>1, <2>2 DEF writeTimeout, Latency
<1>4. ASSUME NEW x \in Conns, forward(x) PROVE Latency'
  <2>1. CASE UNCHANGED ctl
    BY <1>4, <2>1, LatencyKept DEF forward
  <2>2. CASE ctl' = Append(ctl, Head(inbox[x]))
    <3>1. SignalQueued => SignalQueued'
      BY ONLY TypeOK, <2>2, SignalStaysQueued
    <3>2. QED
      BY <1>4, <3>1 DEF forward, Latency
  <2>3. QED
    BY <1>4, <2>1, <2>2 DEF forward
<1>5. CASE LoopStep
  <2>1. CASE readOutput \/ readEnd \/ takeSignal \/ writeSome \/ writeDone \/ reap \/ unlink
    BY <2>1, LatencyKept
       DEF readOutput, readEnd, takeSignal, writeSome, writeDone, reap, unlink, Stopped
  <2>2. ASSUME NEW x \in Conns, accept(x) PROVE Latency'
    BY <2>2, LatencyKept DEF accept
  <2>3. QED
    BY <1>1, <1>2, <1>3, <1>5, <2>1, <2>2 DEF LoopStep
<1>6. CASE writeLog \/ signalDaemon \/ writeOutput \/ readInput
  BY <1>6, LatencyKept DEF writeLog, signalDaemon, writeOutput, readInput
<1>7. ASSUME NEW p \in Procs, ProcStep(p) PROVE Latency'
  BY <1>7, LatencyKept DEF ProcStep, die, spawn, closeTty
<1>8. ASSUME NEW k \in Killers, KillerStep(k) PROVE Latency'
  BY <1>8, LatencyKept DEF KillerStep, kill, seeGone, waitTimesOut, escalate
<1>9. ASSUME NEW s \in Streamers, StreamerStep(s) PROVE Latency'
  BY <1>9, LatencyKept DEF StreamerStep, connectStream, sendPush, sendResize, leaveStream
<1>10. QED
  BY <1>4, <1>5, <1>6, <1>7, <1>8, <1>9 DEF Next

-------------------------------------------------------------------------------

\* What the end rests on: that no step of a client or of the hosted program
\* touches, except the tty and the child's exit.
endVars == <<loop, reason, logVars, socketFile, ptyOut>>

LEMMA EndingKept ==
  ASSUME Ending, UNCHANGED endVars,
         tty = {} => tty' = {}, Leader \notin alive => Leader \notin alive'
  PROVE  Ending'
BY DEF Ending, MarkIsLast, endVars, logVars

LEMMA MarkAppended ==
  ASSUME TypeOK, logq' = Append(logq, "mark")
  PROVE  MarkIsLast'
<1>1. logq \in Seq({"out", "mark"})
  BY DEF TypeOK
<1>2. Len(logq') = Len(logq) + 1 /\ logq'[Len(logq) + 1] = "mark" /\ logq' # <<>>
  BY <1>1, AppendProperties
<1>3. QED
  BY <1>2 DEF MarkIsLast

\* The daemon's own steps towards its end, in the code's order: the pty is
\* drained, the child reaped, the marker queued, the log written, the socket
\* unlinked.
LEMMA EndingStep ==
  ASSUME TypeOK, Ending, Leader \notin unborn, Next
  PROVE  Ending' /\ Leader \notin unborn'
<1> USE DEF ptyVars, procVars, clientVars, logVars, daemonVars, endVars
<1>1. CASE takeControl \/ (\E x \in Conns : accept(x)) \/ (\E x \in Conns : forward(x))
           \/ signalDaemon \/ readInput
  BY <1>1, EndingKept DEF takeControl, accept, forward, signalDaemon, readInput
<1>2. CASE (\E n \in 1 .. MaxWrite : takePush(n)) \/ writeSome \/ writeDone \/ writeTimeout
  <2>1. /\ loop \in {"select", "writing"} /\ loop' \in {"select", "writing"}
        /\ UNCHANGED <<reason, logVars, socketFile, ptyOut, tty, alive, unborn>>
    BY <1>2 DEF takePush, writeSome, writeDone, writeTimeout
  <2>2. QED
    BY <2>1 DEF Ending
<1>3. CASE readOutput
  BY <1>3 DEF readOutput, Ending
<1>4. CASE readEnd
  BY <1>4 DEF readEnd, Ending
<1>5. CASE takeSignal
  BY <1>5, MarkAppended DEF takeSignal, Stopped, Ending
<1>6. CASE reap
  BY <1>6, MarkAppended DEF reap, Stopped, Ending
<1>7. CASE unlink
  BY <1>7 DEF unlink, Ending, MarkIsLast
<1>8. CASE writeLog
  <2>1. logq \in Seq({"out", "mark"}) /\ logq # <<>> /\ Len(logq) \in Nat
    BY <1>8 DEF writeLog, TypeOK
  <2>2. MarkIsLast => MarkIsLast'
    <3>1. CASE Tail(logq) = <<>>
      <4>1. Len(logq) - 1 = 0
        <5>1. Len(<<>>) = Len(logq) - 1
          BY <2>1, <3>1, TailType
        <5>2. QED
          BY ONLY <5>1
      <4>2. Len(logq) = 1 /\ Head(logq) = logq[1]
        BY ONLY <2>1, <4>1, HeadTailProperties
      <4>3. QED
        BY <1>8, <2>1, <3>1, <4>2 DEF writeLog, MarkIsLast
    <3>2. CASE Tail(logq) # <<>>
      <4>1. /\ Tail(logq) \in Seq({"out", "mark"})
            /\ Len(Tail(logq)) = Len(logq) - 1
            /\ \A i \in 1 .. Len(Tail(logq)) : Tail(logq)[i] = logq[i + 1]
        BY <2>1, HeadTailProperties
      <4>2. Len(Tail(logq)) \in 1 .. Len(Tail(logq))
        BY <3>2, <4>1
      <4>3. Tail(logq)[Len(Tail(logq))] = logq[Len(logq)]
        BY <2>1, <4>1, <4>2
      <4>4. QED
        BY <1>8, <2>1, <3>2, <4>3 DEF writeLog, MarkIsLast
    <3>3. QED
      BY <3>1, <3>2
  <2>3. loop # "exited"
    BY <2>1 DEF Ending
  <2>4. QED
    BY <1>8, <2>2, <2>3 DEF writeLog, Ending
<1>9. ASSUME NEW p \in Procs, ProcStep(p) PROVE Ending' /\ Leader \notin unborn'
  <2>1. tty = {} => tty' = {}
    BY <1>9 DEF ProcStep, die, spawn, closeTty
  <2>2. Leader \notin alive => Leader \notin alive'
    BY <1>9 DEF ProcStep, die, spawn, closeTty
  <2>3. UNCHANGED endVars /\ unborn' \subseteq unborn
    BY <1>9 DEF ProcStep, die, spawn, closeTty
  <2>4. QED
    BY <2>1, <2>2, <2>3, EndingKept
<1>10. CASE writeOutput
  BY <1>10 DEF writeOutput, Ending, MarkIsLast
<1>11. ASSUME NEW k \in Killers, KillerStep(k) PROVE Ending' /\ Leader \notin unborn'
  BY <1>11, EndingKept DEF KillerStep, kill, seeGone, waitTimesOut, escalate
<1>12. ASSUME NEW s \in Streamers, StreamerStep(s) PROVE Ending' /\ Leader \notin unborn'
  BY <1>12, EndingKept DEF StreamerStep, connectStream, sendPush, sendResize, leaveStream
<1>13. QED
  BY <1>1, <1>2, <1>3, <1>4, <1>5, <1>6, <1>7, <1>8, <1>9, <1>10, <1>11, <1>12
     DEF Next, LoopStep

-------------------------------------------------------------------------------

\* A good report is given only when the socket is gone, and the loop never
\* leaves its last state.
LEMMA ReportsStep ==
  ASSUME TypeOK, Ending, Reports, Next
  PROVE  Reports'
<1> USE DEF ptyVars, procVars, clientVars, logVars, daemonVars
<1>1. ASSUME NEW k \in Killers, KillerStep(k) PROVE Reports'
  <2>1. UNCHANGED loop /\ killer \in [Killers -> {"idle", "waitTerm", "waitForced",
          "escalating", "waitKill", "stopped", "killed", "failed"}]
    BY <1>1 DEF KillerStep, kill, seeGone, waitTimesOut, escalate, TypeOK
  <2>2. CASE seeGone(k)
    BY <2>1, <2>2 DEF seeGone, Reports, Ending
  <2>3. CASE kill(k)
    BY <2>1, <2>3 DEF kill, Reports
  <2>4. CASE waitTimesOut(k)
    BY <2>1, <2>4 DEF waitTimesOut, Reports
  <2>5. CASE escalate(k)
    BY <2>1, <2>5 DEF escalate, Reports
  <2>6. QED
    BY <1>1, <2>2, <2>3, <2>4, <2>5 DEF KillerStep
<1>2. CASE UNCHANGED killer /\ (loop = "exited" => loop' = "exited")
  BY <1>2 DEF Reports
<1>3. CASE LoopStep
  BY <1>2, <1>3 DEF LoopStep, takeControl, readOutput, readEnd, accept, takePush,
     takeSignal, writeSome, writeDone, writeTimeout, reap, unlink, Stopped
<1>4. CASE writeLog \/ signalDaemon \/ writeOutput \/ readInput \/ \E x \in Conns : forward(x)
  BY <1>2, <1>4 DEF writeLog, signalDaemon, writeOutput, readInput, forward
<1>5. ASSUME NEW p \in Procs, ProcStep(p) PROVE Reports'
  BY <1>2, <1>5 DEF ProcStep, die, spawn, closeTty
<1>6. ASSUME NEW s \in Streamers, StreamerStep(s) PROVE Reports'
  BY <1>2, <1>6 DEF StreamerStep, connectStream, sendPush, sendResize, leaveStream
<1>7. QED
  BY <1>1, <1>3, <1>4, <1>5, <1>6 DEF Next

-------------------------------------------------------------------------------

LEMMA InitIInv == Init => IInv
<1> SUFFICES ASSUME Init PROVE IInv
  OBVIOUS
<1>1. TypeOK
  <2>1. Leader \in Procs
    BY ProcsAssumption
  <2>2. <<>> \in Seq(Signals \cup {"resize"}) /\ <<>> \in Seq({"out", "mark"})
        /\ <<>> \in Seq(Signals \cup {"push", "resize"}) /\ Len(<<>>) = 0
    OBVIOUS
  <2>3. /\ pushq \in 0 .. PushCap /\ unwritten \in 0 .. MaxWrite /\ ptyIn \in 0 .. InCap
        /\ ptyOut \in 0 .. OutCap /\ outLeft \in 0 .. MaxOutput
        /\ resizes \in 0 .. MaxResizes /\ Len(ctl) <= CtlCap /\ stalls \in Nat
    BY <2>2, Sizes DEF Init
  <2>4. /\ ctl \in Seq(Signals \cup {"resize"}) /\ logq \in Seq({"out", "mark"})
        /\ conn \in [Conns -> {"none", "backlog", "served", "closed"}]
        /\ inbox \in [Conns -> Seq(Signals \cup {"push", "resize"})]
        /\ killer \in [Killers -> {"idle", "waitTerm", "waitForced", "escalating", "waitKill",
                                   "stopped", "killed", "failed"}]
    BY <2>2 DEF Init
  <2>5. QED
    BY <2>1, <2>3, <2>4 DEF Init, TypeOK
<1>2. Latency /\ Ending /\ Leader \notin unborn /\ Reports
  BY DEF Init, Latency, Ending, Reports
<1>3. QED
  BY <1>1, <1>2 DEF IInv

LEMMA StepIInv == IInv /\ [Next]_vars => IInv'
<1> SUFFICES ASSUME IInv, [Next]_vars PROVE IInv'
  OBVIOUS
<1>1. CASE Next
  BY <1>1, TypeStep, LatencyStep, EndingStep, ReportsStep DEF IInv
<1>2. CASE UNCHANGED vars
  BY <1>2 DEF vars, procVars, ptyVars, clientVars, logVars, IInv, TypeOK, Latency,
     SignalQueued, Ending, MarkIsLast, Reports
<1>3. QED
  BY <1>1, <1>2

\* The parts of the invariant hold together, for every value of the constants.
THEOREM Invariance == Spec => []IInv
<1>1. QED
  BY InitIInv, StepIInv, PTL DEF Spec

\* The control and push channels and the pty's queues never pass their
\* limits, whatever clients send and however the child stalls: a full channel
\* makes the handler wait (handle_client) and never drops or overruns.
THEOREM TypeCorrect == Spec => []TypeOK
<1>1. IInv => TypeOK
  BY DEF IInv
<1>2. QED
  BY <1>1, Invariance, PTL

\* However much push data is queued and however often the pty stalls, a queued
\* SIGTERM or SIGKILL waits for one timed-out write at most: the biased select!
\* polls the control channel before it takes the next chunk.
THEOREM KillIsPrompt == Spec => []KillWaitsOneWrite
<1>1. IInv => KillWaitsOneWrite
  BY DEF IInv, Latency, KillWaitsOneWrite
<1>2. QED
  BY <1>1, Invariance, PTL

\* Who finds the socket gone finds a complete log: everything the daemon read
\* and the end marker are in the file, and after the child's end the pty held
\* no more output and nobody could write any.
THEOREM LogIsComplete == Spec => []LogCompleteWhenGone
<1>1. IInv => LogCompleteWhenGone
  BY DEF IInv, Ending, MarkIsLast, LogCompleteWhenGone
<1>2. QED
  BY <1>1, Invariance, PTL

\* `hytch kill` says "stopped" or "killed" only of a daemon that has exited,
\* and unless the daemon itself was told to stop, the child is dead.
THEOREM KillReportsTruth == Spec => []ReportIsTrue
<1>1. IInv => ReportIsTrue
  BY DEF IInv, Ending, Reports, ReportIsTrue
<1>2. QED
  BY <1>1, Invariance, PTL
===============================================================================
