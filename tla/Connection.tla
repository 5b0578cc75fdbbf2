------------------------------ MODULE Connection ------------------------------
(***************************************************************************)
(* Clients and their handler tasks, end to end: the log replay and the     *)
(* handshake of a viewer (cli/src/attach.rs, client/src/attach.rs), `hytch *)
(* push` (cli/src/commands.rs), handle_client (daemon/src/daemon.rs), the  *)
(* two directions of the socket, the push channel and the daemon's exit.   *)
(*                                                                         *)
(* Output bytes are numbered as in Fanout, each client's input messages    *)
(* likewise.  Control messages, the pty and the log file are Daemon's: here *)
(* the event loop takes a push for its write to the pty, the rest of which *)
(* a timeout may drop there, and the log is the output's first `logged`    *)
(* bytes.                                                                  *)
(***************************************************************************)
EXTENDS Fanout, SequencesExt

CONSTANTS
  Viewers,   \* clients that attach; the others are runs of `hytch push`
  DownCap,   \* bytes a socket holds on their way to its client
  UpCap,     \* messages it holds on their way to the daemon
  PushCap,   \* capacity of the push channel
  MaxTyped   \* bound: input messages of one client

ASSUME ConnectionAssumption ==
  /\ Viewers \subseteq Clients
  /\ {DownCap, UpCap, PushCap} \subseteq Nat \ {0} /\ MaxTyped \in Nat

VARIABLES
  logged,     \* bytes the log file holds
  daemon,     \* running; ending: the loop serves nobody any more; exited
  pushq,      \* the push channel: whose message, and which
  taken,      \* for each client, its messages the event loop has taken
  handler,    \* handler tasks: none, backlog, select, sending, pushing, gone
  out,        \* bytes its write_all has still to write
  held,       \* the message it waits to put into the push channel; 0: none
  down, up,   \* the two directions of each client's socket
  client,     \* idle, read, loop, sending, left, ended, failed
  replayed,   \* the client showed the log, and asks to skip the scrollback
  typed,      \* input messages the client has made
  shown       \* bytes on the client's terminal

daemonVars  == <<logged, daemon, pushq, taken>>
handlerVars == <<handler, out, held>>
socketVars  == <<down, up>>
clientVars  == <<client, replayed, typed, shown>>
connVars    == <<fanoutVars, daemonVars, handlerVars, socketVars, clientVars>>

attachMsg(skip_ring) == [type |-> "attach", skip |-> skip_ring]
pushMsg(n)           == [type |-> "push", n |-> n]
detachMsg            == [type |-> "detach"]

\* The client has dropped its end of the socket.
HungUp(c) == client[c] \in {"left", "ended", "failed"}

-------------------------------------------------------------------------------

ConnInit ==
  /\ new
  /\ logged = 0 /\ daemon = "running" /\ pushq = <<>>
  /\ taken = [c \in Clients |-> <<>>]
  /\ handler = [c \in Clients |-> "none"]
  /\ out = [c \in Clients |-> <<>>] /\ held = [c \in Clients |-> 0]
  /\ down = [c \in Clients |-> <<>>] /\ up = [c \in Clients |-> <<>>]
  /\ client = [c \in Clients |-> "idle"]
  /\ replayed = [c \in Clients |-> FALSE]
  /\ typed = [c \in Clients |-> 0]
  /\ shown = [c \in Clients |-> <<>>]

-------------------------------------------------------------------------------
(* The event loop and the log writer, as far as clients can tell.            *)

readOutput(n) ==
  /\ daemon = "running"
  /\ push(n)
  /\ UNCHANGED <<daemonVars, handlerVars, socketVars, clientVars>>

\* The writer thread appends the next chunk.
writeLog ==
  /\ logged < produced
  /\ \E k \in 1 .. Len(ends) : EndOf(k - 1) = logged /\ logged' = ends[k]
  /\ UNCHANGED <<fanoutVars, daemon, pushq, taken, handlerVars, socketVars,
                 clientVars>>

accept(c) ==
  /\ daemon = "running" /\ handler[c] = "backlog"
  /\ handler' = [handler EXCEPT ![c] = "select"]
  /\ UNCHANGED <<fanoutVars, daemonVars, out, held, socketVars, clientVars>>

\* The loop takes a message to write it to the pty.
takePush ==
  /\ daemon = "running" /\ pushq # <<>>
  /\ taken' = [taken EXCEPT ![Head(pushq)[1]] = Append(@, Head(pushq)[2])]
  /\ pushq' = Tail(pushq)
  /\ UNCHANGED <<fanoutVars, logged, daemon, handlerVars, socketVars, clientVars>>

\* pty.read has failed and the loop waits for the child, or a signal has ended
\* the loop: no output, connection or push is looked at again, while handlers
\* and the log writer go on.
endLoop ==
  /\ daemon = "running" /\ daemon' = "ending"
  /\ UNCHANGED <<fanoutVars, logged, pushq, taken, handlerVars, socketVars,
                 clientVars>>

\* The log is complete and the process exits: handlers end where they are.
exit ==
  /\ daemon = "ending" /\ logged = produced
  /\ daemon' = "exited"
  /\ handler' = [c \in Clients |-> "gone"]
  /\ UNCHANGED <<fanoutVars, logged, pushq, taken, out, held, socketVars,
                 clientVars>>

-------------------------------------------------------------------------------
(* handle_client.  Its select! takes either branch when both are ready; a    *)
(* branch that waits inside keeps the other from being looked at.            *)

Received(c, type) ==
  /\ handler[c] = "select" /\ up[c] # <<>>
  /\ Head(up[c]).type = type
  /\ up' = [up EXCEPT ![c] = Tail(@)]

\* Faulty variant: one write, whose count is not looked at.
WriteOnce(c, bytes) ==
  LET room == IF HungUp(c) THEN 0 ELSE DownCap - Len(down[c])
      m    == IF Len(bytes) < room THEN Len(bytes) ELSE room
  IN  /\ down' = [down EXCEPT ![c] = @ \o SubSeq(bytes, 1, m)]
      /\ handler' = [handler EXCEPT ![c] = "select"]
      /\ UNCHANGED out

\* A poll of write_all: the socket takes what it has room for, and nothing
\* once the client has hung up.
Write(c, bytes) ==
  LET room == IF HungUp(c) THEN 0 ELSE DownCap - Len(down[c])
      m    == IF Len(bytes) < room THEN Len(bytes) ELSE room
  IN  /\ down' = [down EXCEPT ![c] = @ \o SubSeq(bytes, 1, m)]
      /\ out' = [out EXCEPT ![c] = SubSeq(bytes, m + 1, Len(bytes))]
      /\ handler' = [handler EXCEPT ![c] =
                       IF m = Len(bytes) THEN "select" ELSE "sending"]

\* Faulty variant: skip_ring is not looked at.
takeAttachShowsRing(c) ==
  /\ Received(c, "attach")
  /\ attach(c)
  /\ Write(c, ring)
  /\ UNCHANGED <<daemonVars, held, clientVars>>

\* Faulty variant: with skip_ring the receiver is forgotten too.
takeAttachForgets(c) ==
  /\ Received(c, "attach")
  /\ IF Head(up[c]).skip
     THEN UNCHANGED <<fanoutVars, down, out, handler>>
     ELSE attach(c) /\ Write(c, ring)
  /\ UNCHANGED <<daemonVars, held, clientVars>>

takeAttach(c) ==
  /\ Received(c, "attach")
  /\ attach(c)
  /\ IF Head(up[c]).skip THEN UNCHANGED <<down, out, handler>> ELSE Write(c, ring)
  /\ UNCHANGED <<daemonVars, held, clientVars>>

takeDetach(c) ==
  /\ Received(c, "detach")
  /\ detach(c)
  /\ UNCHANGED <<daemonVars, handlerVars, down, clientVars>>

receivePush(c) ==
  /\ Received(c, "push")
  /\ held' = [held EXCEPT ![c] = Head(up[c]).n]
  /\ handler' = [handler EXCEPT ![c] = "pushing"]
  /\ UNCHANGED <<fanoutVars, daemonVars, out, down, clientVars>>

\* Faulty variant: try_send, and a full channel loses the message.
forwardPushTries(c) ==
  /\ handler[c] = "pushing"
  /\ pushq' = IF Len(pushq) < PushCap THEN Append(pushq, <<c, held[c]>>) ELSE pushq
  /\ held' = [held EXCEPT ![c] = 0]
  /\ handler' = [handler EXCEPT ![c] = "select"]
  /\ UNCHANGED <<fanoutVars, logged, daemon, taken, out, socketVars, clientVars>>

\* Faulty variant: a channel without a limit.
forwardPushUnbounded(c) ==
  /\ handler[c] = "pushing"
  /\ pushq' = Append(pushq, <<c, held[c]>>)
  /\ held' = [held EXCEPT ![c] = 0]
  /\ handler' = [handler EXCEPT ![c] = "select"]
  /\ UNCHANGED <<fanoutVars, logged, daemon, taken, out, socketVars, clientVars>>

\* push_tx.send has a slot.
forwardPush(c) ==
  /\ handler[c] = "pushing" /\ Len(pushq) < PushCap
  /\ pushq' = Append(pushq, <<c, held[c]>>)
  /\ held' = [held EXCEPT ![c] = 0]
  /\ handler' = [handler EXCEPT ![c] = "select"]
  /\ UNCHANGED <<fanoutVars, logged, daemon, taken, out, socketVars, clientVars>>

takeChunk(c) ==
  /\ handler[c] = "select"
  /\ recv(c)
  /\ Write(c, chunk(next[c]))
  /\ UNCHANGED <<daemonVars, held, up, clientVars>>

\* The receiver has lagged: the client is disconnected.
takeLag(c) ==
  /\ handler[c] = "select"
  /\ lagged(c)
  /\ handler' = [handler EXCEPT ![c] = "gone"]
  /\ UNCHANGED <<daemonVars, out, held, socketVars, clientVars>>

\* write_all goes on when the socket has room again.
writeMore(c) ==
  /\ handler[c] = "sending" /\ ~HungUp(c) /\ Len(down[c]) < DownCap
  /\ Write(c, out[c])
  /\ UNCHANGED <<fanoutVars, daemonVars, held, up, clientVars>>

\* The client has hung up: the handler returns, whatever it has not read.
writeFails(c) ==
  /\ handler[c] = "sending" /\ HungUp(c)
  /\ handler' = [handler EXCEPT ![c] = "gone"]
  /\ detach(c)
  /\ UNCHANGED <<daemonVars, out, held, socketVars, clientVars>>

\* Faulty variant: a client that hung up is not listened to any more.
readEndAtHangUp(c) ==
  /\ handler[c] = "select" /\ HungUp(c)
  /\ handler' = [handler EXCEPT ![c] = "gone"]
  /\ next' = [next EXCEPT ![c] = 0]
  /\ UNCHANGED <<ring, ends, got, daemonVars, out, held, socketVars, clientVars>>

\* End of the client's messages.
readEnd(c) ==
  /\ handler[c] = "select" /\ up[c] = <<>> /\ HungUp(c)
  /\ handler' = [handler EXCEPT ![c] = "gone"]
  /\ next' = [next EXCEPT ![c] = 0]
  /\ UNCHANGED <<ring, ends, got, daemonVars, out, held, socketVars, clientVars>>

-------------------------------------------------------------------------------
(* The clients.                                                              *)

\* replay_log_to_stdout: shows the log, if there is any.
replay_log(c) ==
  /\ c \in Viewers /\ client[c] = "idle"
  /\ client' = [client EXCEPT ![c] = "read"]
  /\ shown' = [shown EXCEPT ![c] = Span(0, logged)]
  /\ replayed' = [replayed EXCEPT ![c] = logged > 0]
  /\ UNCHANGED <<fanoutVars, daemonVars, handlerVars, socketVars, typed>>

\* A viewer's handshake is in the socket before the loop starts.
connect(c) ==
  /\ client[c] = IF c \in Viewers THEN "read" ELSE "idle"
  /\ IF daemon = "exited"
     THEN client' = [client EXCEPT ![c] = "failed"] /\ UNCHANGED <<handler, up>>
     ELSE /\ client' = [client EXCEPT ![c] = "loop"]
          /\ handler' = [handler EXCEPT ![c] = "backlog"]
          /\ up' = [up EXCEPT ![c] =
                      IF c \in Viewers THEN <<attachMsg(replayed[c])>> ELSE <<>>]
  /\ UNCHANGED <<fanoutVars, daemonVars, out, held, down, replayed, typed, shown>>

\* Input: the client is in `send` and looks at nothing else.
input(c) ==
  /\ client[c] = "loop" /\ typed[c] < MaxTyped
  /\ typed' = [typed EXCEPT ![c] = @ + 1]
  /\ client' = [client EXCEPT ![c] = "sending"]
  /\ UNCHANGED <<fanoutVars, daemonVars, handlerVars, socketVars, replayed, shown>>

sendDone(c) ==
  /\ client[c] = "sending"
  /\ handler[c] # "gone" /\ Len(up[c]) < UpCap
  /\ up' = [up EXCEPT ![c] = Append(@, pushMsg(typed[c]))]
  /\ client' = [client EXCEPT ![c] = "loop"]
  /\ UNCHANGED <<fanoutVars, daemonVars, handlerVars, down, replayed, typed, shown>>

sendFails(c) ==
  /\ client[c] = "sending" /\ handler[c] = "gone"
  /\ client' = [client EXCEPT ![c] = "failed"]
  /\ UNCHANGED <<fanoutVars, daemonVars, handlerVars, socketVars, replayed, typed,
                 shown>>

\* Output goes to the terminal.
show(c) ==
  /\ client[c] = "loop" /\ c \in Viewers /\ down[c] # <<>>
  /\ shown' = [shown EXCEPT ![c] = @ \o down[c]]
  /\ down' = [down EXCEPT ![c] = <<>>]
  /\ UNCHANGED <<fanoutVars, daemonVars, handlerVars, up, client, replayed, typed>>

\* End of file from the daemon.  When the handler closed the socket on unread
\* messages the client may get a connection reset instead.
seeEnd(c) ==
  /\ client[c] = "loop" /\ c \in Viewers
  /\ down[c] = <<>> /\ handler[c] = "gone"
  /\ \E outcome \in {"ended"} \cup (IF up[c] # <<>> THEN {"failed"} ELSE {}) :
       client' = [client EXCEPT ![c] = outcome]
  /\ UNCHANGED <<fanoutVars, daemonVars, handlerVars, socketVars, replayed, typed,
                 shown>>

\* The detach character, the end of the input, or the client is killed.
leave(c) ==
  /\ client[c] = "loop"
  /\ client' = [client EXCEPT ![c] = "left"]
  /\ UNCHANGED <<fanoutVars, daemonVars, handlerVars, socketVars, replayed, typed,
                 shown>>

\* The suspend character: the daemon is told first.
suspend(c) ==
  /\ client[c] = "loop" /\ c \in Viewers
  /\ handler[c] # "gone" /\ Len(up[c]) < UpCap
  /\ up' = [up EXCEPT ![c] = Append(@, detachMsg)]
  /\ client' = [client EXCEPT ![c] = "left"]
  /\ UNCHANGED <<fanoutVars, daemonVars, handlerVars, down, replayed, typed, shown>>

-------------------------------------------------------------------------------

\* What the handler does with its client's messages, and with the output.
MessageStep(c) == takeAttach(c) \/ takeDetach(c) \/ receivePush(c) \/ readEnd(c)
OutputStep(c)  == takeChunk(c) \/ takeLag(c)
WaitStep(c)    == forwardPush(c) \/ writeMore(c) \/ writeFails(c)

SendStep(c) == sendDone(c) \/ sendFails(c)
ReadStep(c) == show(c) \/ seeEnd(c)

ConnNext ==
  \/ \E n \in 1 .. MaxChunk : readOutput(n)
  \/ writeLog
  \/ takePush
  \/ endLoop \/ exit
  \/ \E c \in Clients :
       \/ accept(c)
       \/ MessageStep(c) \/ OutputStep(c) \/ WaitStep(c)
       \/ replay_log(c) \/ connect(c) \/ input(c) \/ leave(c) \/ suspend(c)
       \/ SendStep(c) \/ ReadStep(c)

ConnSpec == ConnInit /\ [][ConnNext]_connVars

\* Tasks that can move are polled.  Weak fairness is enough where the code gives
\* more, a select! that picks among its ready branches at random and a channel
\* that serves its senders in order: MaxBytes and MaxTyped bound what can come in
\* between.  The event loop looks at connections and pushes only when there is
\* no output, and comes to them for that same reason: output that never pauses
\* keeps it from both.  People owe no input; the loop may end or not, and the
\* wait for the child may last for ever.
ConnFairness ==
  /\ WF_connVars(takePush)
  /\ \A c \in Clients :
       /\ WF_connVars(accept(c))
       /\ WF_connVars(MessageStep(c)) /\ WF_connVars(OutputStep(c))
       /\ WF_connVars(WaitStep(c))
       /\ WF_connVars(SendStep(c)) /\ WF_connVars(ReadStep(c))

ConnFairSpec == ConnSpec /\ ConnFairness

-------------------------------------------------------------------------------

\* No socket or channel passes its limit, and every state is one of those named.
ConnTypeOK ==
  /\ TypeOK
  /\ logged \in 0 .. MaxBytes /\ daemon \in {"running", "ending", "exited"}
  /\ pushq \in Seq(Clients \X (1 .. MaxTyped)) /\ Len(pushq) <= PushCap
  /\ taken \in [Clients -> Seq(1 .. MaxTyped)]
  /\ handler \in [Clients -> {"none", "backlog", "select", "sending", "pushing", "gone"}]
  /\ out \in [Clients -> Seq(1 .. MaxBytes)]
  /\ held \in [Clients -> 0 .. MaxTyped]
  /\ \A c \in Clients :
       /\ down[c] \in Seq(1 .. MaxBytes) /\ Len(down[c]) <= DownCap
       /\ Len(up[c]) <= UpCap
       /\ \A i \in 1 .. Len(up[c]) : up[c][i].type \in {"attach", "push", "detach"}
  /\ client \in [Clients -> {"idle", "read", "loop", "sending", "left", "ended", "failed"}]
  /\ replayed \in [Clients -> BOOLEAN]
  /\ typed \in [Clients -> 0 .. MaxTyped]
  /\ shown \in [Clients -> Seq(1 .. MaxBytes)]

\* A viewer's terminal, its socket and what its handler has left to write are
\* together what the fanout gave that handler: nothing is lost, repeated or
\* reordered on the way, across partial writes and input in between.
PipelineExact ==
  \A c \in Viewers : ~replayed[c] => shown[c] \o down[c] \o out[c] = got[c]

\* History is never shown twice, with a log replay as without one.
NeverTwice ==
  \A c \in Viewers :
    LET seen == shown[c] \o down[c]
    IN  \A i, j \in 1 .. Len(seen) : i < j => seen[i] < seen[j]

\* The numbers of the push messages in a socket, and of a client's messages in
\* the push channel, by their positions there.
Numbers(msgs) == [i \in {k \in 1 .. Len(msgs) : msgs[k].type = "push"} |-> msgs[i].n]

InChannel(c) == [i \in {k \in 1 .. Len(pushq) : pushq[k][1] = c} |-> pushq[i][2]]

\* The numbers are lo + 1 to hi, in this order.
IsRun(num, lo, hi) ==
  /\ lo <= hi /\ {num[i] : i \in DOMAIN num} = lo + 1 .. hi
  /\ \A i, j \in DOMAIN num : i < j => num[i] < num[j]

\* Messages that are in the socket or have left it.
Sent(c) == CASE client[c] = "sending" -> {typed[c] - 1}
             [] client[c] = "failed"  -> {typed[c] - 1, typed[c]}
             [] OTHER                 -> {typed[c]}

\* A client's input stays in order and whole on its way to the event loop,
\* whatever other clients send meanwhile: the loop has taken a first part, the
\* push channel holds the next one, then comes the message the handler waits
\* with, and the socket holds the rest.  Only a message the client is still
\* sending, or failed to send, is not on the way.
InputInOrder ==
  \A c \in Clients : \E queued, read \in 0 .. MaxTyped :
    /\ taken[c] = Span(0, Len(taken[c]))
    /\ IsRun(InChannel(c), Len(taken[c]), queued)
    /\ IF held[c] = 0 THEN read = queued ELSE read = queued + 1 /\ held[c] = read
    /\ \E sent \in Sent(c) : IsRun(Numbers(up[c]), read, sent)

\* The last byte on a client's terminal; 0 when there is none.
LastShown(c) == IF shown[c] = <<>> THEN 0 ELSE Last(shown[c])

\* Client and handler wait for each other: the one in `send` and the other in
\* write_all, each into a full socket.
WritesBlock(c) ==
  /\ client[c] = "sending" /\ Len(up[c]) = UpCap
  /\ handler[c] = "sending" /\ Len(down[c]) = DownCap

\* The loop that served this handler, or was to accept its client, has ended.
Abandoned(c) ==
  /\ daemon = "ending"
  /\ handler[c] = "backlog" \/ (handler[c] = "pushing" /\ Len(pushq) = PushCap)

\* A viewer that stays attached gets everything the program has written since,
\* and without a log replay all of the scrollback, unless the daemon
\* disconnects it, a blocked write of its own holds up the handler whose
\* output it does not read, or the event loop has ended before it took the
\* connection or the handler's push.
ViewerCatchesUp ==
  \A c \in Viewers :
    client[c] = "loop" ~>
      \/ HungUp(c) \/ WritesBlock(c) \/ Abandoned(c)
      \/ /\ next[c] = Len(ends) + 1 /\ out[c] \o down[c] = <<>>
         /\ replayed[c] \/ LastShown(c) = produced

\* What `hytch push` sent before it returned 0 is taken by the event loop for
\* its write to the pty, in order and whole, unless that loop ends before.
PushesAreTaken ==
  \A c \in Clients \ Viewers :
    client[c] = "left" ~> daemon # "running" \/ taken[c] = Span(0, typed[c])

\* fanout.rs: a client that falls behind is disconnected.
LaggingClientIsDisconnected ==
  \A c \in Viewers :
    (next[c] # 0 /\ Lags(c)) ~> (handler[c] = "gone" \/ next[c] = 0)
===============================================================================
