----------------------------- MODULE AttachClient -----------------------------
(***************************************************************************)
(* One attach client from its start to its outcome: the select! loop of    *)
(* crates/client/src/attach.rs, the SIGWINCH watcher of resize.rs, the     *)
(* order in which cli/src/attach.rs sets them up, and the way of what they *)
(* send through the client's handler and the event loop to the pty         *)
(* (daemon.rs, pty.rs).                                                    *)
(*                                                                         *)
(* The sizes the terminal takes one after another are numbered; a byte of  *)
(* input has its position and is a key, the detach or the suspend          *)
(* character.  Output is Connection's, but for what it does to the other   *)
(* direction: a handler that has filled the socket to a client which does  *)
(* not read is in write_all and reads nothing either.                      *)
(***************************************************************************)
EXTENDS Naturals, Sequences

CONSTANTS
  SockCap,    \* messages the socket holds
  ResizeCap,  \* capacity of the watcher's channel (8 in the code)
  CtlCap,     \* capacity of the daemon's control channel (16 in the code)
  MaxChunk,   \* bound: bytes of one read of the terminal
  MaxTyped,   \* bound: bytes typed
  MaxSizes    \* bound: sizes the terminal takes

ASSUME SizesAssumption ==
  /\ {SockCap, ResizeCap, CtlCap, MaxChunk, MaxSizes} \subseteq Nat \ {0}
  /\ MaxTyped \in Nat

VARIABLES
  client,    \* start, watching, sending, loop, or its outcome
  todo,      \* messages the client is sending, the first one being written
  outcome,   \* what the client does when they are sent: loop, or its outcome
  typed,     \* history: all bytes read from the terminal
  size,      \* the terminal's size
  watching,  \* SIGWINCH is caught
  pending,   \* a SIGWINCH the watcher has not seen
  held,      \* a size the watcher waits to put into its channel; 0: none
  resizes,   \* the watcher's channel
  sock,      \* messages on their way to the daemon
  open,      \* the daemon has not closed the connection
  attached,  \* the handler has a receiver for this client
  blocked,   \* the handler is in write_all, and the socket to the client full
  pushed,    \* the input the handler has handed on
  serving,   \* the event loop is in its select!, not waiting for the child
  ctl,       \* the control channel: sizes
  ptySize    \* the pty's size; 0: as the daemon made it

watchVars  == <<size, watching, pending, held, resizes>>
daemonVars == <<open, attached, blocked, pushed, serving, ctl, ptySize>>
vars == <<client, todo, outcome, typed, watchVars, sock, daemonVars>>

Outcomes == {"detached", "suspended", "closed", "ended", "failed"}

Message(type, content) == [type |-> type, content |-> content]

Byte == [pos : 1 .. MaxTyped, is : {"key", "detach", "suspend"}]

Init ==
  /\ client = "start" /\ todo = <<>> /\ outcome = "loop" /\ typed = <<>>
  /\ size = 1 /\ watching = FALSE /\ pending = FALSE /\ held = 0 /\ resizes = <<>>
  /\ sock = <<>> /\ open = TRUE /\ attached = FALSE /\ blocked = FALSE
  /\ pushed = <<>> /\ serving = TRUE /\ ctl = <<>> /\ ptySize = 0

-------------------------------------------------------------------------------
(* The client.                                                               *)

\* The messages are sent one after the other, then the client goes on.
Send(msgs, then) ==
  /\ todo' = msgs
  /\ outcome' = then
  /\ client' = "sending"

\* spawn_watcher: from here on a SIGWINCH is caught.
spawn_watcher ==
  /\ client = "start"
  /\ watching' = TRUE
  /\ client' = "watching"
  /\ UNCHANGED <<todo, outcome, typed, size, pending, held, resizes, sock, daemonVars>>

\* current_size, then the handshake.  No await in between.
handshake ==
  /\ client = "watching"
  /\ Send(<<Message("attach", <<>>), Message("redraw", size)>>, "loop")
  /\ UNCHANGED <<typed, watchVars, sock, daemonVars>>

\* A message that the socket has room for.
sendOne ==
  /\ client = "sending" /\ todo # <<>> /\ open
  /\ Len(sock) < SockCap
  /\ sock' = Append(sock, Head(todo))
  /\ todo' = Tail(todo)
  /\ UNCHANGED <<client, outcome, typed, watchVars, daemonVars>>

sendDone ==
  /\ client = "sending" /\ todo = <<>>
  /\ client' = outcome
  /\ UNCHANGED <<todo, outcome, typed, watchVars, sock, daemonVars>>

sendFails ==
  /\ client = "sending" /\ todo # <<>> /\ ~open
  /\ client' = "failed"
  /\ UNCHANGED <<todo, outcome, typed, watchVars, sock, daemonVars>>

Special(chunk, kinds) == {i \in 1 .. Len(chunk) : chunk[i].is \in kinds}

First(S) == CHOOSE i \in S : \A j \in S : i <= j

\* Faulty variant, what the comment in the code warns of: the detach character
\* is looked for in the whole chunk before the suspend character.
find_special_char_twice(chunk) ==
  IF Special(chunk, {"detach"}) # {} THEN First(Special(chunk, {"detach"}))
  ELSE IF Special(chunk, {"suspend"}) # {} THEN First(Special(chunk, {"suspend"}))
  ELSE 0

\* The position of the first special character, 0 if there is none.
find_special_char(chunk) ==
  IF Special(chunk, {"detach", "suspend"}) = {} THEN 0
  ELSE First(Special(chunk, {"detach", "suspend"}))

\* Faulty variant: suspending is as silent as detaching.
inputForgetsDetach(chunk) ==
  LET at   == find_special_char(chunk)
      keys == IF at = 0 THEN chunk ELSE SubSeq(chunk, 1, at - 1)
      Push == IF keys = <<>> THEN <<>> ELSE <<Message("push", keys)>>
  IN  /\ client = "loop"
      /\ typed' = typed \o chunk
      /\ Send(Push, IF at = 0 THEN "loop"
                    ELSE IF chunk[at].is = "suspend" THEN "suspended" ELSE "detached")
      /\ UNCHANGED <<watchVars, sock, daemonVars>>

\* Input up to a special character is pushed, and nothing behind it.  A
\* suspend is told to the daemon, a detach is not.
input(chunk) ==
  LET at   == find_special_char(chunk)
      keys == IF at = 0 THEN chunk ELSE SubSeq(chunk, 1, at - 1)
      Push == IF keys = <<>> THEN <<>> ELSE <<Message("push", keys)>>
  IN  /\ client = "loop"
      /\ typed' = typed \o chunk
      /\ IF at = 0 THEN Send(Push, "loop")
         ELSE IF chunk[at].is = "suspend"
         THEN Send(Append(Push, Message("detach", <<>>)), "suspended")
         ELSE Send(Push, "detached")
      /\ UNCHANGED <<watchVars, sock, daemonVars>>

\* Chunks the terminal may deliver next.
Chunks ==
  LET n == Len(typed)
      Kinds(m) == [1 .. m -> {"key", "detach", "suspend"}]
  IN  UNION {{[i \in 1 .. m |-> [pos |-> n + i, is |-> k[i]]] : k \in Kinds(m)} :
               m \in 1 .. (IF MaxTyped - n < MaxChunk THEN MaxTyped - n ELSE MaxChunk)}

inputEnds ==
  /\ client = "loop"
  /\ client' = "closed"
  /\ UNCHANGED <<todo, outcome, typed, watchVars, sock, daemonVars>>

takeResize ==
  /\ client = "loop" /\ resizes # <<>>
  /\ Send(<<Message("winch", Head(resizes))>>, "loop")
  /\ resizes' = Tail(resizes)
  /\ UNCHANGED <<typed, size, watching, pending, held, sock, daemonVars>>

seeEnd ==
  /\ client = "loop" /\ ~open
  /\ client' = "ended"
  /\ UNCHANGED <<todo, outcome, typed, watchVars, sock, daemonVars>>

-------------------------------------------------------------------------------
(* The terminal and the watcher.                                             *)

\* Before the watcher is there a SIGWINCH is ignored; several may become one.
resize ==
  /\ size < MaxSizes
  /\ size' = size + 1
  /\ pending' = watching
  /\ UNCHANGED <<client, todo, outcome, typed, watching, held, resizes, sock, daemonVars>>

\* Faulty variant: a runtime with several threads, where the watcher runs
\* while the client is still setting up.
seeSignalAtOnce ==
  /\ pending /\ held = 0
  /\ pending' = FALSE
  /\ held' = size
  /\ UNCHANGED <<client, todo, outcome, typed, size, watching, resizes, sock, daemonVars>>

\* The watcher reads the size the terminal has by now.  It is not polled before
\* the client's first await, on the runtime's only thread.
seeSignal ==
  /\ pending /\ held = 0 /\ client # "watching"
  /\ pending' = FALSE
  /\ held' = size
  /\ UNCHANGED <<client, todo, outcome, typed, size, watching, resizes, sock, daemonVars>>

\* Faulty variant: try_send, and a full channel loses the size.
tellSizeTries ==
  /\ held # 0
  /\ resizes' = IF Len(resizes) < ResizeCap THEN Append(resizes, held) ELSE resizes
  /\ held' = 0
  /\ UNCHANGED <<client, todo, outcome, typed, size, watching, pending, sock, daemonVars>>

\* Faulty variant: a channel without a limit.
tellSizeUnbounded ==
  /\ held # 0
  /\ resizes' = Append(resizes, held)
  /\ held' = 0
  /\ UNCHANGED <<client, todo, outcome, typed, size, watching, pending, sock, daemonVars>>

\* tx.send waits for a slot; meanwhile further signals become one.
tellSize ==
  /\ held # 0 /\ Len(resizes) < ResizeCap
  /\ resizes' = Append(resizes, held)
  /\ held' = 0
  /\ UNCHANGED <<client, todo, outcome, typed, size, watching, pending, sock, daemonVars>>

-------------------------------------------------------------------------------
(* The daemon's side.                                                        *)

clientVars == <<client, todo, outcome, typed, watchVars>>

\* handle_client takes the next message.  A size waits for the control channel.
handle ==
  LET msg == Head(sock)
  IN  /\ open /\ ~blocked /\ sock # <<>>
      /\ sock' = Tail(sock)
      /\ CASE msg.type = "attach" -> attached' = TRUE /\ UNCHANGED <<pushed, ctl>>
           [] msg.type = "detach" -> attached' = FALSE /\ UNCHANGED <<pushed, ctl>>
           [] msg.type = "push"   -> pushed' = pushed \o msg.content
                                     /\ UNCHANGED <<attached, ctl>>
           [] OTHER               -> /\ Len(ctl) < CtlCap
                                     /\ ctl' = Append(ctl, msg.content)
                                     /\ UNCHANGED <<attached, pushed>>
      /\ UNCHANGED <<clientVars, open, blocked, serving, ptySize>>

\* More output than the socket holds: the handler waits in write_all.
fillSocket ==
  /\ open /\ attached /\ ~blocked
  /\ blocked' = TRUE
  /\ UNCHANGED <<clientVars, sock, open, attached, pushed, serving, ctl, ptySize>>

\* The client reads from the socket, and write_all ends.
readOutput ==
  /\ client = "loop" /\ blocked
  /\ blocked' = FALSE
  /\ UNCHANGED <<clientVars, sock, open, attached, pushed, serving, ctl, ptySize>>

\* The client has gone: write_all fails and the handler returns.
writeFails ==
  /\ blocked /\ client \in Outcomes
  /\ open' = FALSE /\ attached' = FALSE /\ blocked' = FALSE
  /\ UNCHANGED <<clientVars, sock, pushed, serving, ctl, ptySize>>

\* The event loop: pty.resize.
setSize ==
  /\ serving /\ ctl # <<>>
  /\ ptySize' = Head(ctl)
  /\ ctl' = Tail(ctl)
  /\ UNCHANGED <<clientVars, sock, open, attached, blocked, pushed, serving>>

\* pty.read has failed, or a signal has come: the loop takes no command any
\* more, whatever it waits for.
endLoop ==
  /\ serving
  /\ serving' = FALSE
  /\ UNCHANGED <<clientVars, sock, open, attached, blocked, pushed, ctl, ptySize>>

\* The daemon ends, or drops this client.
hangUp ==
  /\ open
  /\ open' = FALSE /\ blocked' = FALSE
  /\ UNCHANGED <<clientVars, sock, attached, pushed, serving, ctl, ptySize>>

-------------------------------------------------------------------------------

SetUpStep   == spawn_watcher \/ handshake
SendStep    == sendOne \/ sendDone \/ sendFails
InputStep   == inputEnds \/ \E chunk \in Chunks : input(chunk)
WatcherStep == seeSignal \/ tellSize
WriteStep   == fillSocket \/ readOutput \/ writeFails

Next ==
  \/ SetUpStep \/ SendStep \/ InputStep \/ takeResize \/ seeEnd
  \/ resize \/ WatcherStep
  \/ handle \/ WriteStep \/ setSize \/ endLoop \/ hangUp

Spec == Init /\ [][Next]_vars

\* Tasks that can move are polled, and select! picks a branch that is ready
\* again and again: at the client the watcher's channel and the output, at the
\* handler the messages, whatever output keeps it waiting in between.  The user,
\* the terminal, the program's output and the end of the loop owe nothing.
Fairness ==
  /\ WF_vars(SetUpStep) /\ WF_vars(SendStep) /\ WF_vars(seeEnd)
  /\ SF_vars(takeResize) /\ SF_vars(readOutput)
  /\ WF_vars(WatcherStep) /\ SF_vars(handle) /\ WF_vars(setSize)

FairSpec == Spec /\ Fairness

-------------------------------------------------------------------------------

\* Socket and channels stay within their limits, whoever waits for them.
TypeOK ==
  /\ client \in {"start", "watching", "sending", "loop"} \cup Outcomes
  /\ outcome \in {"loop"} \cup Outcomes
  /\ typed \in Seq(Byte) /\ pushed \in Seq(Byte)
  /\ size \in 1 .. MaxSizes /\ held \in 0 .. MaxSizes /\ ptySize \in 0 .. MaxSizes
  /\ {watching, pending, open, attached, blocked, serving} \subseteq BOOLEAN
  /\ resizes \in Seq(1 .. MaxSizes) /\ Len(resizes) <= ResizeCap
  /\ Len(sock) <= SockCap
  /\ ctl \in Seq(1 .. MaxSizes) /\ Len(ctl) <= CtlCap

\* What comes before the first special character.
Keys(bytes) ==
  LET at == {i \in 1 .. Len(bytes) : bytes[i].is # "key"}
  IN  IF at = {} THEN bytes ELSE SubSeq(bytes, 1, First(at) - 1)

\* The input a message carries.
KeysIn(msg) == IF msg.type = "push" THEN msg.content ELSE <<>>

\* keys is what was pushed and then what the messages on their way carry, cut
\* into these pieces and in this order.
IsCutInto(keys, done, msgs) ==
  \E cut \in [0 .. Len(msgs) -> 0 .. Len(keys)] :
    /\ cut[0] = Len(done) /\ done = SubSeq(keys, 1, cut[0])
    /\ \A i \in 1 .. Len(msgs) :
         cut[i - 1] <= cut[i] /\ KeysIn(msgs[i]) = SubSeq(keys, cut[i - 1] + 1, cut[i])
    /\ cut[Len(msgs)] = Len(keys)

\* However the terminal cuts the input, what is pushed is what was typed before
\* the first special character, and that character decides the outcome: nothing
\* behind it reaches the program, nothing before it is lost unless a send fails.
FirstSpecialWins ==
  /\ IsCutInto(Keys(typed), pushed, sock \o todo)
  /\ client \in {"detached", "suspended"} =>
       \E i \in 1 .. Len(typed) :
         /\ Len(Keys(typed)) = i - 1
         /\ client = "detached" => typed[i].is = "detach"
         /\ client = "suspended" => typed[i].is = "suspend"

\* When the handler has read everything a suspended client sent, it has no
\* receiver for it any more, and cannot be held up by a client that does not read.
SuspendedIsDetached ==
  client = "suspended" /\ sock = <<>> => ~attached

\* The program never sees the terminal go back to an earlier size.
SizesInOrder == [][ptySize' >= ptySize]_vars

\* Client and handler wait for each other, each to write into a full socket.
WritesBlock ==
  client = "sending" /\ todo # <<>> /\ Len(sock) = SockCap /\ blocked

\* When the terminal stops changing, the pty ends with its last size, however
\* the changes fell together with setting up, sending, output and full
\* channels, as long as the client and the event loop stay and do not lose each
\* other in two blocked writes.
SizeConverges ==
  <>[](client \in Outcomes \/ ~open \/ ~serving \/ WritesBlock \/ ptySize = size)
===============================================================================
