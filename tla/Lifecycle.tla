------------------------------- MODULE Lifecycle -------------------------------
(***************************************************************************)
(* The life of sessions as the commands of crates/cli/src/ (main.rs,       *)
(* spawn.rs, attach.rs, commands.rs) and the start and end of the daemons  *)
(* they spawn (daemon.rs, run) bring it about: the files of the session    *)
(* directory, which every process reads and changes on its own, and the    *)
(* ancestry chain of session/src/lib.rs, by which a client is kept out of  *)
(* the sessions it runs in.                                                *)
(*                                                                         *)
(* A command is a number, given in the order of invocation; the daemon it  *)
(* spawns, that daemon's child and the sockets and logs they create carry  *)
(* the number too.  A step is a system call or what lies between two.  What *)
(* a daemon does while it serves is Daemon's and Connection's.             *)
(***************************************************************************)
EXTENDS Naturals, Sequences, FiniteSets

CONSTANTS
  Path,       \* socket paths as the commands spell them
  File,       \* directory entries
  FileOf,     \* the entry a path leads to
  Segments,   \* what a path is split into at its colons
  Creatable,  \* paths whose name passes is_valid_bare_name
  None,       \* no command
  Menu,       \* bound: kinds and paths of the n-th command invoked
  MaxCmds,    \* bound: commands invoked
  MaxCrashes  \* bound: daemons that die without cleaning up

Cmd == 1 .. MaxCmds
Kinds == {"start", "new", "default", "attach", "rm", "kill"}

Segment == UNION {{Segments[p][i] : i \in 1 .. Len(Segments[p])} : p \in Path}

ASSUME BoundsAssumption == MaxCmds \in Nat /\ MaxCrashes \in Nat
ASSUME MenuAssumption   == Menu \in [Cmd -> SUBSET (Kinds \X Path)]
ASSUME NoneAssumption   == None \notin Cmd
ASSUME PathAssumption   ==
  /\ FileOf \in [Path -> File] /\ Creatable \subseteq Path
  /\ Segments \in [Path -> Seq(Segment)]
  /\ \A p \in Path : Len(Segments[p]) > 0 /\ (Len(Segments[p]) = 1 => Segments[p][1] = p)

VARIABLES
  kind,      \* what a command is: start, new, default, attach, rm, kill
  target,    \* the path it names
  home,      \* the session it is typed in: a daemon, or None
  cmd,       \* where it is
  reached,   \* daemons it has been connected to
  daemon,    \* where the daemon a command spawned is
  chain,     \* HYTCH_SESSION in its program's environment, split at colons;
             \* empty until the program runs
  socketAt,  \* the daemon whose socket a directory entry is, or None
  logAt,     \* the daemon that created the log at an entry, or None
  logOf,     \* the log a daemon has opened, or None
  crashed,   \* history: daemons that died without cleaning up
  failed,    \* history: daemons whose start failed when the socket was there
  bound,     \* history: daemons that have bound a socket
  exposed,   \* history: daemons that came up while someone was removing
  lineage    \* history: the sessions a command runs in, its home outwards

cmdVars     == <<kind, target, home, lineage>>
dirVars     == <<socketAt, logAt>>
historyVars == <<crashed, failed, bound, exposed>>
daemonVars  == <<daemon, chain, logOf>>
vars == <<cmdVars, cmd, reached, daemonVars, dirVars, historyVars>>

Entry(c) == FileOf[target[c]]

\* The socket is listened on: connects succeed, whoever accepts them.
Listening(d) == daemon[d] \in {"listening", "serving", "ending"}

\* The daemon has bound its socket, and lives.
Up(d) == daemon[d] = "bound" \/ Listening(d)

\* rm commands that have found nobody listening at an entry and are still
\* removing what is there.
Removing(f) == {r \in Cmd : cmd[r] \in {"rmSocket", "rmLog"} /\ Entry(r) = f}

-------------------------------------------------------------------------------
(* The ancestry chain.                                                       *)

\* HYTCH_SESSION as a command finds it.
Env(c) == IF home[c] = None THEN <<>> ELSE chain[home[c]]

\* Faulty variant: the chain starts anew in every session.
extend_ancestry_forgets(current, path) == Segments[path]

\* Faulty variant: a path with a colon stays one piece, which reading the
\* variable back does not yield.
extend_ancestry_unsplit(current, path) == Append(current, path)

extend_ancestry(current, path) == current \o Segments[path]

\* Faulty variant: only the innermost session is compared.
ancestry_contains_last(current, path) == current # <<>> /\ current[Len(current)] = path

ancestry_contains(current, path) == \E i \in 1 .. Len(current) : current[i] = path

-------------------------------------------------------------------------------

Init ==
  /\ kind = [c \in Cmd |-> "none"]
  /\ target = [c \in Cmd |-> None]
  /\ home = [c \in Cmd |-> None]
  /\ cmd = [c \in Cmd |-> "idle"]
  /\ reached = [c \in Cmd |-> {}]
  /\ daemon = [d \in Cmd |-> "none"]
  /\ chain = [d \in Cmd |-> <<>>]
  /\ socketAt = [f \in File |-> None]
  /\ logAt = [f \in File |-> None]
  /\ logOf = [d \in Cmd |-> None]
  /\ crashed = {} /\ failed = {} /\ bound = {} /\ exposed = {}
  /\ lineage = [c \in Cmd |-> {}]

FirstStage(k) ==
  CASE k \in {"start", "new"} -> "creating"
    [] k = "default"          -> "looking"
    [] k = "attach"           -> "connecting"
    [] k = "rm"               -> "probing"
    [] k = "kill"             -> "aiming"

\* Someone types a command, in a plain shell or in a session's program.
invoke(c, k, p, h) ==
  /\ <<k, p>> \in Menu[c]
  /\ cmd[c] = "idle" /\ \A b \in Cmd : b < c => cmd[b] # "idle"
  /\ h # None => chain[h] # <<>>
  /\ kind' = [kind EXCEPT ![c] = k]
  /\ target' = [target EXCEPT ![c] = p]
  /\ home' = [home EXCEPT ![c] = h]
  /\ lineage' = [lineage EXCEPT ![c] = IF h = None THEN {} ELSE lineage[h] \cup {h}]
  /\ cmd' = [cmd EXCEPT ![c] = FirstStage(k)]
  /\ UNCHANGED <<reached, daemonVars, dirVars, historyVars>>

-------------------------------------------------------------------------------
(* start, new, attach and the default attach-or-create.                      *)

Goes(c, stage) == cmd' = [cmd EXCEPT ![c] = stage]

\* cmd_default: is there anything at the path?
look(c) ==
  /\ cmd[c] = "looking"
  /\ Goes(c, IF socketAt[Entry(c)] = None THEN "creating" ELSE "trying")
  /\ UNCHANGED <<cmdVars, reached, daemonVars, dirVars, historyVars>>

\* The default command before it has created anything: any failure of its
\* attach makes it create.
MayCreate(c) == kind[c] = "default" /\ daemon[c] = "none"

AttachFailed(c) == Goes(c, IF MayCreate(c) THEN "creating" ELSE "over")

\* attach_foreground: refused by self_attach_error, or a connect, which finds
\* nothing, a socket nobody listens on, or a daemon.
connect(c) ==
  LET d == socketAt[Entry(c)]
  IN  /\ cmd[c] \in {"trying", "connecting"}
      /\ IF ~ancestry_contains(Env(c), target[c]) /\ d # None /\ Listening(d)
         THEN Goes(c, "attached") /\ reached' = [reached EXCEPT ![c] = {d}]
         ELSE AttachFailed(c) /\ UNCHANGED reached
      /\ UNCHANGED <<cmdVars, daemonVars, dirVars, historyVars>>

\* The user detaches, or the input ends.
detach(c) ==
  /\ cmd[c] = "attached"
  /\ Goes(c, "over")
  /\ UNCHANGED <<cmdVars, reached, daemonVars, dirVars, historyVars>>

\* The daemon has closed the connection: exit code 90.
seeEnd(c) ==
  /\ cmd[c] = "attached" /\ \A d \in reached[c] : ~Listening(d)
  /\ Goes(c, "over")
  /\ UNCHANGED <<cmdVars, reached, daemonVars, dirVars, historyVars>>

\* The attach loop fails: a send to a daemon that is gone, or the terminal.
loopFails(c) ==
  /\ cmd[c] = "attached"
  /\ AttachFailed(c)
  /\ UNCHANGED <<cmdVars, reached, daemonVars, dirVars, historyVars>>

\* build_spawn_request refuses the name, or spawn_detached starts the daemon.
create(c) ==
  /\ cmd[c] = "creating"
  /\ IF target[c] \in Creatable
     THEN Goes(c, "waiting") /\ daemon' = [daemon EXCEPT ![c] = "starting"]
     ELSE Goes(c, "over") /\ UNCHANGED daemon
  /\ UNCHANGED <<cmdVars, reached, chain, logOf, dirVars, historyVars>>

\* wait_for_socket sees a socket, and takes it for the daemon's.
reportReady(c) ==
  /\ cmd[c] = "waiting" /\ socketAt[Entry(c)] # None
  /\ Goes(c, IF kind[c] = "start" THEN "started" ELSE "connecting")
  /\ UNCHANGED <<cmdVars, reached, daemonVars, dirVars, historyVars>>

\* child.wait(): the daemon has exited.
reportExit(c) ==
  /\ cmd[c] = "waiting" /\ daemon[c] = "gone"
  /\ Goes(c, "over")
  /\ UNCHANGED <<cmdVars, reached, daemonVars, dirVars, historyVars>>

\* Faulty variant, the regression the comment in the code tells of: the end
\* of the wait counts as success.
reportTimeoutOk(c) ==
  /\ cmd[c] = "waiting" /\ socketAt[Entry(c)] = None
  /\ Goes(c, IF kind[c] = "start" THEN "started" ELSE "connecting")
  /\ UNCHANGED <<cmdVars, reached, daemonVars, dirVars, historyVars>>

\* Three seconds without a socket.  The daemon may still come up.
reportTimeout(c) ==
  /\ cmd[c] = "waiting" /\ socketAt[Entry(c)] = None
  /\ Goes(c, "over")
  /\ UNCHANGED <<cmdVars, reached, daemonVars, dirVars, historyVars>>

-------------------------------------------------------------------------------
(* rm and kill.                                                              *)

\* Faulty variant: rm does not probe.
probeNothing(c) ==
  /\ cmd[c] = "probing"
  /\ Goes(c, "rmSocket")
  /\ exposed' = exposed \cup {d \in Cmd : daemon[d] \in {"opened", "bound"} /\ Entry(d) = Entry(c)}
  /\ UNCHANGED <<cmdVars, reached, daemonVars, dirVars, crashed, failed, bound>>

\* rm refuses a socket that is listened on.  A daemon that has opened its log
\* and is about to bind or to listen is not seen.
probe(c) ==
  LET d == socketAt[Entry(c)]
  IN  /\ cmd[c] = "probing"
      /\ IF d # None /\ Listening(d)
         THEN Goes(c, "over") /\ UNCHANGED exposed
         ELSE /\ Goes(c, "rmSocket")
              /\ exposed' = exposed \cup {e \in Cmd : daemon[e] \in {"opened", "bound"}
                                                   /\ Entry(e) = Entry(c)}
      /\ UNCHANGED <<cmdVars, reached, daemonVars, dirVars, crashed, failed, bound>>

removeSocket(c) ==
  /\ cmd[c] = "rmSocket"
  /\ socketAt' = [socketAt EXCEPT ![Entry(c)] = None]
  /\ Goes(c, "rmLog")
  /\ UNCHANGED <<cmdVars, reached, daemonVars, logAt, historyVars>>

removeLog(c) ==
  /\ cmd[c] = "rmLog"
  /\ logAt' = [logAt EXCEPT ![Entry(c)] = None]
  /\ Goes(c, "over")
  /\ UNCHANGED <<cmdVars, reached, daemonVars, socketAt, historyVars>>

\* kill: SIGTERM to whoever listens at the path.
aim(c) ==
  LET d == socketAt[Entry(c)]
  IN  /\ cmd[c] = "aiming"
      /\ IF d # None /\ Listening(d)
         THEN Goes(c, "waitTerm") /\ reached' = [reached EXCEPT ![c] = {d}]
         ELSE Goes(c, "over") /\ UNCHANGED reached
      /\ UNCHANGED <<cmdVars, daemonVars, dirVars, historyVars>>

\* wait_gone: nothing is at the path any more.
killGone(c) ==
  /\ cmd[c] \in {"waitTerm", "waitKill"} /\ socketAt[Entry(c)] = None
  /\ Goes(c, "stopped")
  /\ UNCHANGED <<cmdVars, reached, daemonVars, dirVars, historyVars>>

\* The grace period ends with a socket at the path: SIGKILL to whoever listens
\* there by now, which need not be the daemon that got the SIGTERM.
killTimeout(c) ==
  LET d == socketAt[Entry(c)]
  IN  /\ cmd[c] \in {"waitTerm", "waitKill"} /\ d # None
      /\ \/ /\ cmd[c] = "waitTerm"
            /\ Goes(c, "waitKill")
            /\ reached' = [reached EXCEPT ![c] = IF Listening(d) THEN @ \cup {d} ELSE @]
         \/ cmd[c] = "waitKill" /\ Goes(c, "over") /\ UNCHANGED reached
      /\ UNCHANGED <<cmdVars, daemonVars, dirVars, historyVars>>

-------------------------------------------------------------------------------
(* A daemon from its start to its end.                                       *)

Stage(d, stage) == daemon' = [daemon EXCEPT ![d] = stage]

\* Pty::spawn runs the program, with the chain of the sessions it is in.
\* SessionLog::open opens the log of whoever wrote there last, or a new one.
open(d) ==
  LET l == IF logAt[Entry(d)] = None THEN d ELSE logAt[Entry(d)]
  IN  /\ daemon[d] = "starting"
      /\ Stage(d, "opened")
      /\ chain' = [chain EXCEPT ![d] = extend_ancestry(Env(d), target[d])]
      /\ logAt' = [logAt EXCEPT ![Entry(d)] = l]
      /\ logOf' = [logOf EXCEPT ![d] = l]
      /\ exposed' = IF Removing(Entry(d)) # {} THEN exposed \cup {d} ELSE exposed
      /\ UNCHANGED <<cmdVars, cmd, reached, socketAt, crashed, failed, bound>>

\* No pty or no program of that name, or no log when the program runs already:
\* run() returns the error.
giveUp(d) ==
  /\ daemon[d] = "starting"
  /\ Stage(d, "gone")
  /\ \/ UNCHANGED chain
     \/ chain' = [chain EXCEPT ![d] = extend_ancestry(Env(d), target[d])]
  /\ UNCHANGED <<cmdVars, cmd, reached, logOf, dirVars, historyVars>>

\* Faulty variant: a socket in the way is replaced.
bindReplacing(d) ==
  /\ daemon[d] = "opened"
  /\ Stage(d, "bound")
  /\ socketAt' = [socketAt EXCEPT ![Entry(d)] = d]
  /\ bound' = bound \cup {d}
  /\ UNCHANGED <<cmdVars, cmd, reached, chain, logOf, logAt, crashed, failed, exposed>>

\* bind_listener: fails when there is anything at the path, and the daemon
\* exits; its child stays, because it has inherited the pty's master side.
bind(d) ==
  /\ daemon[d] = "opened"
  /\ IF socketAt[Entry(d)] # None
     THEN Stage(d, "gone") /\ UNCHANGED <<socketAt, bound, exposed>>
     ELSE /\ Stage(d, "bound")
          /\ socketAt' = [socketAt EXCEPT ![Entry(d)] = d]
          /\ bound' = bound \cup {d}
          /\ exposed' = IF \/ Removing(Entry(d)) # {}
                            \/ \E e \in Cmd : Up(e) /\ Entry(e) = Entry(d)
                        THEN exposed \cup {d} ELSE exposed
  /\ UNCHANGED <<cmdVars, cmd, reached, chain, logOf, logAt, crashed, failed>>

\* The second call of UnixListener::bind: until then connects are refused.
listen(d) ==
  /\ daemon[d] = "bound"
  /\ Stage(d, "listening")
  /\ UNCHANGED <<cmdVars, cmd, reached, chain, logOf, dirVars, historyVars>>

\* The rest of bind_listener, and the signal handlers: the loop begins.
setUp(d) ==
  /\ daemon[d] = "listening"
  /\ Stage(d, "serving")
  /\ UNCHANGED <<cmdVars, cmd, reached, chain, logOf, dirVars, historyVars>>

\* A call behind the bind fails, the way back to the working directory or a
\* signal handler: run() returns the error and leaves the socket.
startFails(d) ==
  /\ daemon[d] \in {"bound", "listening"}
  /\ Stage(d, "gone")
  /\ failed' = failed \cup {d}
  /\ UNCHANGED <<cmdVars, cmd, reached, chain, logOf, dirVars, crashed, bound, exposed>>

\* Faulty variant: the socket goes first, the log is completed after it.
stopUnlinks(d) ==
  /\ daemon[d] = "serving"
  /\ Stage(d, "ending")
  /\ socketAt' = [socketAt EXCEPT ![Entry(d)] = None]
  /\ UNCHANGED <<cmdVars, cmd, reached, chain, logOf, logAt, historyVars>>

\* The loop ends, because of the child or of a signal to the daemon.
stop(d) ==
  /\ daemon[d] = "serving"
  /\ Stage(d, "ending")
  /\ UNCHANGED <<cmdVars, cmd, reached, chain, logOf, dirVars, historyVars>>

\* Faulty variant: a daemon that ends leaves its socket to the next one.
unlinkNot(d) ==
  /\ daemon[d] = "ending"
  /\ Stage(d, "gone")
  /\ UNCHANGED <<cmdVars, cmd, reached, chain, logOf, dirVars, historyVars>>

\* The log is complete: whatever is at the path is removed, and the process
\* exits.
unlink(d) ==
  /\ daemon[d] = "ending"
  /\ Stage(d, "gone")
  /\ socketAt' = [socketAt EXCEPT ![Entry(d)] = None]
  /\ UNCHANGED <<cmdVars, cmd, reached, chain, logOf, logAt, historyVars>>

\* SIGKILL, a panic or the end of the machine.
crash(d) ==
  /\ daemon[d] \notin {"none", "gone"} /\ Cardinality(crashed) < MaxCrashes
  /\ Stage(d, "gone")
  /\ crashed' = crashed \cup {d}
  /\ UNCHANGED <<cmdVars, cmd, reached, chain, logOf, dirVars, failed, bound, exposed>>

-------------------------------------------------------------------------------

AttachStep(c) == look(c) \/ connect(c) \/ detach(c) \/ seeEnd(c) \/ loopFails(c)
CreateStep(c) == create(c) \/ reportReady(c) \/ reportExit(c) \/ reportTimeout(c)
RmStep(c)     == probe(c) \/ removeSocket(c) \/ removeLog(c)
KillStep(c)   == aim(c) \/ killGone(c) \/ killTimeout(c)

DaemonStep(d) ==
  \/ open(d) \/ giveUp(d) \/ bind(d) \/ listen(d) \/ setUp(d) \/ startFails(d)
  \/ stop(d) \/ unlink(d) \/ crash(d)

Next ==
  \E c \in Cmd :
    \/ \E k \in Kinds, p \in Path, h \in Cmd \cup {None} : invoke(c, k, p, h)
    \/ AttachStep(c) \/ CreateStep(c) \/ RmStep(c) \/ KillStep(c)
    \/ DaemonStep(c)

Spec == Init /\ [][Next]_vars

-------------------------------------------------------------------------------

Stages == {"idle", "looking", "trying", "creating", "waiting", "connecting", "attached",
           "started", "over", "probing", "rmSocket", "rmLog",
           "aiming", "waitTerm", "waitKill", "stopped"}

\* Every process is at one of its stages; a socket is that of a daemon that has
\* bound one, a log that of a daemon that has opened one; and who has been
\* connected to has bound a socket, and was connected to by a command.
TypeOK ==
  /\ kind \in [Cmd -> Kinds \cup {"none"}] /\ target \in [Cmd -> Path \cup {None}]
  /\ home \in [Cmd -> Cmd \cup {None}] /\ lineage \in [Cmd -> SUBSET Cmd]
  /\ cmd \in [Cmd -> Stages] /\ reached \in [Cmd -> SUBSET Cmd]
  /\ daemon \in [Cmd -> {"none", "starting", "opened", "bound", "listening", "serving",
                      "ending", "gone"}]
  /\ chain \in [Cmd -> Seq(Segment)]
  /\ socketAt \in [File -> Cmd \cup {None}] /\ logAt \in [File -> Cmd \cup {None}]
  /\ logOf \in [Cmd -> Cmd \cup {None}]
  /\ crashed \subseteq Cmd /\ failed \subseteq Cmd /\ bound \subseteq Cmd
  /\ exposed \subseteq Cmd
  /\ \A f \in File :
       /\ socketAt[f] # None => socketAt[f] \in bound
       /\ logAt[f] # None => daemon[logAt[f]] \notin {"none", "starting"}
  /\ \A c \in Cmd : reached[c] \subseteq (IF cmd[c] = "idle" THEN {} ELSE bound)
  /\ Cardinality(crashed) <= MaxCrashes

\* A session that is served can be reached: its name leads to its socket, and
\* the log there is the one it writes.  It may lose them only to an rm that
\* was at work while it came up, or to the end of a daemon that had itself
\* lost its socket.
ServedIsReachable ==
  \A d \in Cmd : Up(d) /\ d \notin exposed =>
    socketAt[Entry(d)] = d /\ logAt[Entry(d)] = logOf[d]

\* A socket that nobody will listen on any more, and that keeps the next daemon
\* from binding, is left by a crash, or by a start that failed when the socket
\* was there: a daemon that serves to its end, or fails before it has bound,
\* leaves nothing in the way.
StaleNeedsFailure ==
  \A f \in File : socketAt[f] # None =>
    Up(socketAt[f]) \/ socketAt[f] \in crashed \cup failed

\* A success that start, new or the default command reports is that of a
\* daemon that has come up at its path, though not always its own.
SuccessHasSocket ==
  \A c \in Cmd :
    cmd[c] = "started" \/ (cmd[c] = "connecting" /\ daemon[c] # "none") =>
      \E d \in bound : Entry(d) = Entry(c)

\* Of the daemons a kill has signalled one at most still serves, and none when
\* it has reported the session stopped, unless they came up during an rm.
KillReportIsTrue ==
  \A k \in Cmd : cmd[k] \in {"waitKill", "stopped"} =>
    LET left == {d \in reached[k] : Listening(d)} \ exposed
    IN  Cardinality(left) <= 1 /\ (cmd[k] = "stopped" => left = {})

\* No client is attached to a session it runs in, however deep, when it names
\* the session as the command that created it did, with a name free of colons.
NoSelfAttach ==
  \A c \in Cmd : cmd[c] = "attached" =>
    \A d \in reached[c] \cap lineage[c] :
      target[c] = target[d] => Len(Segments[target[c]]) > 1

\* spawn.rs on spawn_detached: it waits for the daemon's socket "so the caller
\* can report success/failure".  So a success is not reported on account of a
\* socket that another daemon left when it died.
SuccessIsNotStale ==
  [][\A c \in Cmd : cmd[c] = "waiting" /\ cmd'[c] \in {"started", "connecting"} =>
       socketAt[Entry(c)] = c \/ socketAt[Entry(c)] \notin crashed]_vars
===============================================================================
