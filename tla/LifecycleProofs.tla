--------------------------- MODULE LifecycleProofs ---------------------------
(* Proofs about Lifecycle, for any paths, menu and number of commands.       *)
EXTENDS Lifecycle, FiniteSetTheorems, TLAPS

\* TypeOK without the number of crashes and whose the files are.
Types ==
  /\ kind \in [Cmd -> Kinds \cup {"none"}] /\ target \in [Cmd -> Path \cup {None}]
  /\ home \in [Cmd -> Cmd \cup {None}] /\ lineage \in [Cmd -> SUBSET Cmd]
  /\ cmd \in [Cmd -> Stages] /\ reached \in [Cmd -> SUBSET Cmd]
  /\ daemon \in [Cmd -> {"none", "starting", "opened", "bound", "listening", "serving",
                      "ending", "gone"}]
  /\ chain \in [Cmd -> Seq(Segment)]
  /\ socketAt \in [File -> Cmd \cup {None}] /\ logAt \in [File -> Cmd \cup {None}]
  /\ logOf \in [Cmd -> Cmd \cup {None}]
  /\ crashed \subseteq Cmd /\ failed \subseteq Cmd /\ bound \subseteq Cmd
  /\ exposed \subseteq Cmd

\* A command that was invoked has a path, it has no daemon before it has created
\* one, and only a daemon that has started a program has a chain.
BaseInv ==
  /\ \A c \in Cmd : cmd[c] # "idle" => target[c] \in Path
  /\ \A c \in Cmd : cmd[c] \in {"idle", "looking", "creating"} => daemon[c] = "none"
  /\ \A c \in Cmd : home[c] # None => chain[home[c]] # <<>>
  /\ \A c \in Cmd : chain[c] # <<>> => daemon[c] \notin {"none", "starting"}
  /\ \A c \in Cmd : home[c] # None => cmd[c] # "idle"

Core == Types /\ BaseInv

\* The chain a program is given is a sequence of segments, and not empty.
LEMMA ChainType ==
  ASSUME Types, NEW d \in Cmd, target[d] \in Path
  PROVE  /\ extend_ancestry(Env(d), target[d]) \in Seq(Segment)
         /\ extend_ancestry(Env(d), target[d]) # <<>>
<1>1. Env(d) \in Seq(Segment)
  BY DEF Types, Env
<1>2. Segments[target[d]] \in Seq(Segment) /\ Len(Segments[target[d]]) > 0
  BY PathAssumption
<1>. QED
  BY <1>1, <1>2 DEF extend_ancestry

\* The entry of a command that was invoked is one of the directory's.
LEMMA EntryIsFile ==
  ASSUME Core, NEW c \in Cmd, cmd[c] # "idle" \/ daemon[c] # "none"
  PROVE  target[c] \in Path /\ Entry(c) \in File
<1>1. target[c] \in Path
  BY DEF Core, BaseInv
<1>. QED
  BY <1>1, PathAssumption DEF Entry

LEMMA CoreInit == Init => Core
BY DEF Init, Core, Types, BaseInv, Stages

-------------------------------------------------------------------------------
(* What the steps of a process leave alone.                                  *)

CommandStep(c) == AttachStep(c) \/ CreateStep(c) \/ RmStep(c) \/ KillStep(c)

\* A command goes on to another stage; of the rest it changes what it has been
\* connected to, its own daemon, and the directory.
CommandMoves(c) ==
  /\ cmd[c] # "idle"
  /\ cmd'[c] \in Stages \ {"idle"} /\ cmd' = [cmd EXCEPT ![c] = cmd'[c]]
  /\ cmd'[c] \in {"looking", "creating"} => daemon'[c] = "none"
  /\ UNCHANGED <<cmdVars, chain, logOf, crashed, failed, bound>>
  /\ \/ daemon' = daemon
     \/ daemon[c] = "none" /\ daemon' = [daemon EXCEPT ![c] = "starting"]

DirTypes ==
  /\ reached \in [Cmd -> SUBSET Cmd]
  /\ socketAt \in [File -> Cmd \cup {None}] /\ logAt \in [File -> Cmd \cup {None}]
  /\ exposed \subseteq Cmd

LEMMA CommandFrame ==
  ASSUME Core, NEW c \in Cmd, CommandStep(c)
  PROVE  CommandMoves(c) /\ DirTypes'
<1>. Types /\ (cmd[c] \in {"idle", "looking", "creating"} => daemon[c] = "none")
  BY DEF Core, BaseInv
<1>. USE DEF Types, CommandMoves, DirTypes, Goes, Stages
<1>1. CASE look(c)
  BY <1>1 DEF look, daemonVars, dirVars, historyVars
<1>2. CASE connect(c)
  <2>1. Entry(c) \in File
    BY <1>2, EntryIsFile DEF connect
  <2>2. CommandMoves(c)
    BY <1>2 DEF connect, AttachFailed, MayCreate, daemonVars, historyVars
  <2>3. socketAt[Entry(c)] \in Cmd \cup {None}
    BY <2>1
  <2>4. \/ UNCHANGED reached
        \/ /\ socketAt[Entry(c)] # None
           /\ reached' = [reached EXCEPT ![c] = {socketAt[Entry(c)]}]
    BY <1>2 DEF connect
  <2>5. reached' \in [Cmd -> SUBSET Cmd]
    <3>1. reached \in [Cmd -> SUBSET Cmd]
      OBVIOUS
    <3>2. socketAt[Entry(c)] \in Cmd \/ UNCHANGED reached
      BY <2>3, <2>4
    <3>. QED
      BY ONLY <2>4, <3>1, <3>2, c \in Cmd
  <2>6. UNCHANGED <<dirVars, historyVars>>
    BY <1>2 DEF connect
  <2>. QED
    BY <2>2, <2>5, <2>6 DEF dirVars, historyVars
<1>3. CASE detach(c)
  BY <1>3 DEF detach, daemonVars, dirVars, historyVars
<1>4. CASE seeEnd(c)
  BY <1>4 DEF seeEnd, daemonVars, dirVars, historyVars
<1>5. CASE loopFails(c)
  BY <1>5 DEF loopFails, AttachFailed, MayCreate, daemonVars, dirVars, historyVars
<1>6. CASE create(c)
  BY <1>6 DEF create, dirVars, historyVars
<1>7. CASE reportReady(c)
  BY <1>7 DEF reportReady, daemonVars, dirVars, historyVars
<1>8. CASE reportExit(c)
  BY <1>8 DEF reportExit, daemonVars, dirVars, historyVars
<1>9. CASE reportTimeout(c)
  BY <1>9 DEF reportTimeout, daemonVars, dirVars, historyVars
<1>10. CASE probe(c)
  BY <1>10 DEF probe, daemonVars, dirVars, historyVars
<1>11. CASE removeSocket(c)
  BY <1>11 DEF removeSocket, daemonVars, historyVars
<1>12. CASE removeLog(c)
  BY <1>12 DEF removeLog, daemonVars, historyVars
<1>13. CASE aim(c)
  <2>1. Entry(c) \in File
    BY <1>13, EntryIsFile DEF aim
  <2>2. CommandMoves(c)
    BY <1>13 DEF aim, daemonVars, historyVars
  <2>3. socketAt[Entry(c)] \in Cmd \cup {None}
    BY <2>1
  <2>4. \/ UNCHANGED reached
        \/ /\ socketAt[Entry(c)] # None
           /\ reached' = [reached EXCEPT ![c] = {socketAt[Entry(c)]}]
    BY <1>13 DEF aim
  <2>5. reached' \in [Cmd -> SUBSET Cmd]
    <3>1. reached \in [Cmd -> SUBSET Cmd]
      OBVIOUS
    <3>2. socketAt[Entry(c)] \in Cmd \/ UNCHANGED reached
      BY <2>3, <2>4
    <3>. QED
      BY ONLY <2>4, <3>1, <3>2, c \in Cmd
  <2>6. UNCHANGED <<dirVars, historyVars>>
    BY <1>13 DEF aim
  <2>. QED
    BY <2>2, <2>5, <2>6 DEF dirVars, historyVars
<1>14. CASE killGone(c)
  BY <1>14 DEF killGone, daemonVars, dirVars, historyVars
<1>15. CASE killTimeout(c)
  <2>1. Entry(c) \in File
    BY <1>15, EntryIsFile DEF killTimeout
  <2>2. CommandMoves(c)
    BY <1>15 DEF killTimeout, daemonVars, historyVars
  <2>3. socketAt[Entry(c)] \in Cmd \cup {None} /\ socketAt[Entry(c)] # None
    BY <1>15, <2>1 DEF killTimeout
  <2>4. \/ UNCHANGED reached
        \/ reached' = [reached EXCEPT ![c] = @ \cup {socketAt[Entry(c)]}]
    BY <1>15 DEF killTimeout
  <2>5. reached' \in [Cmd -> SUBSET Cmd]
    <3>1. reached \in [Cmd -> SUBSET Cmd]
      OBVIOUS
    <3>2. socketAt[Entry(c)] \in Cmd \/ UNCHANGED reached
      BY <2>3, <2>4
    <3>. QED
      BY ONLY <2>4, <3>1, <3>2, c \in Cmd
  <2>6. UNCHANGED <<dirVars, historyVars>>
    BY <1>15 DEF killTimeout
  <2>. QED
    BY <2>2, <2>5, <2>6 DEF dirVars, historyVars
<1>. QED
  BY <1>1, <1>2, <1>3, <1>4, <1>5, <1>6, <1>7, <1>8, <1>9, <1>10, <1>11, <1>12, <1>13,
     <1>14, <1>15 DEF CommandStep, AttachStep, CreateStep, RmStep, KillStep

\* A daemon goes on to another stage and leaves the commands alone.
DaemonMoves(d) ==
  /\ daemon[d] # "none"
  /\ daemon'[d] \in {"opened", "bound", "listening", "serving", "ending", "gone"}
  /\ daemon' = [daemon EXCEPT ![d] = daemon'[d]]
  /\ UNCHANGED <<cmdVars, cmd, reached>>
  /\ \/ UNCHANGED chain
     \/ /\ daemon[d] = "starting"
        /\ chain' = [chain EXCEPT ![d] = extend_ancestry(Env(d), target[d])]

FileTypes ==
  /\ socketAt \in [File -> Cmd \cup {None}] /\ logAt \in [File -> Cmd \cup {None}]
  /\ logOf \in [Cmd -> Cmd \cup {None}]
  /\ crashed \subseteq Cmd /\ failed \subseteq Cmd /\ bound \subseteq Cmd
  /\ exposed \subseteq Cmd

LEMMA DaemonFrame ==
  ASSUME Core, NEW d \in Cmd, DaemonStep(d)
  PROVE  DaemonMoves(d) /\ FileTypes'
<1>. Types
  BY DEF Core
<1>. USE DEF Types, DaemonMoves, FileTypes, Stage
<1>1. CASE open(d)
  BY <1>1, EntryIsFile DEF open
<1>2. CASE giveUp(d)
  BY <1>2 DEF giveUp, dirVars, historyVars
<1>3. CASE bind(d)
  BY <1>3, ZenonT(40) DEF bind
<1>4. CASE listen(d)
  BY <1>4 DEF listen, dirVars, historyVars
<1>5. CASE setUp(d) \/ stop(d)
  BY <1>5 DEF setUp, stop, dirVars, historyVars
<1>6. CASE unlink(d)
  BY <1>6 DEF unlink, historyVars
<1>7. CASE crash(d) \/ startFails(d)
  BY <1>7 DEF crash, startFails, dirVars
<1>. QED
  BY <1>1, <1>2, <1>3, <1>4, <1>5, <1>6, <1>7 DEF DaemonStep

\* Every step is an invocation, or one of a command or of a daemon.
LEMMA NextCases ==
  ASSUME Next
  PROVE  \/ \E c \in Cmd, k \in Kinds, p \in Path, h \in Cmd \cup {None} : invoke(c, k, p, h)
         \/ \E c \in Cmd : CommandStep(c)
         \/ \E d \in Cmd : DaemonStep(d)
BY DEF Next, CommandStep

-------------------------------------------------------------------------------

LEMMA CoreStep ==
  ASSUME Core, [Next]_vars
  PROVE  Core'
<1>1. CASE UNCHANGED vars
  BY <1>1 DEF vars, Core, Types, BaseInv, cmdVars, dirVars, historyVars, daemonVars
<1>2. ASSUME NEW c \in Cmd, NEW k \in Kinds, NEW p \in Path, NEW h \in Cmd \cup {None},
             invoke(c, k, p, h)
      PROVE  Core'
  BY <1>2, NoneAssumption DEF Core, Types, BaseInv, Stages, invoke, FirstStage, Kinds, dirVars,
     historyVars, daemonVars
<1>3. ASSUME NEW c \in Cmd, CommandStep(c)
      PROVE  Core'
  <2>1. CommandMoves(c) /\ DirTypes'
    BY <1>3, CommandFrame
  <2>2. Types'
    BY <2>1 DEF Core, Types, CommandMoves, DirTypes, cmdVars
  <2>3. BaseInv'
    BY <2>1, NoneAssumption DEF Core, Types, BaseInv, CommandMoves, cmdVars
  <2>. QED
    BY <2>2, <2>3 DEF Core
<1>4. ASSUME NEW d \in Cmd, DaemonStep(d)
      PROVE  Core'
  <2>1. DaemonMoves(d) /\ FileTypes'
    BY <1>4, DaemonFrame
  <2>2. target[d] \in Path
    BY <2>1 DEF Core, BaseInv, DaemonMoves
  <2>3. /\ extend_ancestry(Env(d), target[d]) \in Seq(Segment)
        /\ extend_ancestry(Env(d), target[d]) # <<>>
    BY <2>2, ChainType DEF Core
  <2>4. chain' \in [Cmd -> Seq(Segment)]
    BY <2>1, <2>3 DEF Core, Types, DaemonMoves
  <2>6. Types'
    BY <2>1, <2>4, ZenonT(40) DEF Core, Types, DaemonMoves, FileTypes, cmdVars
  <2>5. BaseInv'
    BY <2>1, <2>3, NoneAssumption DEF Core, Types, BaseInv, DaemonMoves, cmdVars
  <2>. QED
    BY <2>5, <2>6 DEF Core
<1>. QED
  BY <1>1, <1>2, <1>3, <1>4, NextCases

\* What a command was invoked with stays, and so does the chain of a program.
Stable(c) ==
  /\ cmd[c] # "idle" =>
       /\ cmd'[c] # "idle" /\ kind'[c] = kind[c] /\ target'[c] = target[c]
       /\ home'[c] = home[c] /\ lineage'[c] = lineage[c]
       /\ Entry(c)' = Entry(c)
  /\ chain[c] # <<>> => chain'[c] = chain[c]

LEMMA Stability ==
  ASSUME Core, [Next]_vars
  PROVE  \A c \in Cmd : Stable(c)
<1>. USE DEF Stable, Entry
<1>1. CASE UNCHANGED vars
  BY <1>1 DEF vars, cmdVars, daemonVars
<1>2. ASSUME NEW c \in Cmd, NEW k \in Kinds, NEW p \in Path, NEW h \in Cmd \cup {None},
             invoke(c, k, p, h)
      PROVE  \A b \in Cmd : Stable(b)
  BY <1>2 DEF Core, Types, invoke, daemonVars
<1>3. ASSUME NEW c \in Cmd, CommandStep(c)
      PROVE  \A b \in Cmd : Stable(b)
  BY <1>3, CommandFrame DEF Core, Types, CommandMoves, cmdVars
<1>4. ASSUME NEW d \in Cmd, DaemonStep(d)
      PROVE  \A b \in Cmd : Stable(b)
  BY <1>4, DaemonFrame DEF Core, Types, BaseInv, DaemonMoves, cmdVars
<1>. QED
  BY <1>1, <1>2, <1>3, <1>4, NextCases

-------------------------------------------------------------------------------
(* The ancestry chain.                                                       *)

\* The chain a program has leads through all the sessions it runs in, as far as
\* their names are one segment; an attached client has passed the guard.
AncestryInv ==
  /\ \A c \in Cmd :
       lineage[c] = IF home[c] = None THEN {} ELSE lineage[home[c]] \cup {home[c]}
  /\ \A c \in Cmd : \A d \in lineage[c] : chain[d] # <<>>
  /\ \A h \in Cmd : chain[h] # <<>> =>
       \A d \in lineage[h] \cup {h} :
         Len(Segments[target[d]]) = 1 => ancestry_contains(chain[h], target[d])
  /\ \A c \in Cmd : cmd[c] = "attached" => ~ancestry_contains(Env(c), target[c])

\* A segment of either part is one of a chain that is extended.
LEMMA ContainsExtended ==
  ASSUME NEW s \in Seq(Segment), NEW t \in Seq(Segment), NEW p,
         ancestry_contains(s, p) \/ ancestry_contains(t, p)
  PROVE  ancestry_contains(s \o t, p)
<1>1. CASE ancestry_contains(s, p)
  <2>1. PICK i \in 1 .. Len(s) : s[i] = p
    BY <1>1 DEF ancestry_contains
  <2>2. i \in 1 .. Len(s \o t) /\ (s \o t)[i] = p
    BY <2>1
  <2>. QED
    BY <2>2 DEF ancestry_contains
<1>2. CASE ancestry_contains(t, p)
  <2>1. PICK i \in 1 .. Len(t) : t[i] = p
    BY <1>2 DEF ancestry_contains
  <2>2. Len(s) + i \in 1 .. Len(s \o t) /\ (s \o t)[Len(s) + i] = p
    BY <2>1
  <2>. QED
    BY <2>2 DEF ancestry_contains
<1>. QED
  BY <1>1, <1>2

\* Only connect attaches, behind the guard.
LEMMA GuardPassed ==
  ASSUME Types, NEW c \in Cmd, CommandStep(c), cmd'[c] = "attached"
  PROVE  ~ancestry_contains(Env(c), target[c])
<1>. cmd \in [Cmd -> Stages]
  BY DEF Types
<1>1. ~CreateStep(c)
  BY DEF CreateStep, create, reportReady, reportExit, reportTimeout, Goes
<1>2. ~RmStep(c)
  BY DEF RmStep, probe, removeSocket, removeLog, Goes
<1>3. ~KillStep(c)
  BY DEF KillStep, aim, killGone, killTimeout, Goes
<1>4. ~(look(c) \/ detach(c) \/ seeEnd(c) \/ loopFails(c))
  BY DEF look, detach, seeEnd, loopFails, AttachFailed, Goes
<1>5. connect(c)
  BY <1>1, <1>2, <1>3, <1>4 DEF CommandStep, AttachStep
<1>. QED
  BY <1>5 DEF connect, AttachFailed, Goes

LEMMA AncestryInit == Init => AncestryInv
BY DEF Init, AncestryInv

LEMMA AncestryStep ==
  ASSUME Core, AncestryInv, [Next]_vars
  PROVE  AncestryInv'
<1>. DEFINE Lines   == \A c \in Cmd :
                         lineage[c] = IF home[c] = None THEN {}
                                      ELSE lineage[home[c]] \cup {home[c]}
            Running == \A c \in Cmd : \A d \in lineage[c] : chain[d] # <<>>
            Leads(h) == \A d \in lineage[h] \cup {h} :
                          Len(Segments[target[d]]) = 1 => ancestry_contains(chain[h], target[d])
            Guarded == \A c \in Cmd : cmd[c] = "attached" =>
                         ~ancestry_contains(Env(c), target[c])
<1>1. \A c \in Cmd : Stable(c)
  BY Stability
<1>2. /\ Types /\ BaseInv /\ Types' /\ BaseInv'
      /\ Lines /\ Running /\ Guarded
      /\ \A h \in Cmd : chain[h] # <<>> => Leads(h)
  BY CoreStep DEF Core, AncestryInv
<1>3. \A c \in Cmd : chain[c] # <<>> => cmd[c] # "idle"
  BY <1>2 DEF Types, BaseInv
<1>4. \A c \in Cmd : \A d \in lineage[c] :
        /\ d \in Cmd /\ chain[d] # <<>> /\ target'[d] = target[d] /\ chain'[d] = chain[d]
        /\ lineage'[d] = lineage[d]
  BY <1>1, <1>2, <1>3 DEF Types, Stable
<1>5. \A c \in Cmd : home[c] # None =>
        /\ home[c] \in Cmd /\ chain[home[c]] # <<>> /\ cmd[home[c]] # "idle"
        /\ chain'[home[c]] = chain[home[c]] /\ lineage'[home[c]] = lineage[home[c]]
        /\ target'[home[c]] = target[home[c]]
  BY <1>1, <1>2, <1>3 DEF Types, BaseInv, Stable
<1>6. CASE UNCHANGED vars
  BY <1>6 DEF vars, cmdVars, daemonVars, AncestryInv, Env
<1>7. ASSUME NEW c \in Cmd, NEW k \in Kinds, NEW p \in Path, NEW h \in Cmd \cup {None},
             invoke(c, k, p, h)
      PROVE  AncestryInv'
  <2>. /\ cmd[c] = "idle" /\ (h # None => chain[h] # <<>>) /\ UNCHANGED chain
       /\ target' = [target EXCEPT ![c] = p] /\ home' = [home EXCEPT ![c] = h]
       /\ lineage' = [lineage EXCEPT ![c] = IF h = None THEN {} ELSE lineage[h] \cup {h}]
       /\ cmd' = [cmd EXCEPT ![c] = FirstStage(k)] /\ FirstStage(k) # "attached"
    BY <1>7 DEF invoke, daemonVars, FirstStage, Kinds
  <2>. h # None => h \in Cmd /\ h # c
    BY <1>3
  <2>. \A b \in Cmd \ {c} : /\ target'[b] = target[b] /\ home'[b] = home[b]
                           /\ lineage'[b] = lineage[b] /\ cmd'[b] = cmd[b]
    BY <1>2 DEF Types
  <2>. /\ home'[c] = h /\ lineage'[c] = IF h = None THEN {} ELSE lineage[h] \cup {h}
       /\ cmd'[c] # "attached" /\ chain[c] = <<>>
    BY <1>2, <1>3 DEF Types
  <2>1. Lines'
    <3>1. lineage'[c] = IF home'[c] = None THEN {} ELSE lineage'[home'[c]] \cup {home'[c]}
      OBVIOUS
    <3>2. ASSUME NEW b \in Cmd \ {c}
          PROVE  lineage'[b] = IF home'[b] = None THEN {} ELSE lineage'[home'[b]] \cup {home'[b]}
      <4>1. lineage[b] = IF home[b] = None THEN {} ELSE lineage[home[b]] \cup {home[b]}
        BY <1>2
      <4>2. home[b] # None => lineage'[home[b]] = lineage[home[b]]
        BY <1>5
      <4>3. home'[b] = home[b] /\ lineage'[b] = lineage[b]
        OBVIOUS
      <4>. QED
        BY ONLY <4>1, <4>2, <4>3
    <3>. QED
      BY <3>1, <3>2
  <2>2. Running'
    BY <1>2
  <2>3. \A b \in Cmd : chain'[b] # <<>> => Leads(b)'
    BY <1>2, <1>4
  <2>4. Guarded'
    <3>. SUFFICES ASSUME NEW b \in Cmd, cmd'[b] = "attached"
                  PROVE  ~ancestry_contains(Env(b)', target'[b])
      OBVIOUS
    <3>. b # c
      OBVIOUS
    <3>. QED
      BY <1>2 DEF Env
  <2>. QED
    BY <2>1, <2>2, <2>3, <2>4 DEF AncestryInv
<1>8. ASSUME NEW c \in Cmd, CommandStep(c)
      PROVE  AncestryInv'
  <2>. UNCHANGED <<target, home, lineage, chain>>
    BY <1>8, CommandFrame DEF Core, CommandMoves, cmdVars
  <2>1. Lines' /\ Running' /\ \A b \in Cmd : chain'[b] # <<>> => Leads(b)'
    BY <1>2
  <2>2. Guarded'
    <3>. SUFFICES ASSUME NEW b \in Cmd, cmd'[b] = "attached"
                  PROVE  ~ancestry_contains(Env(b), target[b])
      BY DEF Env
    <3>1. CASE b = c
      BY <1>2, <1>8, <3>1, GuardPassed
    <3>2. CASE b # c
      <4>. cmd'[b] = cmd[b]
        BY <1>8, <3>2, CommandFrame DEF Core, Types, CommandMoves
      <4>. QED
        BY <1>2
    <3>. QED
      BY <3>1, <3>2
  <2>. QED
    BY <2>1, <2>2 DEF AncestryInv
<1>9. ASSUME NEW d \in Cmd, DaemonStep(d)
      PROVE  AncestryInv'
  <2>1. DaemonMoves(d)
    BY <1>9, DaemonFrame
  <2>. UNCHANGED <<target, home, lineage, cmd>>
    BY <2>1 DEF DaemonMoves, cmdVars
  <2>2. Lines' /\ Running'
    BY <1>2, <1>4
  <2>3. ASSUME NEW b \in Cmd, chain'[b] # <<>>
        PROVE  Leads(b)'
    <3>1. CASE chain'[b] = chain[b]
      BY <1>2, <2>3, <3>1
    <3>2. CASE chain'[b] # chain[b]
      <4>1. /\ b = d /\ target[d] \in Path
            /\ chain'[d] = Env(d) \o Segments[target[d]]
        BY <1>2, <2>1, <3>2, EntryIsFile DEF DaemonMoves, Core, Types, extend_ancestry
      <4>2. Env(d) \in Seq(Segment) /\ Segments[target[d]] \in Seq(Segment)
        BY <1>2, <4>1, PathAssumption DEF Types, Env
      <4>3. ASSUME NEW e \in lineage[d], Len(Segments[target[e]]) = 1
            PROVE  ancestry_contains(Env(d), target[e])
        BY <1>2, <1>5, <4>3 DEF Env
      <4>4. ASSUME Len(Segments[target[d]]) = 1
            PROVE  ancestry_contains(Segments[target[d]], target[d])
        BY <4>1, <4>4, PathAssumption DEF ancestry_contains
      <4>. QED
        BY <4>1, <4>2, <4>3, <4>4, ContainsExtended
    <3>. QED
      BY <3>1, <3>2
  <2>4. Guarded'
    <3>. SUFFICES ASSUME NEW b \in Cmd, cmd[b] = "attached"
                  PROVE  Env(b)' = Env(b)
      BY <1>2
    <3>. QED
      BY <1>5 DEF Env
  <2>. QED
    BY <2>2, <2>3, <2>4 DEF AncestryInv
<1>. QED
  BY <1>6, <1>7, <1>8, <1>9, NextCases

\* An attached client is in none of the sessions that it has reached.
LEMMA AncestryImplies == Core /\ AncestryInv => NoSelfAttach
<1>. SUFFICES ASSUME Core, AncestryInv, NEW c \in Cmd, cmd[c] = "attached",
                     NEW d \in reached[c] \cap lineage[c], target[c] = target[d],
                     ~(Len(Segments[target[c]]) > 1)
              PROVE  FALSE
  BY DEF NoSelfAttach
<1>1. home[c] \in Cmd /\ d \in lineage[home[c]] \cup {home[c]} /\ chain[home[c]] # <<>>
  BY DEF AncestryInv, Core, Types, BaseInv
<1>2. target[c] \in Path /\ Len(Segments[target[c]]) = 1
  <2>. DEFINE len == Len(Segments[target[c]])
  <2>1. target[c] \in Path
    BY EntryIsFile
  <2>2. Segments[target[c]] \in Seq(Segment) /\ Len(Segments[target[c]]) > 0
    BY <2>1, PathAssumption
  <2>3. len \in Nat /\ len > 0 /\ ~(len > 1)
    BY <2>2
  <2>4. len = 1
    <3>. HIDE DEF len
    <3>. QED
      BY <2>3
  <2>. QED
    BY <2>1, <2>4
<1>3. ancestry_contains(chain[home[c]], target[c])
  BY <1>1, <1>2 DEF AncestryInv
<1>. QED
  BY <1>1, <1>3, NoneAssumption DEF AncestryInv, Env

-------------------------------------------------------------------------------
(* The session directory.                                                    *)

\* Daemons that have ended, and have not removed their socket.
Unclean == crashed \cup failed

\* The daemon has opened its log.
Alive(d) == daemon[d] = "opened" \/ Up(d)

\* Two daemons may be up at one entry only when both are exposed: the second
\* could not have bound otherwise.
DirInv ==
  /\ \A d \in bound : cmd[d] # "idle"
  /\ \A f \in File : socketAt[f] # None =>
       /\ socketAt[f] \in bound /\ Entry(socketAt[f]) = f
       /\ Up(socketAt[f]) \/ socketAt[f] \in Unclean
  /\ \A d \in Cmd : Alive(d) => logOf[d] \in Cmd
  /\ \A d \in Cmd : Alive(d) /\ d \notin exposed =>
       Removing(Entry(d)) = {} /\ logAt[Entry(d)] = logOf[d]
  /\ \A d \in Cmd : Up(d) /\ d \notin exposed => socketAt[Entry(d)] = d
  /\ \A d, e \in Cmd : Up(d) /\ Up(e) /\ d # e /\ Entry(d) = Entry(e) => d \in exposed

LEMMA DirInit == Init => DirInv
BY DEF Init, DirInv, Alive, Up, Listening

\* Steps that leave the directory alone, start no daemon's log, begin no removal
\* and end a daemon that is up by a failure only.
Quiet ==
  /\ UNCHANGED <<socketAt, logAt, logOf, bound, exposed>> /\ Unclean \subseteq Unclean'
  /\ \A r \in Cmd : cmd'[r] \in {"rmSocket", "rmLog"} => cmd[r] \in {"rmSocket", "rmLog"}
  /\ \A d \in Cmd : /\ Up(d)' => Up(d)
                    /\ Alive(d)' => Alive(d)
                    /\ Up(d) => Up(d)' \/ d \in Unclean'

LEMMA QuietKeepsDir ==
  ASSUME Core, DirInv, [Next]_vars, Quiet
  PROVE  DirInv'
<1>1. \A c \in Cmd : cmd[c] # "idle" => cmd'[c] # "idle" /\ Entry(c)' = Entry(c)
  BY Stability DEF Stable
<1>2. \A d \in Cmd : Alive(d) => cmd[d] # "idle"
  BY DEF Core, BaseInv, Alive, Up, Listening
<1>3. \A d \in Cmd : Up(d) => Alive(d)
  BY DEF Alive
<1>4. bound \subseteq Cmd
  BY DEF Core, Types
<1>5. \A d \in bound : cmd'[d] # "idle"
  BY <1>1, <1>4 DEF DirInv
<1>6. ASSUME NEW f \in File, socketAt[f] # None
      PROVE  /\ socketAt[f] \in bound /\ Entry(socketAt[f])' = f
             /\ Up(socketAt[f])' \/ socketAt[f] \in Unclean'
  BY <1>1, <1>4, <1>6 DEF DirInv, Quiet
<1>7. ASSUME NEW d \in Cmd, Alive(d)'
      PROVE  /\ logOf[d] \in Cmd /\ Entry(d)' = Entry(d)
             /\ d \notin exposed => Removing(Entry(d))' = {} /\ logAt[Entry(d)] = logOf[d]
  <2>1. Alive(d) /\ Entry(d)' = Entry(d)
    BY <1>1, <1>2, <1>7 DEF Quiet
  <2>2. Removing(Entry(d))' \subseteq Removing(Entry(d))
    BY <1>1, <2>1 DEF Removing, Quiet
  <2>. QED
    BY <2>1, <2>2 DEF DirInv
<1>8. ASSUME NEW d \in Cmd, Up(d)'
      PROVE  /\ Entry(d)' = Entry(d)
             /\ d \notin exposed => socketAt[Entry(d)] = d
             /\ \A e \in Cmd : Up(e)' /\ d # e /\ Entry(d)' = Entry(e)' => d \in exposed
  BY <1>1, <1>2, <1>3, <1>8 DEF DirInv, Quiet
<1>9. UNCHANGED <<socketAt, logAt, logOf, bound, exposed>>
  BY DEF Quiet
<1>. QED
  BY <1>5, <1>6, <1>7, <1>8, <1>9 DEF DirInv

\* The steps of a command that are not rm's are quiet.
LEMMA QuietCommands ==
  ASSUME Core, NEW c \in Cmd, AttachStep(c) \/ CreateStep(c) \/ KillStep(c)
  PROVE  Quiet
<1>1. UNCHANGED <<socketAt, logAt, logOf, bound, exposed, crashed, failed>>
  <2>1. CASE AttachStep(c)
    BY <2>1 DEF AttachStep, look, connect, detach, seeEnd, loopFails, daemonVars, dirVars, historyVars
  <2>2. CASE CreateStep(c)
    BY <2>2 DEF CreateStep, create, reportReady, reportExit, reportTimeout, daemonVars, dirVars,
       historyVars
  <2>3. CASE KillStep(c)
    BY <2>3 DEF KillStep, aim, killGone, killTimeout, daemonVars, dirVars, historyVars
  <2>. QED
    BY <2>1, <2>2, <2>3
<1>2. CommandMoves(c)
  BY CommandFrame DEF CommandStep
<1>3. cmd'[c] \notin {"rmSocket", "rmLog"}
  <2>. cmd \in [Cmd -> Stages]
    BY DEF Core, Types
  <2>1. CASE AttachStep(c)
    BY <2>1 DEF AttachStep, look, connect, detach, seeEnd, loopFails, AttachFailed, Goes
  <2>2. CASE CreateStep(c)
    BY <2>2 DEF CreateStep, create, reportReady, reportExit, reportTimeout, Goes
  <2>3. CASE KillStep(c)
    BY <2>3 DEF KillStep, aim, killGone, killTimeout, Goes
  <2>. QED
    BY <2>1, <2>2, <2>3
<1>4. \A r \in Cmd : cmd'[r] \in {"rmSocket", "rmLog"} => cmd[r] \in {"rmSocket", "rmLog"}
  BY <1>2, <1>3 DEF CommandMoves, Core, Types
<1>5. \A d \in Cmd : daemon'[d] = daemon[d] \/ (daemon[d] = "none" /\ daemon'[d] = "starting")
  BY <1>2 DEF CommandMoves, Core, Types
<1>. QED
  BY <1>1, <1>4, <1>5 DEF Quiet, Unclean, Alive, Up, Listening

\* So are the steps of a daemon that touch no file.
LEMMA QuietDaemons ==
  ASSUME Core, NEW d \in Cmd,
         giveUp(d) \/ listen(d) \/ setUp(d) \/ startFails(d) \/ stop(d) \/ crash(d)
  PROVE  Quiet
<1>1. /\ UNCHANGED <<socketAt, logAt, logOf, bound, exposed, cmd>> /\ Unclean \subseteq Unclean'
      /\ daemon' = [daemon EXCEPT ![d] = daemon'[d]]
      /\ \/ daemon[d] = "starting" /\ daemon'[d] = "gone"
         \/ /\ daemon[d] \in {"bound", "listening", "serving"}
            /\ daemon'[d] \in {"listening", "serving", "ending"}
         \/ daemon'[d] = "gone" /\ d \in Unclean'
  BY DEF giveUp, listen, setUp, startFails, stop, crash, Stage, Core, Types, dirVars, historyVars,
     Unclean
<1>. QED
  BY <1>1 DEF Core, Types, Quiet, Alive, Up, Listening

\* A step of rm: no daemon loses its files unless it is exposed.
LEMMA RmKeepsDir ==
  ASSUME Core, DirInv, [Next]_vars, NEW c \in Cmd, RmStep(c)
  PROVE  DirInv'
<1>1. \A b \in Cmd : cmd[b] # "idle" => cmd'[b] # "idle" /\ Entry(b)' = Entry(b)
  BY Stability DEF Stable
<1>2. \A d \in Cmd : Alive(d) => cmd[d] # "idle"
  BY DEF Core, BaseInv, Alive, Up, Listening
<1>3. /\ cmd[c] \in {"probing", "rmSocket", "rmLog"} /\ Entry(c) \in File /\ Entry(c)' = Entry(c)
      /\ UNCHANGED <<daemon, logOf, crashed, failed, bound, target>>
  BY <1>1, EntryIsFile DEF RmStep, probe, removeSocket, removeLog, daemonVars, historyVars, cmdVars
<1>4. \A d \in Cmd : Alive(d)' = Alive(d) /\ Up(d)' = Up(d)
  BY <1>3 DEF Alive, Up, Listening
<1>5. Types /\ bound \subseteq Cmd /\ \A d \in Cmd : Up(d) => Alive(d)
  BY DEF Core, Types, Alive
<1>6. exposed \subseteq exposed'
  BY <1>5 DEF RmStep, probe, removeSocket, removeLog, historyVars
<1>7. \/ UNCHANGED <<socketAt, logAt>>
      \/ /\ c \in Removing(Entry(c))
         /\ \A f \in File \ {Entry(c)} : socketAt'[f] = socketAt[f] /\ logAt'[f] = logAt[f]
  BY <1>3, <1>5 DEF RmStep, probe, removeSocket, removeLog, Removing, Types, dirVars
<1>8. ASSUME NEW d \in Cmd, Alive(d), d \notin exposed'
      PROVE  Removing(Entry(d))' = {}
  <2>1. cmd[d] # "idle" /\ Entry(d)' = Entry(d) /\ d \notin exposed /\ Removing(Entry(d)) = {}
    BY <1>1, <1>2, <1>6, <1>8 DEF DirInv
  <2>2. \A r \in Cmd \ {c} : cmd'[r] = cmd[r]
    BY <1>5 DEF RmStep, probe, removeSocket, removeLog, Goes, Types
  <2>3. CASE cmd[c] = "probing" /\ Entry(c) = Entry(d)
    <3>1. probe(c)
      BY <2>3 DEF RmStep, removeSocket, removeLog
    <3>2. CASE Listening(d)
      <4>1. socketAt[Entry(c)] = d /\ d # None
        BY <1>8, <2>1, <2>3, <3>2, NoneAssumption DEF DirInv, Up
      <4>2. cmd' = [cmd EXCEPT ![c] = "over"]
        BY <3>1, <3>2, <4>1 DEF probe, Goes
      <4>. QED
        BY <1>3, <1>5, <2>1, <2>2, <4>2 DEF Removing, Types, Entry
    <3>3. CASE ~Listening(d)
      <4>1. daemon[d] \in {"opened", "bound"}
        BY <1>8, <3>3 DEF Alive, Up
      <4>2. ~(socketAt[Entry(c)] # None /\ Listening(socketAt[Entry(c)])) => d \in exposed'
        BY <2>3, <3>1, <4>1 DEF probe
      <4>3. cmd' = [cmd EXCEPT ![c] = "over"]
        BY <1>8, <3>1, <4>2 DEF probe, Goes
      <4>. QED
        BY <1>3, <1>5, <2>1, <2>2, <4>3 DEF Removing, Types, Entry
    <3>. QED
      BY <3>2, <3>3
  <2>4. CASE ~(cmd[c] = "probing" /\ Entry(c) = Entry(d))
    <3>1. cmd[c] \notin {"rmSocket", "rmLog"} \/ Entry(c) # Entry(d)
      BY <2>1 DEF Removing
    <3>2. Entry(c)' # Entry(d)'
      BY <1>3, <2>1, <2>4, <3>1
    <3>. QED
      BY <1>3, <2>1, <2>2, <3>2 DEF Removing, Entry
  <2>. QED
    BY <2>3, <2>4
<1>9. ASSUME NEW d \in Cmd, Alive(d), d \notin exposed
      PROVE  socketAt'[Entry(d)] = socketAt[Entry(d)] /\ logAt'[Entry(d)] = logAt[Entry(d)]
  <2>1. Entry(d) \in File /\ Removing(Entry(d)) = {}
    BY <1>2, <1>9, EntryIsFile DEF DirInv
  <2>. QED
    BY <1>7, <2>1
<1>10. \A f \in File : socketAt'[f] # None => socketAt'[f] = socketAt[f]
  BY <1>3, <1>5 DEF RmStep, probe, removeSocket, removeLog, Types, dirVars
<1>11. \A d \in bound : cmd'[d] # "idle"
  BY <1>1, <1>5 DEF DirInv
<1>12. ASSUME NEW f \in File, socketAt'[f] # None
       PROVE  /\ socketAt'[f] \in bound /\ Entry(socketAt[f])' = f
              /\ Up(socketAt[f])' \/ socketAt'[f] \in Unclean
  <2>1. /\ socketAt'[f] = socketAt[f] /\ socketAt[f] \in bound /\ socketAt[f] \in Cmd
        /\ Entry(socketAt[f]) = f /\ (Up(socketAt[f]) \/ socketAt[f] \in Unclean)
        /\ cmd[socketAt[f]] # "idle"
    BY <1>5, <1>10, <1>12 DEF DirInv
  <2>2. Unclean' = Unclean
    BY <1>3 DEF Unclean
  <2>. QED
    BY <1>1, <1>4, <2>1, <2>2
<1>13. ASSUME NEW d \in Cmd, Alive(d)'
       PROVE  /\ logOf[d] \in Cmd
              /\ d \notin exposed' => Removing(Entry(d))' = {} /\ logAt'[Entry(d)'] = logOf[d]
  BY <1>1, <1>2, <1>4, <1>6, <1>8, <1>9, <1>13 DEF DirInv
<1>14. ASSUME NEW d \in Cmd, Up(d)'
       PROVE  /\ d \notin exposed' => socketAt'[Entry(d)'] = d
              /\ \A e \in Cmd : Up(e)' /\ d # e /\ Entry(d)' = Entry(e)' => d \in exposed'
  BY <1>1, <1>2, <1>4, <1>5, <1>6, <1>9, <1>14 DEF DirInv
<1>. QED
  BY <1>3, <1>11, <1>12, <1>13, <1>14 DEF DirInv, Unclean

\* A step of a daemon that touches a file: it finds the log of the daemons that
\* are not exposed, it binds where there is none, and takes from none its socket.
LEMMA DaemonKeepsDir ==
  ASSUME Core, DirInv, [Next]_vars, NEW d \in Cmd, open(d) \/ bind(d) \/ unlink(d)
  PROVE  DirInv'
<1>. DEFINE f == Entry(d)
<1>1. \A b \in Cmd : cmd[b] # "idle" => cmd'[b] # "idle" /\ Entry(b)' = Entry(b)
  BY Stability DEF Stable
<1>2. \A e \in Cmd : daemon[e] # "none" => cmd[e] # "idle"
  BY DEF Core, BaseInv
<1>3. /\ daemon[d] \in {"starting", "opened", "ending"} /\ f \in File /\ f' = f
      /\ cmd[d] # "idle" /\ UNCHANGED <<cmd, target, crashed, failed>>
  <2>1. /\ daemon[d] \in {"starting", "opened", "ending"}
        /\ UNCHANGED <<cmd, target, crashed, failed>>
    BY DEF open, bind, unlink, cmdVars, historyVars
  <2>2. cmd[d] # "idle" /\ f \in File
    BY <1>2, <2>1, EntryIsFile
  <2>. QED
    BY <1>1, <2>1, <2>2
<1>4. Types /\ bound \subseteq Cmd /\ \A e \in Cmd : Up(e) => Alive(e)
  BY DEF Core, Types, Alive
<1>5. /\ daemon' = [daemon EXCEPT ![d] = daemon'[d]]
      /\ exposed \subseteq exposed' /\ bound \subseteq bound'
  BY <1>4 DEF open, bind, unlink, Stage, Types, historyVars
<1>6. \A e \in Cmd \ {d} : Alive(e)' = Alive(e) /\ Up(e)' = Up(e)
  BY <1>3, <1>4, <1>5 DEF Alive, Up, Listening, Types
<1>7. \A r \in Cmd : cmd[r] \in {"rmSocket", "rmLog"} => Entry(r)' = Entry(r)
  BY <1>1
<1>8. \A e \in Cmd : cmd[e] # "idle" => Removing(Entry(e))' = Removing(Entry(e))
  BY <1>1, <1>3, <1>7 DEF Removing
<1>9. \A e \in Cmd : Alive(e) => cmd[e] # "idle" /\ Entry(e) \in File
  BY <1>2, EntryIsFile DEF Alive, Up, Listening
<1>10. \A e \in bound : cmd[e] # "idle"
  BY DEF DirInv
<1>11. CASE open(d)
  <2>1. /\ UNCHANGED <<socketAt, bound>> /\ Alive(d)' /\ ~Up(d) /\ ~Up(d)'
        /\ logOf'[d] \in Cmd /\ logAt'[f] = logOf'[d]
        /\ d \notin exposed' => Removing(f) = {}
        /\ \A e \in Cmd \ {d} : logOf'[e] = logOf[e]
        /\ \A g \in File : logAt[g] # None => logAt'[g] = logAt[g]
    BY <1>3, <1>4, <1>11 DEF open, Stage, Alive, Up, Listening, Types
  <2>2. ASSUME NEW e \in Cmd, Alive(e)'
        PROVE  /\ logOf'[e] \in Cmd
               /\ e \notin exposed' => Removing(Entry(e))' = {} /\ logAt'[Entry(e)'] = logOf'[e]
    <3>1. CASE e = d
      BY <1>3, <1>8, <2>1, <3>1
    <3>2. CASE e # d
      <4>1. Alive(e) /\ Entry(e)' = Entry(e) /\ cmd[e] # "idle" /\ Entry(e) \in File
        BY <1>1, <1>6, <1>9, <2>2, <3>2
      <4>. QED
        BY <1>5, <1>8, <2>1, <3>2, <4>1, NoneAssumption DEF DirInv
    <3>. QED
      BY <3>1, <3>2
  <2>3. ASSUME NEW e \in Cmd, Up(e)'
        PROVE  /\ e \notin exposed' => socketAt'[Entry(e)'] = e
               /\ \A b \in Cmd : Up(b)' /\ e # b /\ Entry(e)' = Entry(b)' => e \in exposed'
    BY <1>1, <1>4, <1>5, <1>6, <1>9, <2>1, <2>3 DEF DirInv
  <2>4. ASSUME NEW g \in File, socketAt[g] # None
        PROVE  /\ socketAt[g] \in bound /\ Entry(socketAt[g])' = g
               /\ Up(socketAt[g])' \/ socketAt[g] \in Unclean
    BY <1>1, <1>4, <1>6, <1>10, <2>1, <2>4 DEF DirInv
  <2>. QED
    BY <1>3, <1>10, <2>1, <2>2, <2>3, <2>4 DEF DirInv, Unclean
<1>12. CASE bind(d) /\ socketAt[f] = None
  <2>1. /\ UNCHANGED <<logAt, logOf>> /\ Alive(d) /\ Alive(d)' /\ ~Up(d) /\ Up(d)'
        /\ socketAt'[f] = d /\ bound' = bound \cup {d}
        /\ \A g \in File \ {f} : socketAt'[g] = socketAt[g]
        /\ (\E e \in Cmd : Up(e) /\ Entry(e) = f) => d \in exposed'
    BY <1>3, <1>4, <1>12 DEF bind, Stage, Alive, Up, Listening, Types
  <2>2. ASSUME NEW e \in Cmd, Alive(e)'
        PROVE  /\ logOf'[e] \in Cmd
               /\ e \notin exposed' => Removing(Entry(e))' = {} /\ logAt'[Entry(e)'] = logOf'[e]
    BY <1>1, <1>5, <1>6, <1>8, <1>9, <2>1, <2>2 DEF DirInv
  <2>3. ASSUME NEW e \in Cmd, Up(e)'
        PROVE  /\ e \notin exposed' => socketAt'[Entry(e)'] = e
               /\ \A b \in Cmd : Up(b)' /\ e # b /\ Entry(e)' = Entry(b)' => e \in exposed'
    <3>1. CASE e = d
      BY <1>1, <1>3, <1>4, <1>6, <1>9, <2>1, <3>1
    <3>2. CASE e # d
      <4>1. Up(e) /\ Alive(e) /\ Entry(e)' = Entry(e) /\ Entry(e) \in File
        BY <1>1, <1>4, <1>6, <1>9, <2>3, <3>2
      <4>2. Entry(e) = f => e \in exposed
        BY <1>12, <4>1, NoneAssumption DEF DirInv
      <4>. QED
        BY <1>1, <1>3, <1>4, <1>5, <1>6, <1>9, <2>1, <3>2, <4>1, <4>2 DEF DirInv
    <3>. QED
      BY <3>1, <3>2
  <2>4. ASSUME NEW g \in File, socketAt'[g] # None
        PROVE  /\ socketAt'[g] \in bound' /\ FileOf[target[socketAt'[g]]] = g
               /\ daemon'[socketAt'[g]] \in {"bound", "listening", "serving", "ending"}
                    \/ socketAt'[g] \in Unclean
    <3>1. CASE g = f
      BY <2>1, <3>1 DEF Entry, Up, Listening
    <3>2. CASE g # f
      <4>1. /\ socketAt'[g] = socketAt[g] /\ socketAt[g] \in bound /\ socketAt[g] \in Cmd
            /\ FileOf[target[socketAt[g]]] = g
            /\ Up(socketAt[g]) \/ socketAt[g] \in Unclean
        BY <1>4, <2>1, <2>4, <3>2 DEF DirInv, Entry
      <4>2. socketAt[g] # d
        BY <3>2, <4>1 DEF Entry
      <4>3. Up(socketAt[g])' = Up(socketAt[g]) \/ socketAt[g] = d
        BY <1>4, <1>5, <4>1, <2>1 DEF Up, Listening, Types
      <4>. QED
        BY <1>4, <1>5, <4>1, <4>2 DEF Up, Listening, Types
    <3>. QED
      BY <3>1, <3>2
  <2>5. \A e \in bound' : cmd'[e] # "idle"
    BY <1>3, <1>10, <2>1
  <2>. QED
    BY <1>3, <2>2, <2>3, <2>4, <2>5 DEF DirInv, Unclean, Entry, Up, Listening
<1>13. CASE bind(d) /\ socketAt[f] # None
  <2>1. Quiet
    BY <1>3, <1>4, <1>6, <1>13 DEF bind, Stage, Quiet, Unclean, Alive, Up, Listening, Types
  <2>. QED
    BY <2>1, QuietKeepsDir
<1>14. CASE unlink(d)
  <2>1. /\ UNCHANGED <<logAt, logOf, bound, exposed>> /\ Up(d) /\ ~Alive(d)' /\ ~Up(d)'
        /\ socketAt' = [socketAt EXCEPT ![f] = None]
    BY <1>4, <1>14 DEF unlink, Stage, Alive, Up, Listening, Types, historyVars
  <2>2. ASSUME NEW e \in Cmd, Alive(e)'
        PROVE  /\ logOf'[e] \in Cmd
               /\ e \notin exposed' => Removing(Entry(e))' = {} /\ logAt'[Entry(e)'] = logOf'[e]
    BY <1>1, <1>6, <1>8, <1>9, <2>1, <2>2 DEF DirInv
  <2>3. ASSUME NEW e \in Cmd, Up(e)'
        PROVE  /\ e \notin exposed' => socketAt'[Entry(e)'] = e
               /\ \A b \in Cmd : Up(b)' /\ e # b /\ Entry(e)' = Entry(b)' => e \in exposed'
    <3>1. e # d /\ Up(e) /\ Alive(e) /\ Entry(e)' = Entry(e) /\ Entry(e) \in File
      BY <1>1, <1>4, <1>6, <1>9, <2>1, <2>3
    <3>2. Entry(e) = f => e \in exposed
      BY <2>1, <3>1 DEF DirInv
    <3>3. e \notin exposed' => socketAt'[Entry(e)'] = e
      BY <1>4, <2>1, <3>1, <3>2 DEF DirInv, Types
    <3>4. ASSUME NEW b \in Cmd, Up(b)', e # b, Entry(e)' = Entry(b)'
          PROVE  e \in exposed'
      <4>1. b # d /\ Up(b) /\ Alive(b) /\ Entry(b)' = Entry(b)
        BY <1>1, <1>4, <1>6, <1>9, <2>1, <3>4
      <4>. QED
        BY <2>1, <3>1, <3>4, <4>1 DEF DirInv
    <3>. QED
      BY <3>3, <3>4
  <2>4. ASSUME NEW g \in File, socketAt'[g] # None
        PROVE  /\ socketAt'[g] \in bound /\ FileOf[target[socketAt'[g]]] = g
               /\ daemon'[socketAt'[g]] \in {"bound", "listening", "serving", "ending"}
                    \/ socketAt'[g] \in Unclean
    <3>1. /\ g # f /\ socketAt'[g] = socketAt[g] /\ socketAt[g] \in bound /\ socketAt[g] \in Cmd
          /\ FileOf[target[socketAt[g]]] = g
          /\ Up(socketAt[g]) \/ socketAt[g] \in Unclean
      BY <1>4, <2>1, <2>4 DEF DirInv, Entry, Types
    <3>2. socketAt[g] # d
      BY <3>1 DEF Entry
    <3>. QED
      BY <1>4, <1>5, <3>1, <3>2 DEF Up, Listening, Types
  <2>. QED
    BY <1>3, <1>10, <2>1, <2>2, <2>3, <2>4 DEF DirInv, Unclean, Entry, Up, Listening
<1>. QED
  BY <1>11, <1>12, <1>13, <1>14

LEMMA DirStep ==
  ASSUME Core, DirInv, [Next]_vars
  PROVE  DirInv'
<1>1. CASE UNCHANGED vars
  <2>1. Quiet
    BY <1>1 DEF vars, cmdVars, dirVars, historyVars, daemonVars, Quiet, Unclean, Alive, Up, Listening
  <2>. QED
    BY <2>1, QuietKeepsDir
<1>2. ASSUME NEW c \in Cmd, NEW k \in Kinds, NEW p \in Path, NEW h \in Cmd \cup {None},
             invoke(c, k, p, h)
      PROVE  DirInv'
  <2>1. cmd'[c] \notin {"rmSocket", "rmLog"} /\ \A r \in Cmd \ {c} : cmd'[r] = cmd[r]
    BY <1>2 DEF invoke, FirstStage, Kinds, Core, Types
  <2>2. UNCHANGED <<socketAt, logAt, logOf, bound, exposed, crashed, failed, daemon>>
    BY <1>2 DEF invoke, dirVars, historyVars, daemonVars
  <2>3. Quiet
    BY <2>1, <2>2 DEF Quiet, Unclean, Alive, Up, Listening
  <2>. QED
    BY <2>3, QuietKeepsDir
<1>3. ASSUME NEW c \in Cmd, CommandStep(c)
      PROVE  DirInv'
  BY <1>3, QuietCommands, QuietKeepsDir, RmKeepsDir DEF CommandStep
<1>4. ASSUME NEW d \in Cmd, DaemonStep(d)
      PROVE  DirInv'
  BY <1>4, QuietDaemons, QuietKeepsDir, DaemonKeepsDir DEF DaemonStep
<1>. QED
  BY <1>1, <1>2, <1>3, <1>4, NextCases

LEMMA DirImplies == DirInv => StaleNeedsFailure /\ ServedIsReachable
BY DEF DirInv, Unclean, StaleNeedsFailure, ServedIsReachable, Alive

-------------------------------------------------------------------------------
(* What the commands report.                                                 *)

\* A daemon a command has been connected to has listened at the command's entry,
\* and once kill has reported it stopped it listens no more.
ReportInv ==
  /\ \A k \in Cmd : reached[k] # {} => cmd[k] # "idle"
  /\ \A k \in Cmd : \A d \in reached[k] :
       /\ daemon[d] \in {"listening", "serving", "ending", "gone"} /\ Entry(d) = Entry(k)
       /\ d \in bound
  /\ \A k \in Cmd : cmd[k] = "stopped" => \A d \in reached[k] : Listening(d) => d \in exposed
  /\ SuccessHasSocket

LEMMA ReportInit == Init => ReportInv
BY DEF Init, ReportInv, SuccessHasSocket

\* What a command may add to its reports, and where it does.
LEMMA Reports ==
  ASSUME Core, NEW c \in Cmd, CommandStep(c)
  PROVE  /\ exposed \subseteq exposed' /\ bound' = bound
         /\ \A k \in Cmd \ {c} : reached'[k] = reached[k]
         /\ \A d \in reached'[c] : d \in reached[c] \/ (d = socketAt[Entry(c)] /\ Listening(d))
         /\ cmd'[c] = "stopped" => killGone(c)
         /\ cmd'[c] \in {"started", "connecting"} => reportReady(c)
<1>. Types /\ cmd \in [Cmd -> Stages] /\ reached \in [Cmd -> SUBSET Cmd] /\ exposed \subseteq Cmd
  BY DEF Core, Types
<1>1. CASE AttachStep(c)
  <2>1. CASE connect(c)
    <3>1. UNCHANGED <<exposed, bound>> /\ cmd'[c] \notin {"stopped", "started", "connecting"}
      BY <2>1 DEF connect, AttachFailed, Goes, historyVars
    <3>2. \/ UNCHANGED reached
          \/ /\ reached' = [reached EXCEPT ![c] = {socketAt[Entry(c)]}]
             /\ Listening(socketAt[Entry(c)])
      BY <2>1 DEF connect
    <3>. QED
      BY <3>1, <3>2
  <2>2. CASE look(c) \/ detach(c) \/ seeEnd(c) \/ loopFails(c)
    BY <2>2 DEF look, detach, seeEnd, loopFails, AttachFailed, Goes, historyVars
  <2>. QED
    BY <1>1, <2>1, <2>2 DEF AttachStep
<1>2. CASE CreateStep(c)
  BY <1>2 DEF CreateStep, create, reportReady, reportExit, reportTimeout, Goes, historyVars
<1>3. CASE RmStep(c)
  BY <1>3 DEF RmStep, probe, removeSocket, removeLog, Goes, historyVars
<1>4. CASE KillStep(c)
  <2>1. UNCHANGED <<exposed, bound>> /\ cmd'[c] \notin {"started", "connecting"}
    BY <1>4 DEF KillStep, aim, killGone, killTimeout, Goes, historyVars
  <2>2. cmd'[c] = "stopped" => killGone(c)
    BY <1>4 DEF KillStep, aim, killTimeout, Goes
  <2>3. \/ UNCHANGED reached
        \/ /\ reached' = [reached EXCEPT ![c] = {socketAt[Entry(c)]}]
           /\ Listening(socketAt[Entry(c)])
        \/ /\ reached' = [reached EXCEPT ![c] = reached[c] \cup {socketAt[Entry(c)]}]
           /\ Listening(socketAt[Entry(c)])
    BY <1>4 DEF KillStep, aim, killGone, killTimeout
  <2>. QED
    BY <2>1, <2>2, <2>3
<1>. QED
  BY <1>1, <1>2, <1>3, <1>4 DEF CommandStep

\* A daemon that has listened at an entry stays the entry's, and gets no further
\* than its end.
LEMMA ReachedStays ==
  ASSUME Core, [Next]_vars, NEW d \in Cmd, daemon[d] \in {"listening", "serving", "ending", "gone"}
  PROVE  /\ daemon'[d] \in {"listening", "serving", "ending", "gone"} /\ Entry(d)' = Entry(d)
         /\ Listening(d)' => Listening(d)
<1>1. Entry(d)' = Entry(d)
  BY Stability DEF Stable, Core, BaseInv
<1>2. CASE daemon' = daemon
  BY <1>1, <1>2 DEF Listening
<1>3. ASSUME NEW c \in Cmd, CommandStep(c)
      PROVE  daemon'[d] = daemon[d]
  BY <1>3, CommandFrame DEF CommandMoves, Core, Types
<1>4. ASSUME NEW e \in Cmd, DaemonStep(e)
      PROVE  \/ daemon'[d] = daemon[d]
             \/ daemon[d] \in {"listening", "serving", "ending"} /\ daemon'[d] \in {"serving", "ending", "gone"}
  BY <1>4 DEF DaemonStep, open, giveUp, bind, listen, setUp, startFails, stop, unlink, crash, Stage, Core, Types
<1>5. \/ daemon'[d] = daemon[d]
      \/ daemon[d] \in {"listening", "serving", "ending"} /\ daemon'[d] \in {"serving", "ending", "gone"}
  BY <1>3, <1>4, NextCases DEF vars, daemonVars, invoke
<1>. QED
  BY <1>1, <1>5 DEF Listening

LEMMA ReportStep ==
  ASSUME Core, DirInv, ReportInv, [Next]_vars
  PROVE  ReportInv'
<1>1. \A c \in Cmd : Stable(c)
  BY Stability
<1>2. /\ Types /\ bound \subseteq Cmd
      /\ \A c \in Cmd : cmd[c] # "idle" => cmd'[c] # "idle" /\ Entry(c)' = Entry(c)
      /\ \A d \in bound : Entry(d)' = Entry(d)
  BY <1>1 DEF Stable, Core, Types, DirInv
<1>3. \A k \in Cmd : \A d \in reached[k] :
        /\ d \in Cmd /\ cmd[k] # "idle" /\ Entry(k)' = Entry(k)
        /\ daemon'[d] \in {"listening", "serving", "ending", "gone"} /\ Entry(d)' = Entry(d)
        /\ Listening(d)' => Listening(d)
  BY <1>2, ReachedStays DEF ReportInv, Types
<1>4. CASE /\ UNCHANGED reached /\ exposed \subseteq exposed' /\ bound \subseteq bound'
           /\ \A c \in Cmd : cmd'[c] \in {"stopped", "started"} => cmd'[c] = cmd[c]
           /\ \A c \in Cmd : cmd'[c] = "connecting" /\ daemon'[c] # "none" =>
                cmd[c] = "connecting" /\ daemon[c] # "none"
  <2>1. SuccessHasSocket'
    BY <1>2, <1>4 DEF ReportInv, SuccessHasSocket
  <2>. QED
    BY <1>2, <1>3, <1>4, <2>1 DEF ReportInv
<1>5. CASE UNCHANGED vars
  BY <1>4, <1>5 DEF vars, cmdVars, dirVars, historyVars, daemonVars
<1>6. ASSUME NEW c \in Cmd, NEW k \in Kinds, NEW p \in Path, NEW h \in Cmd \cup {None},
             invoke(c, k, p, h)
      PROVE  ReportInv'
  <2>1. /\ UNCHANGED <<reached, daemon, exposed, bound>> /\ daemon[c] = "none"
        /\ cmd'[c] \notin {"stopped", "started"} /\ \A b \in Cmd \ {c} : cmd'[b] = cmd[b]
    BY <1>6 DEF invoke, FirstStage, Kinds, Core, Types, BaseInv, daemonVars, historyVars
  <2>. QED
    BY <1>4, <2>1
<1>7. ASSUME NEW c \in Cmd, CommandStep(c)
      PROVE  ReportInv'
  <2>1. /\ exposed \subseteq exposed' /\ bound' = bound
        /\ \A k \in Cmd \ {c} : reached'[k] = reached[k]
        /\ \A d \in reached'[c] : d \in reached[c] \/ (d = socketAt[Entry(c)] /\ Listening(d))
        /\ cmd'[c] = "stopped" => killGone(c)
        /\ cmd'[c] \in {"started", "connecting"} => reportReady(c)
    BY <1>7, Reports
  <2>2. CommandMoves(c) /\ Entry(c) \in File
    BY <1>7, CommandFrame, EntryIsFile DEF CommandMoves
  <2>3. /\ \A b \in Cmd \ {c} : cmd'[b] = cmd[b] /\ daemon'[b] = daemon[b]
        /\ cmd[c] # "idle"
    BY <1>2, <2>2 DEF CommandMoves, Types
  <2>4. ASSUME NEW d \in reached'[c]
        PROVE  /\ d \in Cmd /\ daemon'[d] \in {"listening", "serving", "ending", "gone"}
               /\ Entry(d)' = Entry(c)' /\ d \in bound'
    <3>1. CASE d \in reached[c]
      BY <1>3, <2>1, <3>1 DEF ReportInv
    <3>2. CASE d = socketAt[Entry(c)] /\ Listening(d)
      <4>1. daemon[d] \in {"listening", "serving", "ending"}
        BY <3>2 DEF Listening
      <4>2. d \in Cmd /\ Entry(d) = Entry(c) /\ d \in bound
        <5>1. socketAt[Entry(c)] \in Cmd \cup {None}
          BY <1>2, <2>2 DEF Types
        <5>2. reached'[c] \subseteq Cmd
          BY <1>7, <2>4, CommandFrame DEF DirTypes
        <5>3. d # None
          BY <2>4, <5>2, NoneAssumption
        <5>. QED
          BY <2>2, <3>2, <5>1, <5>3 DEF DirInv
      <4>. QED
        BY <1>2, <2>1, <2>3, <4>1, <4>2, ReachedStays
    <3>. QED
      BY <2>1, <2>4, <3>1, <3>2
  <2>5. ASSUME cmd'[c] = "stopped", NEW d \in reached'[c], Listening(d)'
        PROVE  d \in exposed'
    <3>1. socketAt[Entry(c)] = None /\ reached' = reached
      BY <2>1, <2>5 DEF killGone
    <3>2. d \in Cmd /\ Listening(d) /\ Entry(d) = Entry(c)
      BY <1>3, <2>5, <3>1 DEF ReportInv
    <3>. QED
      BY <2>1, <3>1, <3>2, NoneAssumption DEF DirInv, Up
  <2>6. ASSUME cmd'[c] \in {"started", "connecting"}
        PROVE  \E d \in bound' : Entry(d)' = Entry(c)'
    <3>1. socketAt[Entry(c)] # None
      BY <2>1, <2>6 DEF reportReady
    <3>2. socketAt[Entry(c)] \in bound /\ Entry(socketAt[Entry(c)]) = Entry(c)
      BY <2>2, <3>1 DEF DirInv
    <3>3. \E d \in bound : Entry(d) = Entry(c)
      BY <3>2
    <3>. QED
      BY <1>2, <2>1, <2>3, <3>3
  <2>7. \A k \in Cmd : reached'[k] # {} => cmd'[k] # "idle"
    BY <1>2, <2>1, <2>3 DEF ReportInv
  <2>8. \A k \in Cmd : \A d \in reached'[k] :
          /\ daemon'[d] \in {"listening", "serving", "ending", "gone"} /\ Entry(d)' = Entry(k)'
          /\ d \in bound'
    BY <1>3, <2>1, <2>4 DEF ReportInv
  <2>9. \A k \in Cmd : cmd'[k] = "stopped" =>
          \A d \in reached'[k] : Listening(d)' => d \in exposed'
    BY <1>3, <2>1, <2>3, <2>5 DEF ReportInv
  <2>10. SuccessHasSocket'
    <3>. SUFFICES ASSUME NEW b \in Cmd,
                         cmd'[b] = "started" \/ (cmd'[b] = "connecting" /\ daemon'[b] # "none")
                  PROVE  \E d \in bound' : Entry(d)' = Entry(b)'
      BY DEF SuccessHasSocket
    <3>1. CASE b = c
      BY <2>6, <3>1
    <3>2. CASE b # c
      BY <1>2, <2>1, <2>3, <3>2 DEF ReportInv, SuccessHasSocket
    <3>. QED
      BY <3>1, <3>2
  <2>. QED
    BY <2>7, <2>8, <2>9, <2>10 DEF ReportInv
<1>8. ASSUME NEW d \in Cmd, DaemonStep(d)
      PROVE  ReportInv'
  <2>1. /\ UNCHANGED <<cmd, reached>> /\ daemon[d] # "none"
        /\ \A b \in Cmd \ {d} : daemon'[b] = daemon[b]
    BY <1>2, <1>8, DaemonFrame DEF DaemonMoves, Types
  <2>2. exposed \subseteq exposed' /\ bound \subseteq bound'
    BY <1>2, <1>8 DEF DaemonStep, open, giveUp, bind, listen, setUp, startFails, stop, unlink, crash, Types,
       historyVars
  <2>. QED
    BY <1>4, <2>1, <2>2
<1>. QED
  BY <1>5, <1>6, <1>7, <1>8, NextCases

\* Two daemons that listen at one entry are both exposed, so that of those a kill
\* has signalled one at most is left that is not.
LEMMA ReportImplies == Core /\ DirInv /\ ReportInv => SuccessHasSocket /\ KillReportIsTrue
<1>. SUFFICES ASSUME Core, DirInv, ReportInv
              PROVE  KillReportIsTrue
  BY DEF ReportInv
<1>. SUFFICES ASSUME NEW k \in Cmd, cmd[k] \in {"waitKill", "stopped"}
              PROVE  LET left == {d \in reached[k] : Listening(d)} \ exposed
                     IN  Cardinality(left) <= 1 /\ (cmd[k] = "stopped" => left = {})
  BY DEF KillReportIsTrue
<1>. DEFINE left == {d \in reached[k] : Listening(d)} \ exposed
<1>1. \A d \in left : d \in Cmd /\ Up(d) /\ d \notin exposed /\ Entry(d) = Entry(k)
  BY DEF ReportInv, Core, Types, Up
<1>2. \A d, e \in left : d = e
  BY <1>1 DEF DirInv
<1>3. Cardinality(left) <= 1
  <2>. HIDE DEF left
  <2>1. CASE left = {}
    BY <2>1, FS_EmptySet
  <2>2. CASE left # {}
    <3>1. PICK d \in left : left = {d}
      BY <1>2, <2>2
    <3>. QED
      BY <3>1, FS_Singleton
  <2>. QED
    BY <2>1, <2>2
<1>4. cmd[k] = "stopped" => left = {}
  BY DEF ReportInv
<1>. QED
  BY <1>3, <1>4

\* A crash is counted when it happens.
LEMMA CrashesBounded ==
  ASSUME Core, Cardinality(crashed) <= MaxCrashes, [Next]_vars
  PROVE  Cardinality(crashed') <= MaxCrashes
<1>1. CASE UNCHANGED crashed
  BY <1>1
<1>2. ASSUME NEW d \in Cmd, crash(d)
      PROVE  Cardinality(crashed') <= MaxCrashes
  <2>1. IsFiniteSet(crashed)
    <3>1. IsFiniteSet(Cmd)
      BY BoundsAssumption, FS_Interval DEF Cmd
    <3>. QED
      BY <3>1, FS_Subset DEF Core, Types
  <2>2. Cardinality(crashed') \in {Cardinality(crashed), Cardinality(crashed) + 1}
    BY <1>2, <2>1, FS_AddElement DEF crash
  <2>3. Cardinality(crashed) < MaxCrashes /\ Cardinality(crashed) \in Nat
    BY <1>2, <2>1, FS_CardinalityType DEF crash
  <2>. QED
    BY <2>2, <2>3, BoundsAssumption
<1>3. ASSUME NEW d \in Cmd, DaemonStep(d)
      PROVE  UNCHANGED crashed \/ crash(d)
  BY <1>3 DEF DaemonStep, open, giveUp, bind, listen, setUp, startFails, stop,
     unlink, historyVars
<1>4. ASSUME NEW c \in Cmd, CommandStep(c)
      PROVE  UNCHANGED crashed
  BY <1>4, CommandFrame DEF CommandMoves
<1>5. UNCHANGED crashed \/ \E d \in Cmd : crash(d)
  BY <1>3, <1>4, NextCases DEF vars, historyVars, invoke
<1>. QED
  BY <1>1, <1>2, <1>5

-------------------------------------------------------------------------------
(* The logs.                                                                 *)

\* A log is that of a daemon that has come as far as opening one.
LogInv == \A f \in File : logAt[f] # None => daemon[logAt[f]] \notin {"none", "starting"}

LEMMA LogInit == Init => LogInv
BY DEF Init, LogInv

LEMMA LogStep ==
  ASSUME Core, LogInv, [Next]_vars
  PROVE  LogInv'
<1>. Types
  BY DEF Core
<1>1. CASE UNCHANGED <<logAt, daemon>>
  BY <1>1 DEF LogInv
<1>2. ASSUME NEW c \in Cmd, CommandStep(c)
      PROVE  LogInv'
  <2>1. CommandMoves(c)
    BY <1>2, CommandFrame
  <2>2. \A f \in File : logAt'[f] = logAt[f] \/ logAt'[f] = None
    BY <1>2 DEF CommandStep, AttachStep, CreateStep, RmStep, KillStep, look, connect, detach,
       seeEnd, loopFails, create, reportReady, reportExit, reportTimeout, probe, removeSocket,
       removeLog, aim, killGone, killTimeout, dirVars, Types
  <2>3. \A d \in Cmd : daemon[d] \notin {"none", "starting"} => daemon'[d] = daemon[d]
    BY <2>1 DEF CommandMoves, Types
  <2>4. \A f \in File : logAt[f] \in Cmd \cup {None}
    BY DEF Types
  <2>. QED
    BY <2>2, <2>3, <2>4 DEF LogInv
<1>3. ASSUME NEW d \in Cmd, DaemonStep(d)
      PROVE  LogInv'
  <2>1. DaemonMoves(d)
    BY <1>3, DaemonFrame
  <2>2. \A f \in File : logAt'[f] \in {logAt[f], d}
    <3>1. CASE open(d)
      BY <3>1 DEF open, Types
    <3>2. CASE ~open(d)
      BY <1>3, <3>2 DEF DaemonStep, giveUp, bind, listen, setUp, startFails, stop, unlink, crash,
         dirVars
    <3>. QED
      BY <3>1, <3>2
  <2>3. /\ daemon'[d] \notin {"none", "starting"}
        /\ \A e \in Cmd \ {d} : daemon'[e] = daemon[e]
    BY <2>1 DEF DaemonMoves, Types
  <2>4. \A f \in File : logAt[f] \in Cmd \cup {None}
    BY DEF Types
  <2>. QED
    BY <2>2, <2>3, <2>4 DEF LogInv
<1>4. Next => UNCHANGED <<logAt, daemon>> \/ \E c \in Cmd : CommandStep(c) \/ DaemonStep(c)
  BY NextCases DEF invoke, dirVars, daemonVars
<1>. QED
  BY <1>1, <1>2, <1>3, <1>4 DEF vars, dirVars, daemonVars

-------------------------------------------------------------------------------
(* The theorems.                                                             *)

\* What holds of every state, and is kept by every step.
Inv ==
  /\ Core /\ Cardinality(crashed) <= MaxCrashes
  /\ AncestryInv /\ DirInv /\ ReportInv /\ LogInv

\* The parts together are kept by every step.
THEOREM Inductive == Spec => []Inv
<1>1. Init => Inv
  <2>1. Init => Cardinality(crashed) <= MaxCrashes
    BY FS_EmptySet, BoundsAssumption DEF Init
  <2>. QED
    BY <2>1, CoreInit, AncestryInit, DirInit, ReportInit, LogInit DEF Inv
<1>2. Inv /\ [Next]_vars => Inv'
  BY CoreStep, CrashesBounded, AncestryStep, DirStep, ReportStep, LogStep DEF Inv
<1>. QED
  BY <1>1, <1>2, PTL DEF Spec

\* The stages, the files and the histories have their types; a socket is that of
\* a daemon that has bound one, a log that of a daemon that has opened one, and
\* commands have been connected only to daemons that have bound a socket.
THEOREM TypeCorrect == Spec => []TypeOK
<1>1. ASSUME Inv
      PROVE  TypeOK
  <2>1. Types /\ Cardinality(crashed) <= MaxCrashes
    BY <1>1 DEF Inv, Core
  <2>2. \A f \in File :
          /\ socketAt[f] # None => socketAt[f] \in bound
          /\ logAt[f] # None => daemon[logAt[f]] \notin {"none", "starting"}
    BY <1>1 DEF Inv, DirInv, LogInv
  <2>3. \A c \in Cmd : reached[c] \subseteq (IF cmd[c] = "idle" THEN {} ELSE bound)
    BY <1>1 DEF Inv, ReportInv
  <2>. QED
    BY <2>1, <2>2, <2>3 DEF Types, TypeOK
<1>. QED
  BY <1>1, Inductive, PTL

\* self_attach_error keeps every client out of every session it runs in, through
\* any number of sessions in one another, as long as the name has no colon and
\* is spelled as it was at the creation.
THEOREM AttachIsGuarded == Spec => []NoSelfAttach
<1>1. Inv => NoSelfAttach
  BY AncestryImplies DEF Inv
<1>. QED
  BY <1>1, Inductive, PTL

\* Whatever commands run at once, a socket that nobody listens on or is about to
\* listen on was left by a daemon that crashed, or whose start failed behind the
\* bind.
THEOREM StaleSocketsNeedFailure == Spec => []StaleNeedsFailure
<1>1. Inv => StaleNeedsFailure
  BY DirImplies DEF Inv
<1>. QED
  BY <1>1, Inductive, PTL

\* A daemon keeps its socket and its log unless it came up while an rm was past
\* its probe, or while a daemon that had lost its socket was still up.
THEOREM ServedStaysReachable == Spec => []ServedIsReachable
<1>1. Inv => ServedIsReachable
  BY DirImplies DEF Inv
<1>. QED
  BY <1>1, Inductive, PTL

\* Behind every success that a command reports a daemon has bound the socket.
THEOREM SuccessIsBound == Spec => []SuccessHasSocket
<1>1. Inv => SuccessHasSocket
  BY ReportImplies DEF Inv
<1>. QED
  BY <1>1, Inductive, PTL

\* When kill has reported a session stopped, no daemon it has signalled serves
\* but one that came up during an rm.
THEOREM KillReportsTruly == Spec => []KillReportIsTrue
<1>1. Inv => KillReportIsTrue
  BY ReportImplies DEF Inv
<1>. QED
  BY <1>1, Inductive, PTL
===============================================================================
