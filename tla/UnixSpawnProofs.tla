--------------------------- MODULE UnixSpawnProofs ---------------------------
(***************************************************************************)
(* A spawn leaks nothing, its verdict is true and so is the exit report,   *)
(* for every choice of faults and every length of PATH.                    *)
(*                                                                         *)
(* What a process holds is a function of how far it has come (Holds), so   *)
(* whether a pipe is open says how far its other end has come: the         *)
(* argument is about what the end of file of each pipe proves.             *)
(***************************************************************************)
EXTENDS UnixSpawn, SequenceTheorems, TLAPS

Terminal == {"master", "slave"} \union Memory
Pipe == {"statusR", "statusW"} \union Terminal
PipeAndExit == {"exitR", "exitW"} \union Pipe
Everything == {"releaseR", "releaseW"} \union PipeAndExit
Resources == {"tty", "statusW0"} \union Everything

\* What the host holds at each of its stages.
HostHolds(h) ==
    CASE h = "argv"                                         -> {"path"}
      [] h = "envp"                                         -> {"path", "argv"}
      [] h \in {"openpt", "openpty"}                        -> Memory
      [] h \in {"grant", "name", "openSlave"}               -> {"master"} \union Memory
      [] h \in {"winsize", "attributes", "place", "statusPipe"} -> Terminal
      [] h \in {"statusFlags", "statusMove", "statusPlace"} -> {"statusR", "statusW0"} \union Terminal
      [] h = "exitPipe"                                     -> Pipe
      [] h \in {"exitPlace", "releasePipe"}                 -> PipeAndExit
      [] h \in {"releasePlace", "mask", "fork", "close"}    -> Everything
      [] h \in {"waitLauncher", "readStatus"}               -> {"statusR"} \union HostEnds \union Memory
      [] h \in {"reported", "readPid", "unreadable", "configure", "spawned"} -> HostEnds
      [] h = "giveUp"                                       -> {"master", "slave"}
      [] OTHER                                              -> {}

LauncherHolds(l) ==
    CASE l \in {"signals", "closeFds"} -> Everything
      [] l = "fork"                    -> Kept
      [] OTHER                         -> {}
SupervisorHolds(l) ==
    CASE l \in {"setsid", "fork", "detach"}                         -> Kept
      [] l \in {"sendPid", "wait", "sendReport", "awaitRelease"} -> {"exitW", "releaseR"}
      [] OTHER                                                      -> {}
ProgramHolds(l) ==
    CASE l \in {"setsid", "terminal", "stdio"} -> Kept
      [] l = "closeFds"                        -> {"tty", "statusW", "exitW", "releaseR"}
      [] l \in {"chdir", "exec"}               -> {"tty", "statusW"}
      [] l = "running"                         -> {"tty"}
      [] OTHER                                 -> {}

Holds(p, l) ==
    CASE p = "host"       -> HostHolds(l)
      [] p = "launcher"   -> LauncherHolds(l)
      [] p = "supervisor" -> SupervisorHolds(l)
      [] p = "program"    -> ProgramHolds(l)
At(p) == IF p = "host" THEN host ELSE pc[p]

HeldOK ==
    /\ held \in [Procs -> SUBSET Resources]
    /\ \A p \in Procs : held[p] = Holds(p, At(p))

\* The stages of the setup, on any system, and those up to the fork at which the
\* host has the read end of the status pipe, that of the exit pipe and the write
\* end of the release pipe.
HasRelease == {"releasePlace", "mask", "fork"}
HasExit == {"exitPlace", "releasePipe"} \union HasRelease
HasStatus == {"statusFlags", "statusMove", "statusPlace", "exitPipe"} \union HasExit
Setup == {"resolve", "argv", "envp", "openpt", "grant", "name", "openSlave", "winsize", "openpty",
          "attributes", "place", "statusPipe"} \union HasStatus
Starting == {"close", "waitLauncher", "readStatus"}
Started == {"reported", "readPid", "unreadable", "configure", "spawned"}

HostReads == host \in HasStatus \union Starting
HostListens == host \in HasExit \union Starting \union Started
HostWithholds == host \in HasRelease \union Starting \union Started

HostOK ==
    /\ host \in ToSet(Stages) \union Starting \union Started
                 \union {"giveUp", "released", "failed", "dead"}
    /\ android \in BOOLEAN /\ denied \in BOOLEAN /\ pid \in BOOLEAN
    /\ exitSeen \in {"none", "report", "eof"}
    /\ path \in Seq(AccessResult) /\ Len(path) <= MaxPath /\ entry \in 1..MaxPath
    /\ host = "resolve" => entry <= Len(path)

\* The labels of the chain.
Gone == {"zombie", "reaped"}
LauncherEarly == {"signals", "closeFds", "fork"}
SupervisorEarly == {"setsid", "fork"}
SupervisorLate == {"wait", "sendReport", "awaitRelease"}
ProgramEarly == {"setsid", "terminal", "stdio", "closeFds", "chdir", "exec"}
LauncherAt == {"unborn"} \union LauncherEarly \union Gone
SupervisorAt ==
    {"unborn", "detach", "sendPid"} \union SupervisorEarly \union SupervisorLate \union Gone
ProgramAt == {"unborn", "running"} \union ProgramEarly \union Gone

\* The chain is forked in order, and no process of it lives twice.
ChainOK ==
    /\ pc \in [Chain -> LauncherAt \union SupervisorAt \union ProgramAt]
    /\ ended \in [Chain -> {"no", "failed", "exited", "killed", "stopped", "hangup"}]
    /\ pc["launcher"] \in LauncherAt /\ pc["supervisor"] \in SupervisorAt
    /\ pc["program"] \in ProgramAt
    /\ \A p \in Chain : ended[p] = "no" <=> pc[p] \notin Gone
    /\ ended["supervisor"] \notin {"stopped", "hangup"}
    /\ host \in Setup => pc["launcher"] = "unborn"
    /\ host \in Starting \union Started => pc["launcher"] # "unborn"
    /\ pc["launcher"] = "unborn" => pc["supervisor"] = "unborn"
    /\ pc["supervisor"] # "unborn" => pc["launcher"] \in Gone
    /\ pc["supervisor"] \in {"unborn"} \union SupervisorEarly => pc["program"] = "unborn"
    /\ pc["supervisor"] \in {"detach", "sendPid"} \union SupervisorLate => pc["program"] # "unborn"
    /\ pc["supervisor"] \in {"sendReport", "awaitRelease"} => pc["program"] \in Gone
    /\ pc["program"] = "reaped" => pc["supervisor"] \in Gone

\* The exit pipe carries the pid, once the program is there, and then the report,
\* once it is over.
PidSent == pid \/ exits # <<>>
ReportSent == exitSeen = "report" \/ exits \in {<<"pid", "report">>, <<"report">>}
ExitsOK ==
    /\ exits \in {<<>>, <<"pid">>, <<"report">>, <<"pid", "report">>}
    /\ pid => exits \in {<<>>, <<"report">>}
    /\ PidSent => /\ pc["supervisor"] \in SupervisorLate \union Gone
                  /\ pc["program"] # "unborn" /\ ended["supervisor"] # "failed"
    /\ pc["supervisor"] \in {"wait", "sendReport"} =>
         exits = IF pid THEN <<>> ELSE <<"pid">>
    /\ ReportSent => pc["program"] \in Gone /\ pc["supervisor"] \in {"awaitRelease"} \union Gone
    /\ host \in {"configure", "spawned", "released"} => pid
    /\ verdict = "ok" => pid
    /\ exitSeen # "none" => verdict = "ok"
    /\ exitSeen = "eof" => ended["supervisor"] = "killed"

\* The supervisor exits when it is released, and fails before the program is
\* there or when the host no longer listens.
EndOK ==
    /\ ended["supervisor"] = "exited" => ~HostWithholds
    /\ ended["supervisor"] = "failed" => pc["program"] = "unborn" \/ ~HostListens

\* The status pipe: who reports is the last of the chain there will ever be, and
\* its end of file without an error proves that the program was started.
Reporting == {"signals", "fork", "setsid", "terminal", "stdio", "chdir", "exec"}
NobodyCanReport ==
    /\ pc["launcher"] \in Gone /\ pc["supervisor"] \notin SupervisorEarly
    /\ pc["program"] \notin ProgramEarly
StatusOK ==
    /\ status = <<>> \/ \E e \in Reporting : status = <<e>>
    /\ status # <<>> => NobodyCanReport /\ pc["program"] # "running"
    /\ host = "reported" => status # <<>>
    /\ HostReads /\ ended["program"] = "failed" => status # <<>>
    /\ host \in {"readPid", "configure"} \/ verdict = "ok" =>
         /\ NobodyCanReport /\ pc["supervisor"] # "detach"
         /\ status = <<>> /\ ended["program"] # "failed"
    /\ verdict = "ok" => host \in {"spawned", "released", "dead"}
    /\ host \in {"spawned", "released"} => verdict = "ok"

\* A spawn that fails leaves a program that is dead or will never be, unless the
\* supervisor was killed.
NeverRuns ==
    /\ pc["program"] = "unborn" /\ pc["supervisor"] \notin SupervisorEarly
    /\ pc["launcher"] \notin LauncherEarly
FailedOK ==
    host = "failed" \/ (host = "giveUp" /\ ~pid) =>
        ended["supervisor"] = "killed" \/ pc["program"] \in Gone \/ NeverRuns

\* Everything but what is held.
Labels == HostOK /\ ChainOK /\ ExitsOK /\ EndOK /\ StatusOK /\ FailedOK

IInv == HeldOK /\ Labels
-----------------------------------------------------------------------------
(* The setup                                                               *)

\* The stages, in their order, on Android and elsewhere.
StageIs(k, x) ==
  IF android
  THEN \/ k = 1 /\ x = "resolve"
       \/ k = 2 /\ x = "argv"
       \/ k = 3 /\ x = "envp"
       \/ k = 4 /\ x = "openpt"
       \/ k = 5 /\ x = "grant"
       \/ k = 6 /\ x = "name"
       \/ k = 7 /\ x = "openSlave"
       \/ k = 8 /\ x = "winsize"
       \/ k = 9 /\ x = "attributes"
       \/ k = 10 /\ x = "place"
       \/ k = 11 /\ x = "statusPipe"
       \/ k = 12 /\ x = "statusFlags"
       \/ k = 13 /\ x = "statusMove"
       \/ k = 14 /\ x = "statusPlace"
       \/ k = 15 /\ x = "exitPipe"
       \/ k = 16 /\ x = "exitPlace"
       \/ k = 17 /\ x = "releasePipe"
       \/ k = 18 /\ x = "releasePlace"
       \/ k = 19 /\ x = "mask"
       \/ k = 20 /\ x = "fork"
  ELSE \/ k = 1 /\ x = "resolve"
       \/ k = 2 /\ x = "argv"
       \/ k = 3 /\ x = "envp"
       \/ k = 4 /\ x = "openpty"
       \/ k = 5 /\ x = "attributes"
       \/ k = 6 /\ x = "place"
       \/ k = 7 /\ x = "statusPipe"
       \/ k = 8 /\ x = "statusFlags"
       \/ k = 9 /\ x = "statusMove"
       \/ k = 10 /\ x = "statusPlace"
       \/ k = 11 /\ x = "exitPipe"
       \/ k = 12 /\ x = "exitPlace"
       \/ k = 13 /\ x = "releasePipe"
       \/ k = 14 /\ x = "releasePlace"
       \/ k = 15 /\ x = "mask"
       \/ k = 16 /\ x = "fork"

\* There are as many as there are positions.
LEMMA StagesAre ==
  /\ Len(Stages) = IF android THEN 20 ELSE 16
  /\ DOMAIN Stages = 1 .. Len(Stages)
  <1>1. CASE android
    BY <1>1 DEF Stages
  <1>2. CASE ~android
    BY <1>2 DEF Stages
  <1> QED
    BY <1>1, <1>2

\* Where each stage of the spawn stands in the list, with or without Android's stages.
LEMMA StageAt ==
  ASSUME NEW i \in 1 .. Len(Stages), NEW s, s = Stages[i]
  PROVE  StageIs(i, s)
  <1>1. CASE android
    <2>1. /\ Stages[1] = "resolve" /\ Stages[2] = "argv" /\ Stages[3] = "envp"
          /\ Stages[4] = "openpt" /\ Stages[5] = "grant" /\ Stages[6] = "name"
          /\ Stages[7] = "openSlave" /\ Stages[8] = "winsize" /\ Stages[9] = "attributes"
          /\ Stages[10] = "place" /\ Stages[11] = "statusPipe" /\ Stages[12] = "statusFlags"
          /\ Stages[13] = "statusMove" /\ Stages[14] = "statusPlace" /\ Stages[15] = "exitPipe"
          /\ Stages[16] = "exitPlace" /\ Stages[17] = "releasePipe" /\ Stages[18] = "releasePlace"
          /\ Stages[19] = "mask" /\ Stages[20] = "fork"
      BY <1>1 DEF Stages
    <2>2. i \in 1 .. 20
      BY <1>1, StagesAre
    <2> QED
      BY <1>1, <2>1, <2>2 DEF StageIs
  <1>2. CASE ~android
    <2>1. /\ Stages[1] = "resolve" /\ Stages[2] = "argv" /\ Stages[3] = "envp"
          /\ Stages[4] = "openpty" /\ Stages[5] = "attributes" /\ Stages[6] = "place"
          /\ Stages[7] = "statusPipe" /\ Stages[8] = "statusFlags" /\ Stages[9] = "statusMove"
          /\ Stages[10] = "statusPlace" /\ Stages[11] = "exitPipe" /\ Stages[12] = "exitPlace"
          /\ Stages[13] = "releasePipe" /\ Stages[14] = "releasePlace" /\ Stages[15] = "mask"
          /\ Stages[16] = "fork"
      BY <1>2 DEF Stages
    <2>2. i \in 1 .. 16
      BY <1>2, StagesAre
    <2> QED
      BY <1>2, <2>1, <2>2 DEF StageIs
  <1> QED
    BY <1>1, <1>2

\* No stage occurs twice, so each but the last has one after it.
LEMMA StageFollows ==
  ASSUME NEW i \in 1 .. Len(Stages)
  PROVE  StageAfter(Stages[i]) = Stages[i + 1]
  <1> DEFINE s == Stages[i]
  <1>1. ASSUME NEW j \in 1 .. Len(Stages), Stages[j] = s PROVE j = i
    <2> HIDE DEF s
    <2>1. StageIs(i, s)
      BY StageAt DEF s
    <2>2. StageIs(j, s)
      BY <1>1, StageAt DEF s
    <2>3. CASE android
      BY <2>1, <2>2, <2>3 DEF StageIs
    <2>4. CASE ~android
      BY <2>1, <2>2, <2>4 DEF StageIs
    <2> QED
      BY <2>3, <2>4
  <1>2. (CHOOSE j \in 1 .. Len(Stages) : Stages[j] = Stages[i]) = i
    BY <1>1
  <1>3. 1 + i = i + 1
    BY StagesAre
  <1> QED
    BY <1>2, <1>3 DEF StageAfter

\* What a stage of the setup does to what the host holds: the next stage has
\* what it acquired, and its failure leaves nothing.
LEMMA StageHolds ==
  ASSUME NEW h \in ToSet(Stages)
  PROVE  /\ h \in Setup /\ HostHolds(h) \ Closes(h) = {}
         /\ h # "fork" =>
              /\ StageAfter(h) \in ToSet(Stages) \ {"resolve"}
              /\ (HostHolds(h) \union Acquires(h))
                   \ (IF h = "statusPlace" THEN {"statusW0"} ELSE {}) = HostHolds(StageAfter(h))
  <1>1. PICK i \in 1 .. Len(Stages) : h = Stages[i]
    BY StagesAre DEF ToSet
  <1>2. h \in Setup /\ (i = Len(Stages) => h = "fork")
    BY <1>1, StageAt, StagesAre DEF Setup, HasStatus, HasExit, HasRelease, StageIs
  <1>3. HostHolds(h) \ Closes(h) = {}
    BY <1>2 DEF Setup, HasStatus, HasExit, HasRelease, HostHolds, Closes, Terminal, Pipe, PipeAndExit, Everything, Memory,
       ClosesTerminal, ClosesStatus, ClosesExit, ClosesRelease
  <1>4. CASE h = "fork"
    BY <1>2, <1>3, <1>4
  <1>5. CASE h # "fork"
    <2> DEFINE a == StageAfter(h)
    <2>1. i + 1 \in 1 .. Len(Stages)
      BY <1>2, <1>5, StagesAre
    <2>2. a = Stages[i + 1]
      BY <1>1, StageFollows
    <2>3. a \in ToSet(Stages)
      BY <2>1, <2>2, StagesAre DEF ToSet
    <2> HIDE DEF a
    <2>4. \/ h = "resolve" /\ a = "argv"
          \/ h = "argv" /\ a = "envp"
          \/ h = "envp" /\ a \in {"openpt", "openpty"}
          \/ h = "openpt" /\ a = "grant"
          \/ h = "grant" /\ a = "name"
          \/ h = "name" /\ a = "openSlave"
          \/ h = "openSlave" /\ a = "winsize"
          \/ h \in {"winsize", "openpty"} /\ a = "attributes"
          \/ h = "attributes" /\ a = "place"
          \/ h = "place" /\ a = "statusPipe"
          \/ h = "statusPipe" /\ a = "statusFlags"
          \/ h = "statusFlags" /\ a = "statusMove"
          \/ h = "statusMove" /\ a = "statusPlace"
          \/ h = "statusPlace" /\ a = "exitPipe"
          \/ h = "exitPipe" /\ a = "exitPlace"
          \/ h = "exitPlace" /\ a = "releasePipe"
          \/ h = "releasePipe" /\ a = "releasePlace"
          \/ h = "releasePlace" /\ a = "mask"
          \/ h = "mask" /\ a = "fork"
      BY <1>1, <2>1, <2>2, StageAt, StagesAre DEF StageIs
    <2>5. (HostHolds(h) \union Acquires(h))
            \ (IF h = "statusPlace" THEN {"statusW0"} ELSE {}) = HostHolds(a)
      BY <2>4 DEF HostHolds, Acquires, Terminal, Pipe, PipeAndExit, Everything, Memory
    <2>6. a # "resolve"
      BY <2>4
    <2> QED
      BY <1>2, <1>3, <1>5, <2>3, <2>5, <2>6 DEF a
  <1> QED
    BY <1>4, <1>5

-----------------------------------------------------------------------------
(* What is held, and what that says                                        *)

\* Nobody holds anything else.
LEMMA HoldsResources ==
  ASSUME NEW p \in Procs, NEW l
  PROVE  Holds(p, l) \subseteq Resources
  <1>1. HostHolds(l) \subseteq Resources
    BY DEF HostHolds, Resources, Everything, PipeAndExit, Pipe, Terminal, Memory, HostEnds
  <1>2. LauncherHolds(l) \subseteq Resources
    BY DEF LauncherHolds, Kept, Resources, Everything, PipeAndExit, Pipe, Terminal
  <1>3. SupervisorHolds(l) \subseteq Resources
    BY DEF SupervisorHolds, Kept, Resources, Everything, PipeAndExit, Pipe, Terminal
  <1>4. ProgramHolds(l) \subseteq Resources
    BY DEF ProgramHolds, Kept, Resources, Everything, PipeAndExit, Pipe, Terminal
  <1> QED
    BY <1>1, <1>2, <1>3, <1>4 DEF Holds, Procs, Chain

\* The host's ends of the pipes.
LEMMA HostEndsHeld ==
  ASSUME HeldOK, Labels
  PROVE  /\ Holding("host", "statusR") <=> HostReads
         /\ Holding("host", "exitR") <=> HostListens
         /\ Holding("host", "releaseW") <=> HostWithholds
  <1>1. held["host"] = HostHolds(host)
    BY DEF HeldOK, Procs, Holds, At
  <1>2. "statusR" \in HostHolds(host) <=> HostReads
    BY DEF HostHolds, HostReads, Everything, PipeAndExit, Pipe, Terminal, Memory, HostEnds,
       HasStatus, HasExit, HasRelease, Starting
  <1>3. "exitR" \in HostHolds(host) <=> HostListens
    BY DEF HostHolds, HostListens, Everything, PipeAndExit, Pipe, Terminal, Memory, HostEnds,
       HasExit, HasRelease, Starting, Started
  <1>4. "releaseW" \in HostHolds(host) <=> HostWithholds
    BY DEF HostHolds, HostWithholds, Everything, PipeAndExit, Pipe, Terminal, Memory, HostEnds,
       HasRelease, Starting, Started
  <1> QED
    BY <1>1, <1>2, <1>3, <1>4 DEF Holding

\* The end of file of the status pipe: whoever could report an error is gone.
LEMMA StatusEnds ==
  ASSUME HeldOK, ChainOK, ~Open("statusW"), pc["launcher"] # "unborn"
  PROVE  NobodyCanReport /\ pc["supervisor"] # "detach"
  <1>1. /\ "statusW" \notin LauncherHolds(pc["launcher"])
        /\ "statusW" \notin SupervisorHolds(pc["supervisor"])
        /\ "statusW" \notin ProgramHolds(pc["program"])
    BY DEF HeldOK, Procs, Chain, Holds, At, Open, Holding
  <1>2. pc["launcher"] \in Gone
    BY <1>1 DEF LauncherHolds, Everything, PipeAndExit, Pipe, Kept, ChainOK, LauncherAt,
       LauncherEarly
  <1>3. pc["supervisor"] \notin SupervisorEarly /\ pc["supervisor"] # "detach"
    BY <1>1 DEF SupervisorHolds, Kept, SupervisorEarly
  <1>4. pc["program"] \notin ProgramEarly
    BY <1>1 DEF ProgramHolds, Kept, ProgramEarly
  <1> QED
    BY <1>2, <1>3, <1>4 DEF NobodyCanReport

\* The end of file of the exit pipe: there is no supervisor, nor one that could
\* still be forked.
LEMMA ExitEnds ==
  ASSUME HeldOK, ChainOK, ~Open("exitW"), pc["launcher"] # "unborn"
  PROVE  pc["launcher"] \in Gone /\ pc["supervisor"] \in {"unborn"} \union Gone
  <1>1. /\ "exitW" \notin LauncherHolds(pc["launcher"])
        /\ "exitW" \notin SupervisorHolds(pc["supervisor"])
    BY DEF HeldOK, Procs, Chain, Holds, At, Open, Holding
  <1>2. pc["launcher"] \in Gone
    BY <1>1 DEF LauncherHolds, Everything, PipeAndExit, Kept, ChainOK, LauncherAt, LauncherEarly
  <1>3. pc["supervisor"] \in {"unborn"} \union Gone
    BY <1>1 DEF SupervisorHolds, Kept, SupervisorEarly, SupervisorLate, SupervisorAt, ChainOK
  <1> QED
    BY <1>2, <1>3

\* One process comes to hold what it does at its next label.
LEMMA HeldMoves ==
  ASSUME HeldOK, NEW p \in Procs, NEW x, held' = [held EXCEPT ![p] = x], x = Holds(p, At(p)'),
         \A q \in Procs \ {p} : Holds(q, At(q)') = Holds(q, At(q))
  PROVE  HeldOK'
  <1>1. x \subseteq Resources
    BY HoldsResources
  <1> QED
    BY <1>1 DEF HeldOK

\* Only the host's descriptors change, to those of the step it goes to.
LEMMA HostMoves ==
  ASSUME HeldOK, NEW x, held' = [held EXCEPT !["host"] = x], x = HostHolds(host'), UNCHANGED pc
  PROVE  HeldOK'
  <1>1. "host" \in Procs /\ x = Holds("host", At("host")')
    BY DEF Procs, Holds, At
  <1>2. \A q \in Procs \ {"host"} : Holds(q, At(q)') = Holds(q, At(q))
    BY DEF At
  <1> QED
    BY <1>1, <1>2, HeldMoves

-----------------------------------------------------------------------------
(* The host                                                                *)

\* As long as the host sets up there is no chain, and nothing in the pipes.
LEMMA NothingYet ==
  ASSUME Labels, host \in Setup
  PROVE  /\ \A p \in Chain : pc[p] = "unborn" /\ ended[p] = "no"
         /\ status = <<>> /\ exits = <<>> /\ pid = FALSE /\ exitSeen = "none" /\ verdict # "ok"
  <1>1. \A p \in Chain : pc[p] = "unborn"
    BY DEF Labels, ChainOK, Chain, SupervisorEarly
  <1>2. \A p \in Chain : ended[p] = "no"
    BY <1>1 DEF Labels, ChainOK, Gone
  <1>3. pc["launcher"] \notin Gone /\ pc["program"] = "unborn"
    BY <1>1 DEF Chain, Gone
  <1>4. status = <<>>
    BY <1>3 DEF Labels, StatusOK, NobodyCanReport
  <1>5. exits = <<>> /\ pid = FALSE
    BY <1>3 DEF Labels, ExitsOK, PidSent, HostOK
  <1>6. exitSeen = "none" /\ verdict # "ok"
    BY <1>5 DEF Labels, ExitsOK
  <1> QED
    BY <1>1, <1>2, <1>4, <1>5, <1>6

\* Where the host may be when it is not looking for the program any more.
LEMMA HostStays ==
  ASSUME IInv, UNCHANGED android,
         host' \in (ToSet(Stages) \ {"resolve"}) \union Starting \union Started
                      \union {"giveUp", "released", "failed", "dead"},
         pid' \in BOOLEAN, exitSeen' \in {"none", "report", "eof"},
         UNCHANGED <<path, entry, denied>> \/ (path' = <<>> /\ entry' = 1 /\ denied' = FALSE)
  PROVE  HostOK'
  <1>1. ToSet(Stages)' = ToSet(Stages) /\ android' \in BOOLEAN
    BY DEF Stages, IInv, Labels, HostOK
  <1>2. /\ path' \in Seq(AccessResult) /\ Len(path') <= MaxPath /\ entry' \in 1 .. MaxPath
        /\ denied' \in BOOLEAN
    <2>1. CASE UNCHANGED <<path, entry, denied>>
      BY <2>1 DEF IInv, Labels, HostOK
    <2>2. CASE path' = <<>> /\ entry' = 1 /\ denied' = FALSE
      <3>1. <<>> \in Seq(AccessResult) /\ Len(<<>>) = 0 /\ 1 \in 1 .. MaxPath /\ 0 <= MaxPath
        BY SpawnAssumption
      <3> QED
        BY <2>2, <3>1
    <2> QED
      BY <2>1, <2>2
  <1>3. host' # "resolve"
    BY DEF Starting, Started
  <1> QED
    BY <1>1, <1>2, <1>3 DEF HostOK

\* A step before the fork.
LEMMA SetupMoves ==
  ASSUME Labels, host \in Setup, HostOK', host' \in Setup \union {"failed", "dead"},
         verdict' # "ok", UNCHANGED <<pc, ended, status, exits, pid, exitSeen>>
  PROVE  Labels'
  <1>1. /\ \A p \in Chain : pc[p] = "unborn" /\ ended[p] = "no"
        /\ status = <<>> /\ exits = <<>> /\ pid = FALSE /\ exitSeen = "none"
    BY NothingYet
  <1>2. /\ pc["launcher"] = "unborn" /\ pc["supervisor"] = "unborn" /\ pc["program"] = "unborn"
        /\ ended["supervisor"] = "no" /\ ended["program"] = "no"
    BY <1>1 DEF Chain
  <1>3. host' \notin Starting \union Started \union {"giveUp", "released"}
    BY DEF Setup, HasStatus, HasExit, HasRelease, Starting, Started
  <1>4. ChainOK'
    BY <1>1, <1>2, <1>3 DEF Labels, ChainOK, SupervisorEarly, SupervisorLate, Gone
  <1>5. ExitsOK'
    BY <1>1, <1>2, <1>3 DEF ExitsOK, PidSent, ReportSent, Started
  <1>6. EndOK' /\ StatusOK'
    BY <1>1, <1>2, <1>3 DEF EndOK, StatusOK, Started
  <1>7. FailedOK'
    BY <1>2 DEF FailedOK, NeverRuns, SupervisorEarly, LauncherEarly
  <1> QED
    BY <1>4, <1>5, <1>6, <1>7 DEF Labels

\* The loop over PATH of resolve_executable.
LEMMA ResolveKeeps ==
  ASSUME IInv, Resolve
  PROVE  IInv'
  <1>1. /\ host = "resolve" /\ host \in Setup /\ host \in ToSet(Stages)
        /\ UNCHANGED <<android, pc, ended, status, exits, pid, exitSeen>>
        /\ path \in Seq(AccessResult) /\ Len(path) <= MaxPath /\ entry \in 1 .. MaxPath
        /\ entry <= Len(path) /\ denied \in BOOLEAN
        /\ pid \in BOOLEAN /\ exitSeen \in {"none", "report", "eof"}
    BY DEF Resolve, chain, IInv, Labels, HostOK, Setup, Starting, Started
  <1>2. held["host"] = {} /\ verdict # "ok"
    BY <1>1, NothingYet DEF IInv, HeldOK, Procs, Holds, At, HostHolds
  <1>3. <<>> \in Seq(AccessResult) /\ Len(<<>>) = 0 /\ 1 \in 1 .. MaxPath /\ MaxPath \in Nat
    BY SpawnAssumption
  <1>4. SawDenied \in BOOLEAN
    BY <1>1 DEF SawDenied
  <1>5. CASE /\ host' = StageAfter("resolve") /\ path' = <<>> /\ denied' = FALSE /\ entry' = 1
             /\ held' = [held EXCEPT !["host"] = @ \union Acquires("resolve")]
             /\ UNCHANGED verdict
    <2>1. host' \in ToSet(Stages) \ {"resolve"}
          /\ HostHolds(host') = HostHolds("resolve") \union Acquires("resolve")
      BY <1>1, <1>5, StageHolds
    <2>2. host' \in Setup
      BY <2>1, StageHolds
    <2>3. held' = [held EXCEPT !["host"] = HostHolds(host')]
      BY <1>2, <1>5, <2>1 DEF HostHolds
    <2>4. HeldOK'
      BY <1>1, <2>3, HostMoves DEF IInv
    <2>5. HostOK'
      BY <1>1, <1>3, <1>5, <2>1, HostStays
    <2> QED
      BY <1>1, <1>2, <1>5, <2>2, <2>4, <2>5, SetupMoves DEF IInv
  <1>6. CASE /\ entry < Len(path) /\ entry' = entry + 1 /\ denied' = SawDenied
             /\ UNCHANGED <<host, path, held, verdict>>
    <2>1. HeldOK'
      BY <1>1, <1>6 DEF IInv, HeldOK, At
    <2>2. entry' \in 1 .. MaxPath /\ entry' <= Len(path)
      BY <1>1, <1>3, <1>6
    <2>3. HostOK'
      <3>1. ToSet(Stages)' = ToSet(Stages)
        BY <1>1 DEF Stages
      <3>2. host' = host /\ path' = path /\ entry' \in 1 .. MaxPath /\ entry' <= Len(path')
            /\ denied' \in BOOLEAN
        BY <1>4, <1>6, <2>2
      <3> QED
        BY <1>1, <3>1, <3>2 DEF HostOK, IInv, Labels
    <2> QED
      BY <1>1, <1>2, <1>6, <2>1, <2>3, SetupMoves DEF IInv
  <1>7. CASE /\ Fails(Closes("resolve"), IF SawDenied THEN "EACCES" ELSE "ENOENT")
             /\ path' = <<>> /\ denied' = FALSE /\ entry' = 1
    <2>1. host' = "failed" /\ verdict' # "ok" /\ held' = [held EXCEPT !["host"] = {}]
      BY <1>2, <1>7 DEF Fails
    <2>2. HeldOK'
      BY <1>1, <2>1, HostMoves DEF IInv, HostHolds
    <2>3. HostOK'
      BY <1>1, <1>3, <1>7, <2>1, HostStays
    <2> QED
      BY <1>1, <2>1, <2>2, <2>3, SetupMoves DEF IInv
  <1> QED
    BY <1>5, <1>6, <1>7 DEF Resolve

\* A stage of the setup succeeds, or fails and gives everything back.
LEMMA SetupSucceedsKeeps ==
  ASSUME IInv, SetupSucceeds
  PROVE  IInv'
  <1>1. /\ host \in ToSet(Stages) /\ host \in Setup /\ host' = StageAfter(host)
        /\ host' \in ToSet(Stages) /\ host' \in Setup \ {"resolve"}
        /\ UNCHANGED <<search, chain, verdict, pid, exitSeen>>
    BY StageHolds DEF SetupSucceeds
  <1>2. HeldOK'
    <2> DEFINE x == (held["host"] \union Acquires(host)) \
                      (IF host = "statusPlace" THEN {"statusW0"} ELSE {})
    <2>1. held["host"] = HostHolds(host)
      BY DEF IInv, HeldOK, Procs, Holds, At
    <2>2. x = HostHolds(host')
      BY <1>1, <2>1, StageHolds DEF SetupSucceeds
    <2>3. held' = [held EXCEPT !["host"] = x] /\ UNCHANGED pc
      BY <1>1 DEF SetupSucceeds, chain
    <2> QED
      BY <2>2, <2>3, HostMoves DEF IInv
  <1>3. HostOK'
    BY <1>1, HostStays DEF IInv, Labels, HostOK, search
  <1>4. Labels'
    BY <1>1, <1>3, NothingYet, SetupMoves DEF IInv, chain
  <1> QED
    BY <1>2, <1>4 DEF IInv

\* A stage that fails closes what the stages before it opened.
LEMMA SetupFailsKeeps ==
  ASSUME IInv, SetupFails
  PROVE  IInv'
  <1>1. /\ host \in ToSet(Stages) /\ host \in Setup /\ host' = "failed" /\ verdict' = "setup"
        /\ held' = [held EXCEPT !["host"] = @ \ Closes(host)]
        /\ UNCHANGED <<search, chain, pid, exitSeen>>
    BY StageHolds DEF SetupFails, Fails
  <1>2. HeldOK'
    <2>1. held["host"] = HostHolds(host)
      BY DEF IInv, HeldOK, Procs, Holds, At
    <2>2. held' = [held EXCEPT !["host"] = {}]
      BY <1>1, <2>1, StageHolds
    <2> QED
      BY <1>1, <2>2, HostMoves DEF IInv, HostHolds, chain
  <1>3. HostOK'
    BY <1>1, HostStays DEF IInv, Labels, HostOK, search
  <1>4. Labels'
    BY <1>1, <1>3, SetupMoves DEF IInv, chain
  <1> QED
    BY <1>2, <1>4 DEF IInv

\* The fork: the launcher has what the host had.
LEMMA ForkKeeps ==
  ASSUME IInv, Fork
  PROVE  IInv'
  <1>1. /\ host = "fork" /\ host \in Setup /\ host' = "close"
        /\ pc' = [pc EXCEPT !["launcher"] = "signals"]
        /\ held' = [held EXCEPT !["launcher"] = held["host"]]
        /\ UNCHANGED <<search, ended, status, exits, verdict, pid, exitSeen>>
    BY DEF Fork, Setup, HasStatus, HasExit, HasRelease
  <1>2. /\ \A p \in Chain : pc[p] = "unborn" /\ ended[p] = "no"
        /\ status = <<>> /\ exits = <<>> /\ pid = FALSE /\ exitSeen = "none" /\ verdict # "ok"
    BY <1>1, NothingYet DEF IInv
  <1>3. pc \in [Chain -> LauncherAt \union SupervisorAt \union ProgramAt]
    BY DEF IInv, Labels, ChainOK
  <1>4. /\ pc'["launcher"] = "signals" /\ pc'["supervisor"] = "unborn" /\ pc'["program"] = "unborn"
        /\ ended'["supervisor"] = "no" /\ ended'["program"] = "no" /\ ended'["launcher"] = "no"
    BY <1>1, <1>2, <1>3 DEF Chain
  <1>5. host' \in Starting /\ host' \notin Setup \union Started
    BY <1>1 DEF Starting, Started, Setup, HasStatus, HasExit, HasRelease
  <1>6. HeldOK'
    <2>1. held["host"] = Everything /\ held["host"] = Holds("launcher", At("launcher")')
      BY <1>1, <1>4 DEF IInv, HeldOK, Procs, Holds, At, HostHolds, LauncherHolds
    <2>2. \A q \in Procs \ {"launcher"} : Holds(q, At(q)') = Holds(q, At(q))
      BY <1>1, <1>2, <1>4 DEF Procs, Chain, Holds, At, HostHolds
    <2> QED
      BY <1>1, <2>1, <2>2, HeldMoves DEF IInv, Procs, Chain
  <1>7. HostOK'
    BY <1>1, <1>5, HostStays DEF IInv, Labels, HostOK, search
  <1>8. ChainOK'
    <2>1. pc' \in [Chain -> LauncherAt \union SupervisorAt \union ProgramAt]
      BY <1>1, <1>3 DEF LauncherAt, LauncherEarly
    <2>2. \A p \in Chain : ended'[p] = "no" /\ pc'[p] \notin Gone
      BY <1>4 DEF Chain, Gone
    <2> QED
      BY <1>1, <1>4, <1>5, <2>1, <2>2 DEF IInv, Labels, ChainOK, LauncherAt, LauncherEarly, SupervisorAt,
         SupervisorEarly, SupervisorLate, ProgramAt, Gone
  <1>9. ExitsOK'
    BY <1>1, <1>2, <1>4 DEF ExitsOK, PidSent, ReportSent
  <1>10. EndOK' /\ StatusOK'
    BY <1>1, <1>2, <1>4 DEF EndOK, StatusOK
  <1>11. FailedOK'
    BY <1>1 DEF FailedOK
  <1> QED
    BY <1>6, <1>7, <1>8, <1>9, <1>10, <1>11 DEF IInv, Labels

\* After the fork a step of the host alone leaves the chain as it was.
LEMMA ChainStays ==
  ASSUME IInv, UNCHANGED <<pc, ended>>,
         \/ host \in Starting \union Started /\ host' \in Starting \union Started
         \/ host' \in {"giveUp", "released", "failed", "dead"}
  PROVE  ChainOK'
  <1>1. host' \notin Setup
    BY DEF Setup, HasStatus, HasExit, HasRelease, Starting, Started
  <1>2. host' \in Starting \union Started => host \in Starting \union Started
    BY DEF Starting, Started
  <1> QED
    BY <1>1, <1>2 DEF IInv, Labels, ChainOK

\* The host closes its copies of what it gave the launcher.
LEMMA HostClosesKeeps ==
  ASSUME IInv, HostCloses
  PROVE  IInv'
  <1>1. /\ host = "close" /\ host' = "waitLauncher"
        /\ held' = [held EXCEPT !["host"] = @ \ {"statusW", "exitW", "releaseR"}]
        /\ UNCHANGED <<search, pc, ended, status, exits, verdict, pid, exitSeen>>
    BY DEF HostCloses, chain
  <1>2. host \in Starting /\ host' \in Starting
    BY <1>1 DEF Starting
  <1>3. HeldOK'
    <2>1. held["host"] \ {"statusW", "exitW", "releaseR"} = HostHolds(host')
      BY <1>1 DEF IInv, HeldOK, Procs, Holds, At, HostHolds, Everything, PipeAndExit, Pipe, Terminal,
         Memory, HostEnds
    <2> QED
      BY <1>1, <2>1, HostMoves DEF IInv
  <1>4. HostOK'
    BY <1>1, <1>2, HostStays DEF IInv, Labels, HostOK, search
  <1>5. ChainOK'
    BY <1>1, <1>2, ChainStays
  <1>6. ExitsOK'
    BY <1>1 DEF IInv, Labels, ExitsOK, PidSent, ReportSent
  <1>7. EndOK' /\ StatusOK'
    BY <1>1, <1>2 DEF IInv, Labels, EndOK, StatusOK, HostReads, HostWithholds, HostListens, NobodyCanReport,
       HasRelease
  <1>8. FailedOK'
    BY <1>1 DEF FailedOK
  <1> QED
    BY <1>3, <1>4, <1>5, <1>6, <1>7, <1>8 DEF IInv, Labels

\* The launcher is waited for, by the host or by a runtime that reaps everyone.
LEMMA LauncherReaped ==
  ASSUME IInv, pc["launcher"] \in Gone, pc' = [pc EXCEPT !["launcher"] = "reaped"],
         \/ UNCHANGED host
         \/ host \in Starting /\ host' = "readStatus",
         UNCHANGED <<search, held, ended, status, exits, verdict, pid, exitSeen>>,
         HostHolds(host') = HostHolds(host)
  PROVE  IInv'
  <1>1. pc \in [Chain -> LauncherAt \union SupervisorAt \union ProgramAt]
    BY DEF IInv, Labels, ChainOK
  <1>2. /\ pc'["launcher"] = "reaped" /\ pc'["supervisor"] = pc["supervisor"]
        /\ pc'["program"] = pc["program"]
        /\ pc' \in [Chain -> LauncherAt \union SupervisorAt \union ProgramAt]
    BY <1>1 DEF Chain, LauncherAt, Gone
  <1>3. HeldOK'
    <2>1. Holds("launcher", At("launcher")') = Holds("launcher", At("launcher"))
      BY <1>2 DEF Holds, At, LauncherHolds, Gone
    <2>2. \A q \in Procs : Holds(q, At(q)') = Holds(q, At(q))
      BY <1>2, <2>1 DEF Procs, Chain, Holds, At
    <2> QED
      BY <2>2 DEF IInv, HeldOK
  <1>4. HostOK'
    <2>1. CASE UNCHANGED host
      BY <2>1 DEF IInv, Labels, HostOK, search, Stages
    <2>2. CASE host' = "readStatus"
      BY <2>2, HostStays DEF IInv, Labels, HostOK, search, Starting
    <2> QED
      BY <2>1, <2>2
  <1>5. ChainOK'
    <2>1. pc["launcher"] # "unborn" /\ "reaped" \in Gone \intersect LauncherAt
      BY DEF Gone, LauncherAt
    <2>2. host' \notin Setup
      BY <2>1 DEF IInv, Labels, ChainOK, Setup, HasStatus, HasExit, HasRelease
    <2>3. \A p \in Chain : ended'[p] = "no" <=> pc'[p] \notin Gone
      BY <1>2, <2>1 DEF IInv, Labels, ChainOK, Chain
    <2> QED
      BY <1>2, <2>1, <2>2, <2>3 DEF IInv, Labels, ChainOK, Gone
  <1>6. ExitsOK'
    BY <1>2 DEF IInv, Labels, ExitsOK, PidSent, ReportSent
  <1>7. /\ HostReads' = HostReads /\ HostListens' = HostListens /\ HostWithholds' = HostWithholds
        /\ UNCHANGED host \/ (host' = "readStatus" /\ host \notin {"spawned", "released", "dead"})
    BY DEF HostReads, HostListens, HostWithholds, Starting
  <1>8. EndOK' /\ StatusOK'
    BY <1>2, <1>7 DEF IInv, Labels, EndOK, StatusOK, NobodyCanReport, Gone
  <1>9. FailedOK'
    BY <1>2 DEF IInv, Labels, FailedOK, NeverRuns, LauncherEarly
  <1> QED
    BY <1>3, <1>4, <1>5, <1>6, <1>8, <1>9 DEF IInv, Labels

\* The launcher is gone before it is waited for, or before the runtime reaps it.
LEMMA WaitLauncherKeeps ==
  ASSUME IInv, WaitLauncher \/ RuntimeReapsLauncher
  PROVE  IInv'
  <1>1. CASE WaitLauncher
    <2>1. host = "waitLauncher" /\ host' = "readStatus" /\ host \in Starting
      BY <1>1 DEF WaitLauncher, Starting
    <2>2. pc["launcher"] \in Gone
      BY <1>1, <2>1 DEF WaitLauncher, Alive, IInv, Labels, ChainOK, Gone
    <2> QED
      BY <1>1, <2>1, <2>2, LauncherReaped DEF WaitLauncher, HostHolds
  <1>2. CASE RuntimeReapsLauncher
    BY <1>2, LauncherReaped DEF RuntimeReapsLauncher, Gone
  <1> QED
    BY <1>1, <1>2

\* The status pipe is read: its end of file says that nobody will report any more
\* and that the program has executed, or has died without an error.
LEMMA ReadStatusKeeps ==
  ASSUME IInv, ReadStatus \/ ReadStatusFails
  PROVE  IInv'
  <1>1. /\ host = "readStatus" /\ host \in Starting
        /\ held' = [held EXCEPT !["host"] = @ \ ({"statusR"} \union Memory)]
        /\ UNCHANGED <<search, pc, ended, status, exits, verdict, pid, exitSeen>>
    BY DEF ReadStatus, ReadStatusFails, chain, Starting
  <1>2. \/ host' = "reported" /\ status # <<>>
        \/ host' = "readPid" /\ status = <<>> /\ ~Open("statusW")
        \/ host' = "unreadable"
    BY DEF ReadStatus, ReadStatusFails
  <1>3. host' \in Started /\ verdict # "ok"
    BY <1>1, <1>2 DEF Started, IInv, Labels, StatusOK
  <1>4. HeldOK'
    <2>1. held["host"] \ ({"statusR"} \union Memory) = HostHolds(host')
      BY <1>1, <1>2 DEF IInv, HeldOK, Procs, Holds, At, HostHolds, Memory, HostEnds
    <2> QED
      BY <1>1, <2>1, HostMoves DEF IInv
  <1>5. HostOK'
    BY <1>1, <1>3, HostStays DEF IInv, Labels, HostOK, search
  <1>6. ChainOK'
    BY <1>1, <1>3, ChainStays
  <1>7. ExitsOK'
    BY <1>1, <1>2 DEF IInv, Labels, ExitsOK, PidSent, ReportSent
  <1>8. EndOK'
    BY <1>1, <1>3 DEF IInv, Labels, EndOK, HostWithholds, HostListens
  <1>9. StatusOK'
    <2>1. ~HostReads'
      BY <1>2 DEF HostReads, HasStatus, HasExit, HasRelease, Starting
    <2>2. HostReads
      BY <1>1 DEF HostReads
    <2>3. CASE host' = "readPid"
      <3>1. NobodyCanReport /\ pc["supervisor"] # "detach"
        BY <1>1, <1>2, <2>3, StatusEnds DEF IInv, Labels, ChainOK
      <3> QED
        BY <1>1, <1>2, <1>3, <2>1, <2>2, <2>3, <3>1 DEF IInv, Labels, StatusOK, NobodyCanReport
    <2>4. CASE host' # "readPid"
      BY <1>1, <1>2, <1>3, <2>1, <2>4 DEF IInv, Labels, StatusOK, NobodyCanReport
    <2> QED
      BY <2>3, <2>4
  <1>10. FailedOK'
    BY <1>2 DEF FailedOK
  <1> QED
    BY <1>4, <1>5, <1>6, <1>7, <1>8, <1>9, <1>10 DEF IInv, Labels

\* A process of the chain dies.  Its parent, or init, sees to the rest; nobody
\* else is alive or dead that was not before.
LEMMA ChainDies ==
  ASSUME IInv, NEW p \in Chain, Alive(p), pc' = Dead(p),
         NEW how \in {"failed", "exited", "killed", "stopped", "hangup"},
         p = "supervisor" => how \notin {"stopped", "hangup"},
         ended' = [ended EXCEPT ![p] = how],
         UNCHANGED host \/ host' \in {"failed", "released"}
  PROVE  /\ ChainOK' /\ pc'[p] \in Gone /\ ended'[p] = how
         /\ \A q \in Chain \ {p} : /\ pc'[q] \in Gone <=> pc[q] \in Gone
                                   /\ pc[q] \notin Gone => pc'[q] = pc[q]
                                   /\ ended'[q] = ended[q]
  <1> DEFINE Labels3 == LauncherAt \union SupervisorAt \union ProgramAt
  <1>1. /\ pc \in [Chain -> Labels3] /\ pc["launcher"] \in LauncherAt
        /\ pc["supervisor"] \in SupervisorAt /\ pc["program"] \in ProgramAt
        /\ ended \in [Chain -> {"no", "failed", "exited", "killed", "stopped", "hangup"}]
        /\ \A q \in Chain : ended[q] = "no" <=> pc[q] \notin Gone
    BY DEF IInv, Labels, ChainOK
  <1>2. Gone \subseteq LauncherAt /\ Gone \subseteq SupervisorAt /\ Gone \subseteq ProgramAt
    BY DEF LauncherAt, SupervisorAt, ProgramAt
  <1>3. pc'[p] \in Gone
    BY DEF Dead, Gone
  <1>4. \A q \in Chain \ {p} : /\ pc'[q] \in Gone <=> pc[q] \in Gone
                               /\ pc[q] \notin Gone => pc'[q] = pc[q]
                               /\ pc'[q] = pc[q] \/ (q = "program" /\ p = "supervisor" /\ pc'[q] \in Gone)
    BY DEF Dead, Gone, Chain
  <1>5. ended'[p] = how /\ \A q \in Chain \ {p} : ended'[q] = ended[q]
    BY <1>1
  <1>6. pc[p] \notin {"unborn"} \union Gone
    BY DEF Alive, Gone
  <1>7. pc' \in [Chain -> Labels3] /\ ended' \in [Chain -> {"no", "failed", "exited", "killed", "stopped", "hangup"}]
    <2>1. \A q \in Chain : pc'[q] \in Labels3
      BY <1>1, <1>2, <1>3, <1>4
    <2>2. pc' = [q \in Chain |-> pc'[q]]
      BY DEF Dead
    <2> QED
      BY <1>1, <2>1, <2>2
  <1>8. /\ pc'["launcher"] \in LauncherAt /\ pc'["supervisor"] \in SupervisorAt
        /\ pc'["program"] \in ProgramAt
    BY <1>1, <1>2, <1>3, <1>4 DEF Chain
  <1>9. \A q \in Chain : ended'[q] = "no" <=> pc'[q] \notin Gone
    BY <1>1, <1>3, <1>4, <1>5
  <1>10. \A q \in Chain : pc'[q] = "unborn" <=> pc[q] = "unborn"
    BY <1>3, <1>4, <1>6 DEF Gone
  <1>11. ended'["supervisor"] \notin {"stopped", "hangup"}
    BY <1>5 DEF IInv, Labels, ChainOK, Chain
  <1>12. /\ host' \in Setup => pc'["launcher"] = "unborn"
         /\ host' \in Starting \union Started => pc'["launcher"] # "unborn"
    BY <1>10 DEF IInv, Labels, ChainOK, Chain, Setup, HasStatus, HasExit, HasRelease, Starting, Started
  <1>13. pc'["program"] = "reaped" => pc'["supervisor"] \in Gone
    <2>1. CASE p = "launcher"
      BY <1>4, <2>1 DEF IInv, Labels, ChainOK, Chain
    <2>2. CASE p = "supervisor"
      BY <1>3, <2>2
    <2>3. CASE p = "program"
      <3>1. pc["supervisor"] # "unborn"
        BY <1>6, <2>3 DEF IInv, Labels, ChainOK
      <3>2. Alive("supervisor") => pc'["program"] = "zombie"
        BY <2>3 DEF Dead
      <3>3. ~Alive("supervisor") => pc["supervisor"] \in Gone
        BY <3>1 DEF Alive, Gone
      <3> QED
        BY <1>4, <2>3, <3>2, <3>3 DEF Chain
    <2> QED
      BY <2>1, <2>2, <2>3 DEF Chain
  <1>14. /\ pc'["launcher"] = "unborn" => pc'["supervisor"] = "unborn"
         /\ pc'["supervisor"] # "unborn" => pc'["launcher"] \in Gone
    BY <1>3, <1>4, <1>10 DEF IInv, Labels, ChainOK, Chain
  <1>15. /\ pc'["supervisor"] \in {"unborn"} \union SupervisorEarly => pc'["program"] = "unborn"
         /\ pc'["supervisor"] \in {"detach", "sendPid"} \union SupervisorLate => pc'["program"] # "unborn"
    <2>1. \/ pc'["supervisor"] \in Gone
          \/ pc'["supervisor"] = pc["supervisor"]
      BY <1>3, <1>4 DEF Chain
    <2> QED
      BY <1>10, <2>1 DEF IInv, Labels, ChainOK, Chain, SupervisorEarly, SupervisorLate, Gone
  <1>16. pc'["supervisor"] \in {"sendReport", "awaitRelease"} => pc'["program"] \in Gone
    <2>1. \/ pc'["supervisor"] \in Gone
          \/ pc'["supervisor"] = pc["supervisor"]
      BY <1>3, <1>4 DEF Chain
    <2> QED
      BY <1>3, <1>4, <2>1 DEF IInv, Labels, ChainOK, Chain, Gone
  <1> QED
    BY <1>3, <1>4, <1>5, <1>7, <1>8, <1>9, <1>11, <1>12, <1>13, <1>14, <1>15, <1>16 DEF ChainOK

\* The dead hold nothing.
LEMMA GoneHolds ==
  ASSUME NEW p \in Chain, NEW l \in Gone
  PROVE  Holds(p, l) = {}
  BY DEF Chain, Gone, Holds, LauncherHolds, SupervisorHolds, ProgramHolds

\* What a death leaves to be held.
LEMMA DeathHolds ==
  ASSUME HeldOK, NEW p \in Chain, pc'[p] \in Gone, host' = host,
         \A q \in Chain \ {p} : /\ pc'[q] \in Gone <=> pc[q] \in Gone
                                /\ pc[q] \notin Gone => pc'[q] = pc[q],
         held' = [held EXCEPT ![p] = {}]
  PROVE  HeldOK'
  <1>1. Holds(p, At(p)') = {}
    BY GoneHolds DEF At, Chain
  <1>2. \A q \in Procs \ {p} : Holds(q, At(q)') = Holds(q, At(q))
    <2> SUFFICES ASSUME NEW q \in Procs \ {p} PROVE Holds(q, At(q)') = Holds(q, At(q))
      OBVIOUS
    <2>1. CASE q = "host"
      BY <2>1 DEF At
    <2>2. CASE q # "host"
      <3>1. q \in Chain \ {p} /\ At(q) = pc[q] /\ At(q)' = pc'[q]
        BY <2>2 DEF Procs, At
      <3> QED
        BY <3>1, GoneHolds
    <2> QED
      BY <2>1, <2>2
  <1> QED
    BY <1>1, <1>2, HeldMoves DEF Procs

\* The host is through with the program: it closes what it has and stops the
\* program, if it has to.
LEMMA HostLetsGo ==
  ASSUME IInv, NEW closed, HostHolds(host) \ closed = {}, host \notin Setup,
         UNCHANGED <<search, status, exits, pid, exitSeen>>,
         \/ /\ host' = "failed" /\ verdict' # "ok" /\ host \notin {"spawned", "released", "dead"}
            /\ \/ ended'["supervisor"] = "killed" \/ pc'["program"] \in Gone
               \/ NeverRuns /\ UNCHANGED pc
         \/ host = "spawned" /\ host' = "released" /\ UNCHANGED verdict,
         \/ /\ Alive("program") /\ pc' = Dead("program")
            /\ ended' = [ended EXCEPT !["program"] = "stopped"]
            /\ held' = [held EXCEPT !["host"] = @ \ closed, !["program"] = {}]
         \/ held' = [held EXCEPT !["host"] = @ \ closed] /\ UNCHANGED <<pc, ended>>
  PROVE  IInv'
  <1>1. host' \in {"failed", "released"} /\ HostHolds(host') = {}
    BY DEF HostHolds
  <1>2. /\ ChainOK'
        /\ \A q \in Chain \ {"program"} : /\ pc'[q] \in Gone <=> pc[q] \in Gone
                                          /\ pc[q] \notin Gone => pc'[q] = pc[q]
                                          /\ ended'[q] = ended[q]
        /\ UNCHANGED <<pc, ended>> \/ (pc'["program"] \in Gone /\ ended'["program"] = "stopped")
    <2>1. CASE pc' = Dead("program") /\ ended' = [ended EXCEPT !["program"] = "stopped"]
                 /\ Alive("program")
      BY <1>1, <2>1, ChainDies DEF Chain
    <2>2. CASE UNCHANGED <<pc, ended>>
      BY <1>1, <2>2, ChainStays
    <2> QED
      BY <2>1, <2>2
  <1>3. HeldOK'
    <2>1. held["host"] \ closed = {} /\ "host" \notin Chain
      BY DEF IInv, HeldOK, Procs, Holds, At, Chain
    <2>2. held \in [Procs -> SUBSET Resources] /\ \A p \in Procs : held[p] = Holds(p, At(p))
      BY DEF IInv, HeldOK
    <2>3. \A q \in Chain : q # "host" /\ At(q) = pc[q] /\ At(q)' = pc'[q] /\ q \in Procs
      BY DEF Chain, At, Procs
    <2>4. Holds("host", At("host")') = {} /\ "host" \in Procs
      BY <1>1 DEF Holds, At, Procs
    <2>5. CASE UNCHANGED pc /\ held' = [held EXCEPT !["host"] = @ \ closed]
      BY <1>1, <2>1, <2>5, HostMoves DEF IInv
    <2>6. CASE /\ Alive("program") /\ pc' = Dead("program")
               /\ ended' = [ended EXCEPT !["program"] = "stopped"]
               /\ held' = [held EXCEPT !["host"] = @ \ closed, !["program"] = {}]
      <3>1. pc'["program"] \in Gone
        BY <2>6, <1>1, ChainDies DEF Chain
      <3>2. held' \in [Procs -> SUBSET Resources] /\ held'["host"] = {} /\ held'["program"] = {}
            /\ held'["launcher"] = held["launcher"] /\ held'["supervisor"] = held["supervisor"]
        BY <2>1, <2>2, <2>6 DEF Procs, Chain
      <3>3. held'["program"] = Holds("program", At("program")')
        BY <2>3, <3>1, <3>2, GoneHolds DEF Chain
      <3>4. ASSUME NEW q \in Chain \ {"program"} PROVE held'[q] = Holds(q, At(q)')
        <4>1. Holds(q, pc'[q]) = Holds(q, pc[q])
          <5>1. CASE pc[q] \in Gone
            BY <1>2, <5>1, GoneHolds
          <5>2. CASE pc[q] \notin Gone
            BY <1>2, <5>2
          <5> QED
            BY <5>1, <5>2
        <4>2. held'[q] = held[q]
          BY <3>2 DEF Chain
        <4> QED
          BY <2>2, <2>3, <4>1, <4>2
      <3> QED
        BY <2>4, <3>2, <3>3, <3>4 DEF HeldOK, Procs, Chain
    <2> QED
      BY <2>5, <2>6
  <1>4. HostOK'
    BY <1>1, HostStays DEF IInv, Labels, HostOK, search
  <1>5. /\ pc'["launcher"] \in Gone <=> pc["launcher"] \in Gone
        /\ pc'["supervisor"] = pc["supervisor"] \/ (pc'["supervisor"] \in Gone /\ pc["supervisor"] \in Gone)
        /\ pc'["program"] = pc["program"] \/ pc'["program"] \in Gone
        /\ ended'["supervisor"] = ended["supervisor"]
        /\ ended'["program"] = ended["program"] \/ ended'["program"] = "stopped"
    BY <1>2 DEF Chain
  <1>6. ExitsOK'
    <2>1. PidSent' = PidSent /\ ReportSent' = ReportSent
      BY DEF PidSent, ReportSent
    <2>2. host' = "failed" => exitSeen = "none" /\ verdict # "ok"
      BY DEF IInv, Labels, StatusOK, ExitsOK
    <2>3. host' = "released" => pid
      BY DEF IInv, Labels, ExitsOK
    <2> QED
      BY <1>1, <1>5, <2>1, <2>2, <2>3 DEF IInv, Labels, ExitsOK, Gone, SupervisorLate
  <1>7. ~HostWithholds' /\ ~HostListens' /\ ~HostReads'
    BY <1>1 DEF HostWithholds, HostListens, HostReads, HasStatus, HasExit, HasRelease, Starting, Started
  <1>8. EndOK'
    BY <1>7 DEF EndOK
  <1>9. StatusOK'
    <2>1. NobodyCanReport => NobodyCanReport'
      BY <1>5 DEF NobodyCanReport, Gone, ProgramEarly, SupervisorEarly
    <2>2. pc["program"] # "running" => pc'["program"] # "running"
      BY <1>5 DEF Gone
    <2>3. pc["supervisor"] # "detach" => pc'["supervisor"] # "detach"
      BY <1>5 DEF Gone
    <2>4. ended["program"] # "failed" => ended'["program"] # "failed"
      BY <1>5
    <2> QED
      BY <1>1, <1>7, <2>1, <2>2, <2>3, <2>4 DEF IInv, Labels, StatusOK
  <1>10. FailedOK'
    BY DEF FailedOK, NeverRuns
  <1> QED
    BY <1>2, <1>3, <1>4, <1>6, <1>8, <1>9, <1>10 DEF IInv, Labels

\* An error was reported, so nobody is left who could start the program.
LEMMA ReportedKeeps ==
  ASSUME IInv, Reported
  PROVE  IInv'
  <1>1. /\ host = "reported" /\ host' = "failed" /\ verdict' = status[1]
        /\ held' = [held EXCEPT !["host"] = @ \ HostEnds]
        /\ UNCHANGED <<search, pc, ended, status, exits, pid, exitSeen>>
    BY DEF Reported, Fails, chain
  <1>2. status # <<>> /\ \E e \in Reporting : status = <<e>>
    BY <1>1 DEF IInv, Labels, StatusOK
  <1>3. verdict' # "ok"
    BY <1>1, <1>2 DEF Reporting
  <1>4. HostHolds(host) \ HostEnds = {} /\ host \notin Setup
    BY <1>1 DEF HostHolds, Setup, HasStatus, HasExit, HasRelease
  <1>5. pc["program"] \in Gone \/ NeverRuns
    <2>1. NobodyCanReport /\ pc["program"] # "running"
      BY <1>2 DEF IInv, Labels, StatusOK
    <2>2. pc["program"] \in {"unborn"} \union Gone
      BY <2>1 DEF NobodyCanReport, IInv, Labels, ChainOK, ProgramAt
    <2> QED
      BY <2>1, <2>2 DEF NobodyCanReport, NeverRuns, LauncherEarly, Gone
  <1>6. host \notin {"spawned", "released", "dead"}
    BY <1>1
  <1> QED
    BY <1>1, <1>3, <1>4, <1>5, <1>6, HostLetsGo

\* An exit pipe that ends before the pid was sent: the program was never forked,
\* or its supervisor was killed.
LEMMA NoPidThere ==
  ASSUME IInv, host \in {"readPid", "unreadable"}, exits = <<>>, ~Open("exitW")
  PROVE  ended["supervisor"] = "killed" \/ NeverRuns
  <1>1. host \in Started /\ HostListens /\ HostWithholds
    BY DEF Started, HostListens, HostWithholds
  <1>2. pc["launcher"] # "unborn"
    BY <1>1 DEF IInv, Labels, ChainOK
  <1>3. pc["launcher"] \in Gone /\ pc["supervisor"] \in {"unborn"} \union Gone
    BY <1>2, ExitEnds DEF IInv, Labels
  <1>4. CASE pc["supervisor"] = "unborn"
    <2>1. pc["program"] = "unborn"
      BY <1>4 DEF IInv, Labels, ChainOK
    <2> QED
      BY <1>3, <1>4, <2>1 DEF NeverRuns, SupervisorEarly, LauncherEarly, Gone
  <1>5. CASE pc["supervisor"] \in Gone
    <2>1. ended["supervisor"] \in {"failed", "exited", "killed"}
      BY <1>5 DEF IInv, Labels, ChainOK, Chain
    <2>2. ended["supervisor"] # "exited"
      BY <1>1 DEF IInv, Labels, EndOK
    <2>3. ended["supervisor"] = "failed" => pc["program"] = "unborn"
      BY <1>1 DEF IInv, Labels, EndOK
    <2> QED
      BY <1>3, <1>5, <2>1, <2>2, <2>3 DEF NeverRuns, SupervisorEarly, LauncherEarly, Gone
  <1> QED
    BY <1>3, <1>4, <1>5

\* What is left of the exit pipe once its first message was read.
LEMMA ExitsTail ==
  ASSUME exits \in {<<>>, <<"pid">>, <<"report">>, <<"pid", "report">>}, exits # <<>>
  PROVE  /\ exits = <<"pid">> => Tail(exits) = <<>>
         /\ exits = <<"report">> => Tail(exits) = <<>>
         /\ exits = <<"pid", "report">> => Tail(exits) = <<"report">>
         /\ Tail(exits) \in {<<>>, <<"report">>}
  <1>1. exits = <<"pid">> => Tail(exits) = <<>>
    OBVIOUS
  <1>2. exits = <<"report">> => Tail(exits) = <<>>
    OBVIOUS
  <1>3. exits = <<"pid", "report">> => Tail(exits) = <<"report">>
    OBVIOUS
  <1> QED
    BY <1>1, <1>2, <1>3

\* The host takes the first message from the exit pipe for the pid.
LEMMA PidRead ==
  ASSUME IInv, exits # <<>>, exits' = Tail(exits), pid', verdict' # "ok", exitSeen = "none",
         host' \in {"giveUp", "configure"}, UNCHANGED <<pc, ended, exitSeen>>
  PROVE  ExitsOK'
  <1>1. PidSent
    BY DEF PidSent
  <1>2. /\ exits \in {<<>>, <<"pid">>, <<"report">>, <<"pid", "report">>}
        /\ exits' \in {<<>>, <<"report">>}
        /\ exits' = <<"report">> => exits = <<"pid", "report">>
    BY ExitsTail DEF IInv, Labels, ExitsOK
  <1>3. ReportSent' => ReportSent
    BY <1>2 DEF ReportSent
  <1>4. pc["supervisor"] \in {"wait", "sendReport"} => exits' = <<>>
    BY ExitsTail DEF IInv, Labels, ExitsOK
  <1> QED
    BY <1>1, <1>2, <1>3, <1>4 DEF IInv, Labels, ExitsOK

\* The host gave up on the status pipe, and reads the pid if there is one.
LEMMA UnreadableKeeps ==
  ASSUME IInv, Unreadable
  PROVE  IInv'
  <1>1. /\ host = "unreadable" /\ host' = "giveUp"
        /\ held' = [held EXCEPT !["host"] = @ \ {"exitR", "releaseW"}]
        /\ UNCHANGED <<search, pc, ended, status, verdict, exitSeen>>
        /\ \/ exits # <<>> /\ exits' = Tail(exits) /\ pid' = TRUE
           \/ exits = <<>> /\ ~Open("exitW") /\ UNCHANGED <<pid, exits>>
    BY DEF Unreadable
  <1>2. verdict # "ok" /\ exitSeen = "none"
    BY <1>1 DEF IInv, Labels, StatusOK, ExitsOK
  <1>3. HeldOK'
    <2>1. held["host"] \ {"exitR", "releaseW"} = HostHolds(host')
      BY <1>1 DEF IInv, HeldOK, Procs, Holds, At, HostHolds, HostEnds
    <2> QED
      BY <1>1, <2>1, HostMoves DEF IInv
  <1>4. HostOK'
    BY <1>1, HostStays DEF IInv, Labels, HostOK, search
  <1>5. ChainOK'
    BY <1>1, ChainStays
  <1>6. ExitsOK'
    <2>1. CASE exits # <<>> /\ exits' = Tail(exits) /\ pid' = TRUE
      BY <1>1, <1>2, <2>1, PidRead
    <2>2. CASE UNCHANGED <<pid, exits>>
      BY <1>1, <2>2 DEF IInv, Labels, ExitsOK, PidSent, ReportSent
    <2> QED
      BY <1>1, <2>1, <2>2
  <1>7. EndOK' /\ StatusOK'
    BY <1>1, <1>2 DEF IInv, Labels, EndOK, StatusOK, HostWithholds, HostListens, HostReads, HasStatus,
       HasExit, HasRelease, Starting, Started, NobodyCanReport
  <1>8. FailedOK'
    <2>1. ~pid' => ended["supervisor"] = "killed" \/ NeverRuns
      BY <1>1, NoPidThere
    <2> QED
      BY <1>1, <2>1 DEF FailedOK, NeverRuns
  <1> QED
    BY <1>3, <1>4, <1>5, <1>6, <1>7, <1>8 DEF IInv, Labels

\* A known pid is that of a program, alive or dead.
LEMMA KnownProgram ==
  ASSUME IInv, pid
  PROVE  /\ ~Alive("program") => pc["program"] \in Gone
         /\ Alive("program") /\ pc' = Dead("program") => pc'["program"] \in Gone
  <1>1. pc["program"] # "unborn"
    BY DEF IInv, Labels, ExitsOK, PidSent
  <1> QED
    BY <1>1 DEF Alive, Gone, Dead, Chain

\* ... which is stopped when it is known.
LEMMA GiveUpKeeps ==
  ASSUME IInv, GiveUp
  PROVE  IInv'
  <1> DEFINE closed == {"master", "slave"}
  <1>1. /\ host = "giveUp" /\ host' = "failed" /\ verdict' = "unreadable"
        /\ UNCHANGED <<search, status, exits, pid, exitSeen>>
        /\ \/ /\ Alive("program") /\ pc' = Dead("program")
              /\ ended' = [ended EXCEPT !["program"] = "stopped"]
              /\ held' = [held EXCEPT !["host"] = @ \ closed, !["program"] = {}]
           \/ held' = [held EXCEPT !["host"] = @ \ closed] /\ UNCHANGED <<pc, ended>>
    BY DEF GiveUp, FailsKilling, Fails
  <1>2. HostHolds(host) \ closed = {} /\ host \notin Setup
    BY <1>1 DEF HostHolds, Setup, HasStatus, HasExit, HasRelease
  <1>3. \/ ended'["supervisor"] = "killed" \/ pc'["program"] \in Gone
        \/ NeverRuns /\ UNCHANGED pc
    <2>1. CASE pid
      <3>1. pc'["program"] \in Gone
        BY <1>1, <2>1, KnownProgram DEF GiveUp, FailsKilling
      <3> QED
        BY <3>1
    <2>2. CASE ~pid
      <3>1. UNCHANGED <<pc, ended>>
        BY <2>2 DEF GiveUp
      <3> QED
        BY <1>1, <2>2, <3>1 DEF IInv, Labels, FailedOK
    <2> QED
      BY <2>1, <2>2
  <1>4. verdict' # "ok" /\ host \notin {"spawned", "released", "dead"}
    BY <1>1
  <1> HIDE DEF closed
  <1> QED
    BY <1>1, <1>2, <1>3, <1>4, HostLetsGo

\* The pid arrives, or the exit pipe ends without it.
LEMMA ReadPidKeeps ==
  ASSUME IInv, ReadPid
  PROVE  IInv'
  <1>1. host = "readPid" /\ host \in Started /\ UNCHANGED <<search, pc, ended, status, exitSeen>>
    BY DEF ReadPid, Started
  <1>2. verdict # "ok" /\ exitSeen = "none"
    BY <1>1 DEF IInv, Labels, StatusOK, ExitsOK
  <1>3. CASE /\ exits # <<>> /\ host' = "configure" /\ pid' = TRUE /\ exits' = Tail(exits)
             /\ UNCHANGED <<held, verdict>>
    <2>1. host' \in Started
      BY <1>3 DEF Started
    <2>2. HeldOK'
      BY <1>1, <1>3 DEF IInv, HeldOK, Holds, At, HostHolds
    <2>3. HostOK'
      BY <1>1, <1>3, <2>1, HostStays DEF IInv, Labels, HostOK, search
    <2>4. ChainOK'
      BY <1>1, <2>1, ChainStays
    <2>5. ExitsOK'
      BY <1>1, <1>2, <1>3, PidRead
    <2>6. EndOK' /\ StatusOK'
      BY <1>1, <1>2, <1>3, <2>1 DEF IInv, Labels, EndOK, StatusOK, HostWithholds, HostListens,
         HostReads, HasStatus, HasExit, HasRelease, Starting, NobodyCanReport
    <2>7. FailedOK'
      BY <1>3 DEF FailedOK
    <2> QED
      BY <2>2, <2>3, <2>4, <2>5, <2>6, <2>7 DEF IInv, Labels
  <1>4. CASE exits = <<>> /\ ~Open("exitW") /\ Fails(HostEnds, "noPid") /\ UNCHANGED <<pid, exits>>
    <2>1. /\ host' = "failed" /\ verdict' = "noPid"
          /\ held' = [held EXCEPT !["host"] = @ \ HostEnds]
      BY <1>4 DEF Fails
    <2>2. HostHolds(host) \ HostEnds = {} /\ host \notin Setup
      BY <1>1 DEF HostHolds, Setup, HasStatus, HasExit, HasRelease
    <2>3. ended["supervisor"] = "killed" \/ NeverRuns
      BY <1>1, <1>4, NoPidThere
    <2>4. verdict' # "ok" /\ host \notin {"spawned", "released", "dead"}
      BY <1>1, <2>1
    <2> QED
      BY <1>1, <1>4, <2>1, <2>2, <2>3, <2>4, HostLetsGo
  <1> QED
    BY <1>3, <1>4 DEF ReadPid

\* The last call on the master.
LEMMA ConfigureKeeps ==
  ASSUME IInv, Configure
  PROVE  IInv'
  <1>1. /\ host = "configure" /\ host \in Started /\ pid
        /\ UNCHANGED <<search, status, exits, pid, exitSeen>>
    BY DEF Configure, Started, IInv, Labels, ExitsOK
  <1>2. CASE host' = "spawned" /\ verdict' = "ok" /\ UNCHANGED <<held, pc, ended>>
    <2>1. host' \in Started
      BY <1>2 DEF Started
    <2>2. HeldOK'
      BY <1>1, <1>2 DEF IInv, HeldOK, Holds, At, HostHolds
    <2>3. HostOK'
      BY <1>1, <1>2, <2>1, HostStays DEF IInv, Labels, HostOK, search
    <2>4. ChainOK'
      BY <1>1, <1>2, <2>1, ChainStays
    <2>5. ExitsOK'
      BY <1>1, <1>2 DEF IInv, Labels, ExitsOK, PidSent, ReportSent
    <2>6. EndOK' /\ StatusOK'
      BY <1>1, <1>2, <2>1 DEF IInv, Labels, EndOK, StatusOK, HostWithholds, HostListens,
         HostReads, HasStatus, HasExit, HasRelease, Starting, NobodyCanReport
    <2>7. FailedOK'
      BY <1>2 DEF FailedOK
    <2> QED
      BY <2>2, <2>3, <2>4, <2>5, <2>6, <2>7 DEF IInv, Labels
  <1>3. CASE FailsKilling(HostEnds, "configure")
    <2>1. /\ host' = "failed" /\ verdict' = "configure"
          /\ \/ /\ Alive("program") /\ pc' = Dead("program")
                /\ ended' = [ended EXCEPT !["program"] = "stopped"]
                /\ held' = [held EXCEPT !["host"] = @ \ HostEnds, !["program"] = {}]
             \/ held' = [held EXCEPT !["host"] = @ \ HostEnds] /\ UNCHANGED <<pc, ended>>
      BY <1>3 DEF FailsKilling
    <2>2. HostHolds(host) \ HostEnds = {} /\ host \notin Setup
      BY <1>1 DEF HostHolds, Setup, HasStatus, HasExit, HasRelease
    <2>3. pc'["program"] \in Gone
      BY <1>1, <1>3, KnownProgram DEF FailsKilling
    <2>4. verdict' # "ok" /\ host \notin {"spawned", "released", "dead"}
      BY <1>1, <2>1
    <2> QED
      BY <1>1, <2>1, <2>2, <2>3, <2>4, HostLetsGo
  <1> QED
    BY <1>2, <1>3 DEF Configure

\* The waiter's read of the exit pipe: the report, or the end of file of a pipe
\* whose supervisor was killed.
LEMMA ReadExitKeeps ==
  ASSUME IInv, ReadExit
  PROVE  IInv'
  <1>1. /\ host = "spawned" /\ host \in Started /\ exitSeen = "none"
        /\ UNCHANGED <<host, search, held, pc, ended, status, verdict, pid>>
        /\ verdict = "ok" /\ pid
    BY DEF ReadExit, Started, IInv, Labels, StatusOK, ExitsOK
  <1>2. PidSent /\ pc["supervisor"] \in SupervisorLate \union Gone /\ ended["supervisor"] # "failed"
    BY <1>1 DEF PidSent, IInv, Labels, ExitsOK
  <1>3. HeldOK'
    BY <1>1 DEF IInv, HeldOK, At
  <1>4. exitSeen' \in {"report", "eof"}
    BY DEF ReadExit
  <1>5. HostOK'
    BY <1>1, <1>4, HostStays DEF IInv, Labels, HostOK, search
  <1>6. ChainOK'
    BY <1>1, ChainStays
  <1>7. ExitsOK'
    <2>1. CASE exits # <<>> /\ exitSeen' = "report" /\ exits' = Tail(exits)
      <3>1. exits = <<"report">> /\ exits' = <<>>
        BY <1>1, <2>1, ExitsTail DEF IInv, Labels, ExitsOK
      <3>2. ReportSent
        BY <3>1 DEF ReportSent
      <3> QED
        BY <1>1, <1>2, <2>1, <3>1, <3>2 DEF IInv, Labels, ExitsOK, PidSent, ReportSent
    <2>2. CASE exits = <<>> /\ ~Open("exitW") /\ exitSeen' = "eof" /\ UNCHANGED exits
      <3>1. pc["launcher"] # "unborn"
        BY <1>1 DEF IInv, Labels, ChainOK
      <3>2. pc["supervisor"] \in Gone
        BY <1>2, <2>2, <3>1, ExitEnds DEF IInv, Labels, SupervisorLate, Gone
      <3>3. ended["supervisor"] \in {"failed", "exited", "killed"}
        BY <3>2 DEF IInv, Labels, ChainOK, Chain
      <3>4. ended["supervisor"] # "exited"
        BY <1>1 DEF IInv, Labels, EndOK, HostWithholds
      <3>5. ended["supervisor"] = "killed"
        BY <1>2, <3>3, <3>4
      <3> QED
        BY <1>1, <1>2, <2>2, <3>5 DEF IInv, Labels, ExitsOK, PidSent, ReportSent
    <2> QED
      BY <2>1, <2>2 DEF ReadExit
  <1>8. EndOK' /\ StatusOK' /\ FailedOK'
    BY <1>1 DEF IInv, Labels, EndOK, StatusOK, FailedOK, HostWithholds, HostListens, HostReads,
       NobodyCanReport, NeverRuns
  <1> QED
    BY <1>3, <1>5, <1>6, <1>7, <1>8 DEF IInv, Labels

\* The waiter is through with the program.
LEMMA ReleaseKeeps ==
  ASSUME IInv, Release
  PROVE  IInv'
  <1>1. /\ host = "spawned" /\ host' = "released" /\ UNCHANGED verdict
        /\ UNCHANGED <<search, status, exits, pid, exitSeen>>
        /\ \/ /\ Alive("program") /\ pc' = Dead("program")
              /\ ended' = [ended EXCEPT !["program"] = "stopped"]
              /\ held' = [held EXCEPT !["host"] = @ \ HostEnds, !["program"] = {}]
           \/ held' = [held EXCEPT !["host"] = @ \ HostEnds] /\ UNCHANGED <<pc, ended>>
    BY DEF Release
  <1>2. HostHolds(host) \ HostEnds = {} /\ host \notin Setup
    BY <1>1 DEF HostHolds, Setup, HasStatus, HasExit, HasRelease
  <1> QED
    BY <1>1, <1>2, HostLetsGo

\* The calling process dies, and with it its ends of the pipes.
LEMMA HostDiesKeeps ==
  ASSUME IInv, HostDies
  PROVE  IInv'
  <1>1. /\ host' = "dead" /\ host \notin {"failed", "released", "dead"}
        /\ held' = [held EXCEPT !["host"] = {}]
        /\ UNCHANGED <<search, pc, ended, status, exits, verdict, pid, exitSeen>>
    BY DEF HostDies, chain
  <1>2. HeldOK'
    BY <1>1, HostMoves DEF IInv, HostHolds
  <1>3. HostOK'
    BY <1>1, HostStays DEF IInv, Labels, HostOK, search
  <1>4. ChainOK'
    BY <1>1, ChainStays
  <1>5. ExitsOK'
    BY <1>1 DEF IInv, Labels, ExitsOK, PidSent, ReportSent
  <1>6. ~HostWithholds' /\ ~HostListens' /\ ~HostReads'
    BY <1>1 DEF HostWithholds, HostListens, HostReads, HasStatus, HasExit, HasRelease, Starting, Started
  <1>7. EndOK' /\ StatusOK' /\ FailedOK'
    BY <1>1, <1>6 DEF IInv, Labels, EndOK, StatusOK, FailedOK, NobodyCanReport
  <1> QED
    BY <1>2, <1>3, <1>4, <1>5, <1>7 DEF IInv, Labels

-----------------------------------------------------------------------------
(* The chain                                                               *)

\* A death of the chain, and what the process said before it.
LEMMA DeathKeeps ==
  ASSUME IInv, NEW p \in Chain, Alive(p), NEW how, Dies(p, how), HostUnchanged, UNCHANGED exits,
         how \in {"failed", "exited", "killed", "stopped", "hangup"},
         p = "supervisor" =>
           /\ how \notin {"stopped", "hangup"}
           /\ how = "exited" => ~HostWithholds
           /\ how = "failed" => ~PidSent /\ (pc["program"] = "unborn" \/ ~HostListens),
         p = "program" /\ how = "failed" =>
           (HostReads => status' # <<>>) /\ ~(host \in {"readPid", "configure"} \/ verdict = "ok"),
         \/ UNCHANGED status
         \/ /\ \E e \in Reporting : status' = <<e>>
            /\ NobodyCanReport' /\ pc'["program"] # "running"
            /\ ~(host \in {"readPid", "configure"} \/ verdict = "ok")
  PROVE  IInv'
  <1>1. /\ pc' = Dead(p) /\ ended' = [ended EXCEPT ![p] = how] /\ held' = [held EXCEPT ![p] = {}]
        /\ UNCHANGED <<host, search, verdict, pid, exitSeen, exits>>
    BY DEF Dies, HostUnchanged
  <1>2. /\ ChainOK' /\ pc'[p] \in Gone /\ ended'[p] = how
        /\ \A q \in Chain \ {p} : /\ pc'[q] \in Gone <=> pc[q] \in Gone
                                  /\ pc[q] \notin Gone => pc'[q] = pc[q]
                                  /\ ended'[q] = ended[q]
    <2>1. p = "supervisor" => how \notin {"stopped", "hangup"}
      OBVIOUS
    <2> QED
      BY <1>1, <2>1, ChainDies
  <1>3. HeldOK'
    BY <1>1, <1>2, DeathHolds DEF IInv
  <1>4. HostOK'
    BY <1>1 DEF IInv, Labels, HostOK, search, Stages
  <1>5. \A q \in Chain : /\ pc'[q] = pc[q] \/ pc'[q] \in Gone
                         /\ pc[q] \in Gone => pc'[q] \in Gone
    BY <1>2
  <1>6. pc[p] \notin {"unborn"} \union Gone
    BY DEF Alive, Gone
  <1>7. \A q \in Chain : pc[q] = "unborn" <=> pc'[q] = "unborn"
    BY <1>2, <1>6 DEF Gone
  <1>8. HostReads' = HostReads /\ HostListens' = HostListens /\ HostWithholds' = HostWithholds
        /\ PidSent' = PidSent /\ ReportSent' = ReportSent
    BY <1>1 DEF HostReads, HostListens, HostWithholds, PidSent, ReportSent
  <1>9. ended["supervisor"] \in {"killed", "exited", "failed"} => pc["supervisor"] \in Gone
    BY DEF IInv, Labels, ChainOK, Chain
  <1>10. ended["supervisor"] = "killed" => ended'["supervisor"] = "killed"
    BY <1>2, <1>6, <1>9 DEF Chain
  <1>11. ExitsOK'
    <2>1. exits \in {<<>>, <<"pid">>, <<"report">>, <<"pid", "report">>} /\ (pid => exits \in {<<>>, <<"report">>})
      BY DEF IInv, Labels, ExitsOK
    <2>2. PidSent => /\ pc'["supervisor"] \in SupervisorLate \union Gone
                     /\ pc'["program"] # "unborn" /\ ended'["supervisor"] # "failed"
      BY <1>2, <1>5, <1>7 DEF IInv, Labels, ExitsOK, Chain
    <2>3. pc'["supervisor"] \in {"wait", "sendReport"} => exits = IF pid THEN <<>> ELSE <<"pid">>
      BY <1>5 DEF IInv, Labels, ExitsOK, Chain, Gone
    <2>4. ReportSent => pc'["program"] \in Gone /\ pc'["supervisor"] \in {"awaitRelease"} \union Gone
      BY <1>5 DEF IInv, Labels, ExitsOK, Chain
    <2> QED
      BY <1>1, <1>8, <1>10, <2>1, <2>2, <2>3, <2>4 DEF IInv, Labels, ExitsOK
  <1>12. EndOK'
    <2>1. CASE p = "supervisor"
      BY <1>2, <1>7, <1>8, <2>1 DEF EndOK, Chain
    <2>2. CASE p # "supervisor"
      BY <1>2, <1>7, <1>8, <2>2 DEF IInv, Labels, EndOK, Chain
    <2> QED
      BY <2>1, <2>2
  <1>13. StatusOK'
    <2>1. NobodyCanReport => NobodyCanReport'
      BY <1>5 DEF NobodyCanReport, Gone, ProgramEarly, SupervisorEarly, Chain
    <2>2. /\ pc["program"] # "running" => pc'["program"] # "running"
          /\ pc["supervisor"] # "detach" => pc'["supervisor"] # "detach"
      BY <1>5 DEF Gone, Chain
    <2>3. status' = <<>> \/ \E e \in Reporting : status' = <<e>>
      BY DEF IInv, Labels, StatusOK
    <2>4. status # <<>> => status' # <<>>
      OBVIOUS
    <2>5. status' # <<>> => NobodyCanReport' /\ pc'["program"] # "running"
      BY <2>1, <2>2 DEF IInv, Labels, StatusOK
    <2>6. HostReads /\ ended'["program"] = "failed" => status' # <<>>
      BY <1>2, <2>4 DEF IInv, Labels, StatusOK, Chain
    <2>7. host \in {"readPid", "configure"} \/ verdict = "ok" =>
            /\ NobodyCanReport' /\ pc'["supervisor"] # "detach"
            /\ status' = <<>> /\ ended'["program"] # "failed"
      BY <1>2, <2>1, <2>2 DEF IInv, Labels, StatusOK, Chain
    <2> QED
      BY <1>1, <1>8, <2>3, <2>4, <2>5, <2>6, <2>7 DEF IInv, Labels, StatusOK
  <1>14. FailedOK'
    <2>1. pc["program"] \in Gone => pc'["program"] \in Gone
      BY <1>5 DEF Chain
    <2>2. NeverRuns => NeverRuns'
      BY <1>5, <1>7 DEF NeverRuns, Gone, SupervisorEarly, LauncherEarly, Chain
    <2> QED
      BY <1>1, <1>10, <2>1, <2>2 DEF IInv, Labels, FailedOK
  <1> QED
    BY <1>2, <1>3, <1>4, <1>11, <1>12, <1>13, <1>14 DEF IInv, Labels

\* A process that can report an error is the last of the chain, and no error was
\* reported yet.
LEMMA ReportsKeeps ==
  ASSUME IInv, NEW p \in Chain, Reports(p)
  PROVE  IInv'
  <1>1. /\ pc[p] \in Reporting /\ Dies(p, "failed") /\ Alive(p)
        /\ status' = IF Open("statusR") THEN Append(status, pc[p]) ELSE status
        /\ UNCHANGED exits /\ HostUnchanged
    BY DEF Reports, Reporting, Alive
  <1>2. ~NobodyCanReport
    <2>1. CASE p = "launcher"
      BY <1>1, <2>1 DEF NobodyCanReport, Reporting, Gone
    <2>2. CASE p = "supervisor"
      BY <1>1, <2>2 DEF NobodyCanReport, Reporting, SupervisorEarly, IInv, Labels, ChainOK, SupervisorAt,
         SupervisorLate, Gone
    <2>3. CASE p = "program"
      BY <1>1, <2>3 DEF NobodyCanReport, Reporting, ProgramEarly, IInv, Labels, ChainOK, ProgramAt, Gone
    <2> QED
      BY <2>1, <2>2, <2>3 DEF Chain
  <1>3. status = <<>> /\ ~(host \in {"readPid", "configure"} \/ verdict = "ok")
    BY <1>2 DEF IInv, Labels, StatusOK
  <1>4. HostReads => Open("statusR")
    BY HostEndsHeld DEF IInv, Open, Procs
  <1>5. Open("statusR") => status' = <<pc[p]>>
    BY <1>1, <1>3
  <1>6. pc' = Dead(p) /\ ended' = [ended EXCEPT ![p] = "failed"] /\ UNCHANGED host
    BY <1>1 DEF Dies, HostUnchanged
  <1>7. /\ pc'[p] \in Gone
        /\ \A q \in Chain \ {p} : /\ pc'[q] \in Gone <=> pc[q] \in Gone
                                  /\ pc[q] \notin Gone => pc'[q] = pc[q]
    BY <1>1, <1>6, ChainDies
  <1>8. p = "supervisor" => ~PidSent /\ pc["program"] = "unborn"
    BY <1>1 DEF IInv, Labels, ChainOK, ExitsOK, SupervisorAt, SupervisorEarly, SupervisorLate, Reporting, Gone
  <1>9. NobodyCanReport' /\ pc'["program"] # "running"
    <2>1. CASE p = "launcher"
      <3>1. pc["supervisor"] = "unborn" /\ pc["program"] = "unborn"
        BY <1>1, <2>1 DEF Reporting, Gone, IInv, Labels, ChainOK
      <3> QED
        BY <1>7, <2>1, <3>1 DEF NobodyCanReport, Gone, SupervisorEarly, ProgramEarly, Chain
    <2>2. CASE p = "supervisor"
      <3>1. pc["program"] = "unborn" /\ pc["launcher"] \in Gone
        BY <1>1, <1>8, <2>2 DEF IInv, Labels, ChainOK, Reporting
      <3> QED
        BY <1>7, <2>2, <3>1 DEF NobodyCanReport, Gone, SupervisorEarly, ProgramEarly, Chain
    <2>3. CASE p = "program"
      <3>1. pc["program"] # "unborn"
        BY <1>1, <2>3 DEF Reporting
      <3>2. pc["supervisor"] \notin {"unborn"} \union SupervisorEarly /\ pc["launcher"] \in Gone
        BY <3>1 DEF IInv, Labels, ChainOK
      <3> QED
        BY <1>7, <2>3, <3>2 DEF NobodyCanReport, Gone, SupervisorEarly, ProgramEarly, Chain
    <2> QED
      BY <2>1, <2>2, <2>3 DEF Chain
  <1>10. \/ UNCHANGED status
         \/ \E e \in Reporting : status' = <<e>>
    BY <1>1, <1>5
  <1>11. HostReads => status' # <<>>
    BY <1>4, <1>5
  <1> QED
    BY <1>1, <1>3, <1>8, <1>9, <1>10, <1>11, DeathKeeps

\* Deaths without a word: killed, hung up, exited, released.
LEMMA KilledKeeps ==
  ASSUME IInv, NEW p \in Chain, Killed(p)
  PROVE  IInv'
  BY DeathKeeps DEF Killed

\* The program exits by itself, or by the hangup of its terminal.
LEMMA ProgramEndsKeeps ==
  ASSUME IInv, Hangup \/ ProgramExits
  PROVE  IInv'
  <1>1. /\ Alive("program") /\ (Dies("program", "hangup") \/ Dies("program", "exited"))
        /\ UNCHANGED <<status, exits>> /\ HostUnchanged /\ "program" \in Chain
    BY DEF Hangup, ProgramExits, Alive, Chain
  <1> QED
    BY <1>1, DeathKeeps

\* The release pipe's end of file: the host withholds it no more.
LEMMA ReapKeeps ==
  ASSUME IInv, Reap
  PROVE  IInv'
  <1>1. /\ Alive("supervisor") /\ Dies("supervisor", "exited") /\ UNCHANGED <<status, exits>>
        /\ HostUnchanged /\ "supervisor" \in Chain
    BY DEF Reap, Alive, Chain
  <1>2. ~HostWithholds
    BY HostEndsHeld DEF Reap, ReleaseSeen, IInv, Open, Procs
  <1> QED
    BY <1>1, <1>2, DeathKeeps

\* The launcher on its way.
LEMMA LauncherMoves ==
  ASSUME IInv, NEW l \in LauncherEarly, NEW m \in LauncherEarly, Goes("launcher", l, m),
         held' = [held EXCEPT !["launcher"] = LauncherHolds(m)],
         UNCHANGED <<ended, status, exits>>, HostUnchanged
  PROVE  IInv'
  <1>1. /\ pc["launcher"] = l /\ pc' = [pc EXCEPT !["launcher"] = m]
        /\ UNCHANGED <<host, search, verdict, pid, exitSeen>>
    BY DEF Goes, HostUnchanged
  <1>2. pc \in [Chain -> LauncherAt \union SupervisorAt \union ProgramAt]
    BY DEF IInv, Labels, ChainOK
  <1>3. /\ pc'["launcher"] = m /\ pc'["supervisor"] = pc["supervisor"]
        /\ pc'["program"] = pc["program"]
        /\ pc' \in [Chain -> LauncherAt \union SupervisorAt \union ProgramAt]
    BY <1>1, <1>2 DEF Chain, LauncherAt
  <1>4. l \notin {"unborn"} \union Gone /\ m \notin {"unborn"} \union Gone
    BY DEF LauncherEarly, Gone
  <1>5. HeldOK'
    <2>1. \A q \in Procs \ {"launcher"} : Holds(q, At(q)') = Holds(q, At(q))
      BY <1>1, <1>3 DEF Procs, Chain, At
    <2>2. LauncherHolds(m) = Holds("launcher", At("launcher")') /\ "launcher" \in Procs
      BY <1>3 DEF Holds, At, Procs, Chain
    <2> QED
      BY <2>1, <2>2, HeldMoves DEF IInv
  <1>6. HostOK'
    BY <1>1 DEF IInv, Labels, HostOK, search, Stages
  <1>7. ChainOK'
    <2>1. \A q \in Chain : ended'[q] = "no" <=> pc'[q] \notin Gone
      BY <1>1, <1>3, <1>4 DEF IInv, Labels, ChainOK, Chain
    <2>2. pc'["launcher"] \in LauncherAt
      BY <1>3 DEF LauncherAt
    <2> QED
      BY <1>1, <1>3, <1>4, <2>1, <2>2 DEF IInv, Labels, ChainOK
  <1>8. ExitsOK'
    BY <1>1, <1>3 DEF IInv, Labels, ExitsOK, PidSent, ReportSent
  <1>9. EndOK' /\ StatusOK'
    BY <1>1, <1>3, <1>4 DEF IInv, Labels, EndOK, StatusOK, HostReads, HostListens, HostWithholds,
       NobodyCanReport
  <1>10. FailedOK'
    BY <1>1, <1>3 DEF IInv, Labels, FailedOK, NeverRuns
  <1> QED
    BY <1>5, <1>6, <1>7, <1>8, <1>9, <1>10 DEF IInv, Labels

\* The launcher resets its signals and closes what it inherited.
LEMMA LauncherSteps ==
  ASSUME IInv, ResetSignals \/ LauncherCloses
  PROVE  IInv'
  <1>1. held["launcher"] = LauncherHolds(pc["launcher"]) /\ held \in [Procs -> SUBSET Resources]
    BY DEF IInv, HeldOK, Procs, Chain, Holds, At
  <1>2. CASE ResetSignals
    <2>1. /\ Goes("launcher", "signals", "closeFds") /\ UNCHANGED <<held, ended, status, exits>>
          /\ HostUnchanged
      BY <1>2 DEF ResetSignals
    <2>2. held["launcher"] = LauncherHolds("closeFds")
      BY <1>1, <2>1 DEF Goes, LauncherHolds
    <2>3. held' = [held EXCEPT !["launcher"] = LauncherHolds("closeFds")]
      BY <1>1, <2>1, <2>2 DEF Procs, Chain
    <2> QED
      BY <2>1, <2>3, LauncherMoves DEF LauncherEarly
  <1>3. CASE LauncherCloses
    <2>1. /\ Goes("launcher", "closeFds", "fork") /\ UNCHANGED <<ended, status, exits>> /\ HostUnchanged
          /\ held' = [held EXCEPT !["launcher"] = @ \intersect Kept]
      BY <1>3 DEF LauncherCloses, Keeps
    <2>2. held["launcher"] \intersect Kept = LauncherHolds("fork")
      BY <1>1, <2>1 DEF Goes, LauncherHolds, Everything, PipeAndExit, Pipe, Terminal, Kept
    <2>3. held' = [held EXCEPT !["launcher"] = LauncherHolds("fork")]
      BY <2>1, <2>2
    <2> QED
      BY <2>1, <2>3, LauncherMoves DEF LauncherEarly
  <1> QED
    BY <1>2, <1>3

\* The supervisor is forked by a launcher that exits at once.
LEMMA ForkSupervisorKeeps ==
  ASSUME IInv, ForkSupervisor
  PROVE  IInv'
  <1>1. /\ pc["launcher"] = "fork"
        /\ pc' = [pc EXCEPT !["launcher"] = "zombie", !["supervisor"] = "setsid"]
        /\ held' = [held EXCEPT !["supervisor"] = held["launcher"], !["launcher"] = {}]
        /\ ended' = [ended EXCEPT !["launcher"] = "exited"]
        /\ UNCHANGED <<host, search, verdict, pid, exitSeen, status, exits>>
    BY DEF ForkSupervisor, HostUnchanged
  <1>2. /\ pc \in [Chain -> LauncherAt \union SupervisorAt \union ProgramAt]
        /\ ended \in [Chain -> {"no", "failed", "exited", "killed", "stopped", "hangup"}]
    BY DEF IInv, Labels, ChainOK
  <1>3. pc["supervisor"] = "unborn" /\ pc["program"] = "unborn"
    BY <1>1 DEF IInv, Labels, ChainOK, Gone
  <1>4. /\ pc'["launcher"] = "zombie" /\ pc'["supervisor"] = "setsid" /\ pc'["program"] = "unborn"
        /\ ended'["launcher"] = "exited" /\ ended'["supervisor"] = ended["supervisor"]
        /\ ended'["program"] = ended["program"]
    BY <1>1, <1>2, <1>3 DEF Chain
  <1>5. ~NobodyCanReport /\ ~PidSent /\ ~ReportSent
    BY <1>1, <1>3 DEF NobodyCanReport, Gone, IInv, Labels, ExitsOK, SupervisorLate
  <1>6. status = <<>> /\ ~(host \in {"readPid", "configure"} \/ verdict = "ok")
    BY <1>5 DEF IInv, Labels, StatusOK
  <1>7. ended["supervisor"] = "no" /\ ended["program"] = "no"
    BY <1>3 DEF IInv, Labels, ChainOK, Chain, Gone
  <1>8. HeldOK'
    <2>1. /\ held \in [Procs -> SUBSET Resources] /\ held["launcher"] = LauncherHolds(pc["launcher"])
          /\ held["host"] = HostHolds(host) /\ held["program"] = ProgramHolds(pc["program"])
      BY DEF IInv, HeldOK, Procs, Chain, Holds, At
    <2>2. held["launcher"] = Kept
      BY <1>1, <2>1 DEF LauncherHolds
    <2>3. /\ held' \in [Procs -> SUBSET Resources]
          /\ held'["launcher"] = {} /\ held'["supervisor"] = Kept
          /\ held'["host"] = held["host"] /\ held'["program"] = held["program"]
      BY <1>1, <2>1, <2>2 DEF Procs, Chain
    <2>4. /\ held'["launcher"] = LauncherHolds(pc'["launcher"])
          /\ held'["supervisor"] = SupervisorHolds(pc'["supervisor"])
          /\ held'["host"] = HostHolds(host') /\ held'["program"] = ProgramHolds(pc'["program"])
      BY <1>1, <1>3, <1>4, <2>1, <2>3 DEF LauncherHolds, SupervisorHolds
    <2> QED
      BY <2>3, <2>4 DEF HeldOK, Procs, Chain, Holds, At
  <1>9. HostOK'
    BY <1>1 DEF IInv, Labels, HostOK, search, Stages
  <1>10. ChainOK'
    <2>1. /\ pc' \in [Chain -> LauncherAt \union SupervisorAt \union ProgramAt]
          /\ ended' \in [Chain -> {"no", "failed", "exited", "killed", "stopped", "hangup"}]
      BY <1>1, <1>2 DEF LauncherAt, SupervisorAt, SupervisorEarly, Gone
    <2>2. \A q \in Chain : ended'[q] = "no" <=> pc'[q] \notin Gone
      BY <1>4, <1>7 DEF Chain, Gone
    <2>3. host \notin Setup
      BY <1>1 DEF IInv, Labels, ChainOK
    <2> QED
      BY <1>1, <1>4, <1>7, <2>1, <2>2, <2>3 DEF ChainOK, LauncherAt, SupervisorAt, ProgramAt, Gone,
         SupervisorEarly, SupervisorLate
  <1>11. ExitsOK'
    BY <1>1, <1>4, <1>5, <1>7 DEF IInv, Labels, ExitsOK, PidSent, ReportSent
  <1>12. EndOK' /\ StatusOK'
    BY <1>1, <1>4, <1>6, <1>7 DEF IInv, Labels, EndOK, StatusOK
  <1>13. FailedOK'
    BY <1>1, <1>3, <1>4, <1>7 DEF IInv, Labels, FailedOK, NeverRuns, LauncherEarly, Gone
  <1> QED
    BY <1>8, <1>9, <1>10, <1>11, <1>12, <1>13 DEF IInv, Labels

\* The program is forked by the supervisor.
LEMMA ForkProgramKeeps ==
  ASSUME IInv, ForkProgram
  PROVE  IInv'
  <1>1. /\ pc["supervisor"] = "fork"
        /\ pc' = [pc EXCEPT !["supervisor"] = "detach", !["program"] = "setsid"]
        /\ held' = [held EXCEPT !["program"] = held["supervisor"]]
        /\ UNCHANGED <<host, search, verdict, pid, exitSeen, ended, status, exits>>
    BY DEF ForkProgram, HostUnchanged
  <1>2. pc \in [Chain -> LauncherAt \union SupervisorAt \union ProgramAt]
    BY DEF IInv, Labels, ChainOK
  <1>3. pc["launcher"] \in Gone /\ pc["program"] = "unborn"
    BY <1>1 DEF IInv, Labels, ChainOK, SupervisorEarly
  <1>4. /\ pc'["launcher"] = pc["launcher"] /\ pc'["supervisor"] = "detach"
        /\ pc'["program"] = "setsid"
    BY <1>1, <1>2 DEF Chain
  <1>5. ~NobodyCanReport /\ ~PidSent /\ ~ReportSent
    BY <1>1, <1>3 DEF NobodyCanReport, SupervisorEarly, Gone, IInv, Labels, ExitsOK, SupervisorLate
  <1>6. status = <<>> /\ ~(host \in {"readPid", "configure"} \/ verdict = "ok")
    BY <1>5 DEF IInv, Labels, StatusOK
  <1>7. ended["supervisor"] = "no" /\ ended["program"] = "no"
    BY <1>1, <1>3 DEF IInv, Labels, ChainOK, Chain, Gone
  <1>8. HeldOK'
    <2>1. /\ held \in [Procs -> SUBSET Resources] /\ held["launcher"] = LauncherHolds(pc["launcher"])
          /\ held["host"] = HostHolds(host) /\ held["supervisor"] = SupervisorHolds(pc["supervisor"])
      BY DEF IInv, HeldOK, Procs, Chain, Holds, At
    <2>2. held["supervisor"] = Kept
      BY <1>1, <2>1 DEF SupervisorHolds
    <2>3. /\ held' \in [Procs -> SUBSET Resources]
          /\ held'["launcher"] = held["launcher"] /\ held'["supervisor"] = Kept
          /\ held'["host"] = held["host"] /\ held'["program"] = Kept
      BY <1>1, <2>1, <2>2 DEF Procs, Chain
    <2>4. /\ held'["launcher"] = LauncherHolds(pc'["launcher"])
          /\ held'["supervisor"] = SupervisorHolds(pc'["supervisor"])
          /\ held'["host"] = HostHolds(host') /\ held'["program"] = ProgramHolds(pc'["program"])
      BY <1>1, <1>4, <2>1, <2>3 DEF ProgramHolds, SupervisorHolds
    <2> QED
      BY <2>3, <2>4 DEF HeldOK, Procs, Chain, Holds, At
  <1>9. HostOK'
    BY <1>1 DEF IInv, Labels, HostOK, search, Stages
  <1>10. ChainOK'
    <2>1. pc' \in [Chain -> LauncherAt \union SupervisorAt \union ProgramAt]
      BY <1>1, <1>2 DEF SupervisorAt, ProgramAt, ProgramEarly
    <2>2. \A q \in Chain : ended'[q] = "no" <=> pc'[q] \notin Gone
      BY <1>1, <1>4, <1>7 DEF IInv, Labels, ChainOK, Chain, Gone
    <2>3. pc'["supervisor"] \in SupervisorAt /\ pc'["program"] \in ProgramAt
      BY <1>4 DEF SupervisorAt, ProgramAt, ProgramEarly
    <2> QED
      BY <1>1, <1>3, <1>4, <2>1, <2>2, <2>3 DEF IInv, Labels, ChainOK, Gone, SupervisorEarly
  <1>11. ExitsOK'
    BY <1>1, <1>4, <1>5 DEF IInv, Labels, ExitsOK, PidSent, ReportSent
  <1>12. EndOK' /\ StatusOK'
    BY <1>1, <1>4, <1>6, <1>7 DEF IInv, Labels, EndOK, StatusOK
  <1>13. FailedOK'
    BY <1>1, <1>3, <1>7 DEF IInv, Labels, FailedOK, NeverRuns, SupervisorEarly, Gone
  <1> QED
    BY <1>8, <1>9, <1>10, <1>11, <1>12, <1>13 DEF IInv, Labels

\* The supervisor on its way.  What it may have written to the exit pipe, and why
\* that is in order, is up to the step.
LEMMA SupervisorMoves ==
  ASSUME IInv, NEW l, NEW m, Goes("supervisor", l, m),
         \/ l = "setsid" /\ m = "fork"
         \/ l = "detach" /\ m = "sendPid"
         \/ l = "sendPid" /\ m = "wait"
         \/ l = "wait" /\ m = "sendReport" /\ pc["program"] \in Gone
         \/ l = "sendReport" /\ m = "awaitRelease",
         held' = [held EXCEPT !["supervisor"] = SupervisorHolds(m)],
         UNCHANGED <<ended, status>>, HostUnchanged, ExitsOK'
  PROVE  IInv'
  <1>1. /\ pc["supervisor"] = l /\ pc' = [pc EXCEPT !["supervisor"] = m]
        /\ UNCHANGED <<host, search, verdict, pid, exitSeen>>
    BY DEF Goes, HostUnchanged
  <1>2. pc \in [Chain -> LauncherAt \union SupervisorAt \union ProgramAt]
    BY DEF IInv, Labels, ChainOK
  <1>3. /\ l \in SupervisorAt \ ({"unborn"} \union Gone) /\ m \in SupervisorAt \ ({"unborn"} \union Gone)
    BY DEF SupervisorAt, SupervisorEarly, SupervisorLate, Gone
  <1>4. /\ pc'["launcher"] = pc["launcher"] /\ pc'["supervisor"] = m
        /\ pc'["program"] = pc["program"]
        /\ pc' \in [Chain -> LauncherAt \union SupervisorAt \union ProgramAt]
    BY <1>1, <1>2, <1>3 DEF Chain
  <1>5. HeldOK'
    <2>1. \A q \in Procs \ {"supervisor"} : Holds(q, At(q)') = Holds(q, At(q))
      BY <1>1, <1>4 DEF Procs, Chain, At
    <2>2. SupervisorHolds(m) = Holds("supervisor", At("supervisor")') /\ "supervisor" \in Procs
      BY <1>4 DEF Holds, At, Procs, Chain
    <2> QED
      BY <2>1, <2>2, HeldMoves DEF IInv
  <1>6. HostOK'
    BY <1>1 DEF IInv, Labels, HostOK, search, Stages
  <1>7. ChainOK'
    <2>1. \A q \in Chain : ended'[q] = "no" <=> pc'[q] \notin Gone
      BY <1>1, <1>3, <1>4 DEF IInv, Labels, ChainOK, Chain
    <2>2. /\ pc'["supervisor"] \in SupervisorAt /\ pc["launcher"] \in Gone
          /\ pc["program"] # "reaped"
      BY <1>1, <1>3, <1>4 DEF IInv, Labels, ChainOK
    <2>3. pc'["supervisor"] \in {"unborn"} \union SupervisorEarly => pc'["program"] = "unborn"
      BY <1>1, <1>3, <1>4 DEF IInv, Labels, ChainOK, SupervisorEarly
    <2>4. pc'["supervisor"] \in {"detach", "sendPid"} \union SupervisorLate => pc'["program"] # "unborn"
      BY <1>1, <1>4 DEF IInv, Labels, ChainOK, SupervisorLate
    <2>5. pc'["supervisor"] \in {"sendReport", "awaitRelease"} => pc'["program"] \in Gone
      BY <1>1, <1>4 DEF IInv, Labels, ChainOK
    <2> QED
      BY <1>1, <1>4, <2>1, <2>2, <2>3, <2>4, <2>5 DEF IInv, Labels, ChainOK, Gone
  <1>8. NobodyCanReport => NobodyCanReport'
    BY <1>1, <1>4 DEF NobodyCanReport, SupervisorEarly
  <1>9. ended["supervisor"] = "no"
    BY <1>1, <1>3 DEF IInv, Labels, ChainOK, Chain
  <1>10. EndOK'
    BY <1>9 DEF EndOK
  <1>11. StatusOK'
    <2>1. HostReads' = HostReads
      BY <1>1 DEF HostReads
    <2>2. m # "detach"
      OBVIOUS
    <2> QED
      BY <1>1, <1>4, <1>8, <2>1, <2>2 DEF IInv, Labels, StatusOK
  <1>12. FailedOK'
    <2>1. NeverRuns => NeverRuns'
      <3>1. NeverRuns => l # "setsid"
        BY <1>1 DEF NeverRuns, SupervisorEarly
      <3>2. l # "setsid" => m \notin SupervisorEarly
        BY DEF SupervisorEarly
      <3> QED
        BY <1>4, <3>1, <3>2 DEF NeverRuns
    <2> QED
      BY <1>1, <1>4, <2>1 DEF IInv, Labels, FailedOK
  <1> QED
    BY <1>5, <1>6, <1>7, <1>10, <1>11, <1>12 DEF IInv, Labels

\* The exit pipe when the supervisor leaves it alone.
LEMMA ExitsStay ==
  ASSUME IInv, NEW l, NEW m, Goes("supervisor", l, m),
         \/ l = "setsid" /\ m = "fork"
         \/ l = "detach" /\ m = "sendPid"
         \/ l = "wait" /\ m = "sendReport",
         UNCHANGED <<ended, exits>>, HostUnchanged
  PROVE  ExitsOK'
  <1>1. pc \in [Chain -> LauncherAt \union SupervisorAt \union ProgramAt]
    BY DEF IInv, Labels, ChainOK
  <1>2. /\ pc["supervisor"] = l /\ pc'["supervisor"] = m
        /\ pc'["program"] = pc["program"]
        /\ UNCHANGED <<host, verdict, pid, exitSeen>>
    BY <1>1 DEF Goes, HostUnchanged, Chain
  <1>3. PidSent' = PidSent /\ ReportSent' = ReportSent /\ ~ReportSent
    BY <1>2 DEF PidSent, ReportSent, IInv, Labels, ExitsOK, Gone
  <1>4. PidSent => l = "wait"
    BY <1>2 DEF IInv, Labels, ExitsOK, SupervisorLate, Gone
  <1> QED
    BY <1>2, <1>3, <1>4 DEF IInv, Labels, ExitsOK, SupervisorLate

\* The steps of the supervisor that move it on.
LEMMA SupervisorSteps ==
  ASSUME IInv, SupervisorSetsid \/ SupervisorDetaches \/ WaitProgram
  PROVE  IInv'
  <1>1. held["supervisor"] = SupervisorHolds(pc["supervisor"]) /\ held \in [Procs -> SUBSET Resources]
    BY DEF IInv, HeldOK, Procs, Chain, Holds, At
  <1>2. CASE SupervisorSetsid
    <2>1. /\ Goes("supervisor", "setsid", "fork") /\ UNCHANGED <<held, ended, status, exits>>
          /\ HostUnchanged
      BY <1>2 DEF SupervisorSetsid
    <2>2. held["supervisor"] = SupervisorHolds("fork")
      BY <1>1, <2>1 DEF Goes, SupervisorHolds
    <2>3. held' = [held EXCEPT !["supervisor"] = SupervisorHolds("fork")]
      BY <1>1, <2>1, <2>2 DEF Procs, Chain
    <2>4. ExitsOK'
      BY <2>1, ExitsStay
    <2> QED
      BY <2>1, <2>3, <2>4, SupervisorMoves
  <1>3. CASE SupervisorDetaches
    <2>1. /\ Goes("supervisor", "detach", "sendPid") /\ UNCHANGED <<ended, status, exits>>
          /\ HostUnchanged /\ held' = [held EXCEPT !["supervisor"] = @ \ {"slave", "statusW"}]
      BY <1>3 DEF SupervisorDetaches
    <2>2. held["supervisor"] \ {"slave", "statusW"} = SupervisorHolds("sendPid")
      BY <1>1, <2>1 DEF Goes, SupervisorHolds, Kept
    <2>3. held' = [held EXCEPT !["supervisor"] = SupervisorHolds("sendPid")]
      BY <2>1, <2>2
    <2>4. ExitsOK'
      BY <2>1, ExitsStay
    <2> QED
      BY <2>1, <2>3, <2>4, SupervisorMoves
  <1>4. CASE WaitProgram
    <2>1. /\ Goes("supervisor", "wait", "sendReport") /\ UNCHANGED <<held, ended, status, exits>>
          /\ HostUnchanged /\ ~Alive("program")
      BY <1>4 DEF WaitProgram
    <2>2. held["supervisor"] = SupervisorHolds("sendReport")
      BY <1>1, <2>1 DEF Goes, SupervisorHolds
    <2>3. held' = [held EXCEPT !["supervisor"] = SupervisorHolds("sendReport")]
      BY <1>1, <2>1, <2>2 DEF Procs, Chain
    <2>4. ExitsOK'
      BY <2>1, ExitsStay
    <2>5. pc["program"] \in Gone
      BY <2>1 DEF Goes, Alive, Gone, IInv, Labels, ChainOK, SupervisorLate
    <2> QED
      BY <2>1, <2>3, <2>4, <2>5, SupervisorMoves
  <1> QED
    BY <1>2, <1>3, <1>4

\* The pid is sent before anything else, or the supervisor fails because nobody
\* listens.
LEMMA SendPidKeeps ==
  ASSUME IInv, SendPid
  PROVE  IInv'
  <1>1. /\ pc["supervisor"] = "sendPid" /\ UNCHANGED status /\ HostUnchanged
        /\ UNCHANGED <<host, search, verdict, pid, exitSeen>>
    BY DEF SendPid, HostUnchanged
  <1>2. ~PidSent /\ ~ReportSent /\ ended["supervisor"] = "no" /\ pc["program"] # "unborn"
    BY <1>1 DEF IInv, Labels, ExitsOK, ChainOK, Chain, SupervisorLate, Gone
  <1>3. exits = <<>> /\ pid = FALSE /\ exitSeen # "report"
    BY <1>2 DEF PidSent, ReportSent, IInv, Labels, HostOK
  <1>4. CASE /\ Goes("supervisor", "sendPid", "wait") /\ exits' = Append(exits, "pid")
             /\ UNCHANGED <<held, ended>>
    <2>1. exits' = <<"pid">>
      BY <1>3, <1>4
    <2>2. held["supervisor"] = SupervisorHolds("wait") /\ held \in [Procs -> SUBSET Resources]
      BY <1>1 DEF IInv, HeldOK, Procs, Chain, Holds, At, SupervisorHolds
    <2>3. held' = [held EXCEPT !["supervisor"] = SupervisorHolds("wait")]
      BY <1>4, <2>2 DEF Procs, Chain
    <2>4. pc \in [Chain -> LauncherAt \union SupervisorAt \union ProgramAt]
      BY DEF IInv, Labels, ChainOK
    <2>5. pc'["supervisor"] = "wait" /\ pc'["program"] = pc["program"]
      BY <1>4, <2>4 DEF Goes, Chain
    <2>6. ~ReportSent'
      BY <1>1, <1>3, <2>1 DEF ReportSent
    <2>7. ExitsOK'
      BY <1>1, <1>2, <1>3, <1>4, <2>1, <2>5, <2>6 DEF IInv, Labels, ExitsOK, SupervisorLate
    <2> QED
      BY <1>1, <1>4, <2>3, <2>7, SupervisorMoves
  <1>5. CASE ~Open("exitR") /\ Dies("supervisor", "failed") /\ UNCHANGED exits
    <2>1. ~HostListens
      BY <1>5, HostEndsHeld DEF IInv, Open, Procs
    <2>2. Alive("supervisor") /\ "supervisor" \in Chain
      BY <1>1 DEF Alive, Chain
    <2> QED
      BY <1>1, <1>2, <1>5, <2>1, <2>2, DeathKeeps
  <1> QED
    BY <1>4, <1>5 DEF SendPid

\* The two messages of the exit pipe, one after the other.
LEMMA PidThenReport ==
  ASSUME NEW e, e = <<"pid">>
  PROVE  Append(e, "report") = <<"pid", "report">>
  <1>1. e \in Seq({"pid", "report"}) /\ Len(e) = 1 /\ e[1] = "pid" /\ "report" \in {"pid", "report"}
    OBVIOUS
  <1>2. /\ Append(e, "report") \in Seq({"pid", "report"}) 
        /\ Len(Append(e, "report")) = Len(e) + 1
        /\ \A i \in 1 .. Len(e) : Append(e, "report")[i] = e[i]
        /\ Append(e, "report")[Len(e) + 1] = "report"
    BY <1>1, AppendProperties
  <1>3. <<"pid", "report">> \in Seq({"pid", "report"}) /\ Len(<<"pid", "report">>) = 2
    OBVIOUS
  <1> DEFINE s == Append(e, "report")
             t == <<"pid", "report">>
  <1>4. t[1] = "pid" /\ t[2] = "report"
    OBVIOUS
  <1>5. s \in Seq({"pid", "report"}) /\ t \in Seq({"pid", "report"}) /\ Len(s) = 2 /\ Len(t) = 2
    BY <1>1, <1>2, <1>3
  <1>6. s[1] = "pid" /\ s[2] = "report"
    BY <1>1, <1>2
  <1> HIDE DEF s, t
  <1>7. \A i \in 1 .. Len(s) : s[i] = t[i]
    <2>1. \A i \in 1 .. 2 : i = 1 \/ i = 2
      OBVIOUS
    <2> QED
      BY <1>4, <1>5, <1>6, <2>1
  <1>8. s = t
    BY <1>5, <1>7, SeqEqual
  <1> QED
    BY <1>8 DEF s, t

\* The report is sent once the program is over, if anyone listens.
LEMMA SendReportKeeps ==
  ASSUME IInv, SendReport
  PROVE  IInv'
  <1>1. /\ Goes("supervisor", "sendReport", "awaitRelease") /\ pc["supervisor"] = "sendReport"
        /\ exits' = IF Open("exitR") THEN Append(exits, "report") ELSE exits
        /\ UNCHANGED <<held, ended, status>> /\ HostUnchanged
        /\ UNCHANGED <<host, search, verdict, pid, exitSeen>>
    BY DEF SendReport, Goes, HostUnchanged
  <1>2. exits = IF pid THEN <<>> ELSE <<"pid">>
    BY <1>1 DEF IInv, Labels, ExitsOK
  <1>3. /\ exits = <<>> => Append(exits, "report") = <<"report">>
        /\ exits = <<"pid">> => Append(exits, "report") = <<"pid", "report">>
    <2>1. exits = <<>> => Append(exits, "report") = <<"report">>
      OBVIOUS
    <2>2. exits = <<"pid">> => Append(exits, "report") = <<"pid", "report">>
      BY PidThenReport
    <2> QED
      BY <2>1, <2>2
  <1>4. /\ exits' \in {<<>>, <<"pid">>, <<"report">>, <<"pid", "report">>}
        /\ pid => exits' \in {<<>>, <<"report">>}
    BY <1>1, <1>2, <1>3
  <1>5. pc["program"] \in Gone /\ ended["supervisor"] = "no"
    BY <1>1 DEF IInv, Labels, ChainOK, Chain, Gone
  <1>6. pc \in [Chain -> LauncherAt \union SupervisorAt \union ProgramAt]
    BY DEF IInv, Labels, ChainOK
  <1>7. pc'["supervisor"] = "awaitRelease" /\ pc'["program"] = pc["program"]
    BY <1>1, <1>6 DEF Goes, Chain
  <1>8. ExitsOK'
    BY <1>1, <1>4, <1>5, <1>7 DEF IInv, Labels, ExitsOK, SupervisorLate, Gone
  <1>9. held["supervisor"] = SupervisorHolds("awaitRelease") /\ held \in [Procs -> SUBSET Resources]
    BY <1>1 DEF IInv, HeldOK, Procs, Chain, Holds, At, SupervisorHolds
  <1>10. held' = [held EXCEPT !["supervisor"] = SupervisorHolds("awaitRelease")]
    BY <1>1, <1>9 DEF Procs, Chain
  <1> QED
    BY <1>1, <1>8, <1>10, SupervisorMoves

\* The program on its way to the exec and beyond.
LEMMA ProgramMoves ==
  ASSUME IInv, NEW l \in ProgramEarly, NEW m \in ProgramEarly \union {"running"},
         Goes("program", l, m),
         held' = [held EXCEPT !["program"] = ProgramHolds(m)],
         UNCHANGED <<ended, status, exits>>, HostUnchanged
  PROVE  IInv'
  <1>1. /\ pc["program"] = l /\ pc' = [pc EXCEPT !["program"] = m]
        /\ UNCHANGED <<host, search, verdict, pid, exitSeen>>
    BY DEF Goes, HostUnchanged
  <1>2. pc \in [Chain -> LauncherAt \union SupervisorAt \union ProgramAt]
    BY DEF IInv, Labels, ChainOK
  <1>3. l \notin {"unborn"} \union Gone /\ m \notin {"unborn"} \union Gone /\ m \in ProgramAt
    BY DEF ProgramAt, ProgramEarly, Gone
  <1>4. /\ pc'["launcher"] = pc["launcher"] /\ pc'["supervisor"] = pc["supervisor"]
        /\ pc'["program"] = m
        /\ pc' \in [Chain -> LauncherAt \union SupervisorAt \union ProgramAt]
    BY <1>1, <1>2, <1>3 DEF Chain
  <1>5. HeldOK'
    <2>1. \A q \in Procs \ {"program"} : Holds(q, At(q)') = Holds(q, At(q))
      BY <1>1, <1>4 DEF Procs, Chain, At
    <2>2. ProgramHolds(m) = Holds("program", At("program")') /\ "program" \in Procs
      BY <1>4 DEF Holds, At, Procs, Chain
    <2> QED
      BY <2>1, <2>2, HeldMoves DEF IInv
  <1>6. HostOK'
    BY <1>1 DEF IInv, Labels, HostOK, search, Stages
  <1>7. ChainOK'
    <2>1. \A q \in Chain : ended'[q] = "no" <=> pc'[q] \notin Gone
      BY <1>1, <1>3, <1>4 DEF IInv, Labels, ChainOK, Chain
    <2>2. m # "reaped" /\ m \in ProgramAt
      BY <1>3 DEF Gone
    <2> QED
      BY <1>1, <1>3, <1>4, <2>1, <2>2 DEF IInv, Labels, ChainOK
  <1>8. ExitsOK'
    BY <1>1, <1>3, <1>4 DEF IInv, Labels, ExitsOK, PidSent, ReportSent
  <1>9. ~NobodyCanReport /\ ended["program"] = "no"
    BY <1>1, <1>3 DEF NobodyCanReport, IInv, Labels, ChainOK, Chain
  <1>10. EndOK'
    BY <1>1, <1>3, <1>4 DEF IInv, Labels, EndOK, HostListens, HostWithholds
  <1>11. StatusOK'
    BY <1>1, <1>9 DEF IInv, Labels, StatusOK
  <1>12. FailedOK'
    BY <1>1, <1>3 DEF IInv, Labels, FailedOK, NeverRuns
  <1> QED
    BY <1>5, <1>6, <1>7, <1>8, <1>10, <1>11, <1>12 DEF IInv, Labels

\* What the program holds at each step of its setup.
LEMMA ProgramSetupKeeps ==
  ASSUME IInv, ProgramSetup
  PROVE  IInv'
  <1>1. held["program"] = ProgramHolds(pc["program"]) /\ held \in [Procs -> SUBSET Resources]
    BY DEF IInv, HeldOK, Procs, Chain, Holds, At
  <1>2. PICK l \in ProgramEarly, m \in ProgramEarly \union {"running"} :
          /\ Goes("program", l, m) /\ UNCHANGED <<ended, status, exits>> /\ HostUnchanged
          /\ \/ l = "setsid" /\ m = "terminal" /\ UNCHANGED held
             \/ l = "terminal" /\ m = "stdio" /\ UNCHANGED held
             \/ l = "chdir" /\ m = "exec" /\ UNCHANGED held
             \/ /\ l = "stdio" /\ m = "closeFds"
                /\ held' = [held EXCEPT !["program"] = (@ \union {"tty"}) \ {"slave"}]
             \/ /\ l = "closeFds" /\ m = "chdir"
                /\ held' = [held EXCEPT !["program"] = @ \intersect {"tty", "statusW"}]
             \/ /\ l = "exec" /\ m = "running"
                /\ held' = [held EXCEPT !["program"] = @ \intersect {"tty"}]
    BY DEF ProgramSetup, ProgramSteps, ControllingTerminal, Stdio, ProgramCloses, Exec, Keeps,
       ProgramEarly
  <1>3. held["program"] = ProgramHolds(l)
    BY <1>1, <1>2 DEF Goes
  <1>4. held' = [held EXCEPT !["program"] = ProgramHolds(m)]
    <2>1. CASE l = "setsid" /\ m = "terminal" /\ UNCHANGED held
      <3>1. ProgramHolds(m) = held["program"]
        BY <1>3, <2>1 DEF ProgramHolds
      <3> QED
        BY <1>1, <2>1, <3>1 DEF Procs, Chain
    <2>2. CASE l = "terminal" /\ m = "stdio" /\ UNCHANGED held
      <3>1. ProgramHolds(m) = held["program"]
        BY <1>3, <2>2 DEF ProgramHolds
      <3> QED
        BY <1>1, <2>2, <3>1 DEF Procs, Chain
    <2>3. CASE l = "chdir" /\ m = "exec" /\ UNCHANGED held
      <3>1. ProgramHolds(m) = held["program"]
        BY <1>3, <2>3 DEF ProgramHolds
      <3> QED
        BY <1>1, <2>3, <3>1 DEF Procs, Chain
    <2>4. CASE /\ l = "stdio" /\ m = "closeFds"
               /\ held' = [held EXCEPT !["program"] = (@ \union {"tty"}) \ {"slave"}]
      <3>1. ProgramHolds(m) = (held["program"] \union {"tty"}) \ {"slave"}
        BY <1>3, <2>4 DEF ProgramHolds, Kept
      <3> QED
        BY <2>4, <3>1
    <2>5. CASE /\ l = "closeFds" /\ m = "chdir"
               /\ held' = [held EXCEPT !["program"] = @ \intersect {"tty", "statusW"}]
      <3>1. ProgramHolds(m) = held["program"] \intersect {"tty", "statusW"}
        BY <1>3, <2>5 DEF ProgramHolds
      <3> QED
        BY <2>5, <3>1
    <2>6. CASE /\ l = "exec" /\ m = "running"
               /\ held' = [held EXCEPT !["program"] = @ \intersect {"tty"}]
      <3>1. ProgramHolds(m) = held["program"] \intersect {"tty"}
        BY <1>3, <2>6 DEF ProgramHolds
      <3> QED
        BY <2>6, <3>1
    <2> QED
      BY <1>2, <2>1, <2>2, <2>3, <2>4, <2>5, <2>6
  <1> QED
    BY <1>2, <1>4, ProgramMoves

-----------------------------------------------------------------------------
(* The theorems                                                            *)

\* The caller calls pty_unix_spawn: nothing is held, nobody is there.
LEMMA InitOK ==
  ASSUME Init
  PROVE  IInv
  <1>1. /\ host = "resolve" /\ android \in BOOLEAN /\ entry = 1 /\ denied = FALSE
        /\ held = [p \in Procs |-> {}] /\ pc = [p \in Chain |-> "unborn"]
        /\ ended = [p \in Chain |-> "no"] /\ status = <<>> /\ exits = <<>>
        /\ verdict = "none" /\ pid = FALSE /\ exitSeen = "none"
    BY DEF Init
  <1>2. /\ pc["launcher"] = "unborn" /\ pc["supervisor"] = "unborn" /\ pc["program"] = "unborn"
        /\ ended["supervisor"] = "no" /\ ended["program"] = "no"
    BY <1>1 DEF Chain
  <1>3. HeldOK
    <2>1. \A p \in Procs : Holds(p, At(p)) = {}
      BY <1>1 DEF Holds, At, Procs, Chain, HostHolds, LauncherHolds, SupervisorHolds, ProgramHolds
    <2> QED
      BY <1>1, <2>1 DEF HeldOK
  <1>4. HostOK
    <2>1. PICK n \in 1 .. MaxPath : path \in [1 .. n -> AccessResult]
      BY DEF Init
    <2>2. MaxPath \in Nat \ {0} /\ n \in Nat
      BY SpawnAssumption
    <2>3. path \in Seq(AccessResult) /\ Len(path) = n
      BY <2>1, <2>2
    <2>4. Len(path) <= MaxPath /\ 1 \in 1 .. MaxPath /\ 1 <= Len(path)
      BY <2>2, <2>3
    <2>5. "resolve" \in ToSet(Stages)
      <3>1. Stages[1] = "resolve" /\ 1 \in DOMAIN Stages
        BY DEF Stages
      <3> QED
        BY <3>1 DEF ToSet
    <2> QED
      BY <1>1, <2>3, <2>4, <2>5 DEF HostOK
  <1>5. ChainOK
    BY <1>1, <1>2 DEF ChainOK, LauncherAt, SupervisorAt, SupervisorEarly, SupervisorLate, ProgramAt, Gone,
       Setup, Starting, Started
  <1>6. ExitsOK
    BY <1>1, <1>2 DEF ExitsOK, PidSent, ReportSent
  <1>7. EndOK /\ StatusOK /\ FailedOK
    BY <1>1, <1>2 DEF EndOK, StatusOK, FailedOK
  <1> QED
    BY <1>3, <1>4, <1>5, <1>6, <1>7 DEF IInv, Labels

\* Every step keeps the invariant.
LEMMA NextKeeps ==
  ASSUME IInv, [Next]_vars
  PROVE  IInv'
  <1>1. CASE Host
    <2>1. CASE Resolve
      BY <2>1, ResolveKeeps
    <2>2. CASE SetupSucceeds
      BY <2>2, SetupSucceedsKeeps
    <2>3. CASE SetupFails
      BY <2>3, SetupFailsKeeps
    <2>4. CASE Fork
      BY <2>4, ForkKeeps
    <2>5. CASE HostCloses
      BY <2>5, HostClosesKeeps
    <2>6. CASE WaitLauncher
      BY <2>6, WaitLauncherKeeps
    <2>7. CASE ReadStatus
      BY <2>7, ReadStatusKeeps
    <2>8. CASE Reported
      BY <2>8, ReportedKeeps
    <2>9. CASE Unreadable
      BY <2>9, UnreadableKeeps
    <2>10. CASE GiveUp
      BY <2>10, GiveUpKeeps
    <2>11. CASE ReadPid
      BY <2>11, ReadPidKeeps
    <2>12. CASE Configure
      BY <2>12, ConfigureKeeps
    <2>13. CASE ReadExit
      BY <2>13, ReadExitKeeps
    <2>14. CASE Release
      BY <2>14, ReleaseKeeps
    <2> QED
      BY <1>1, <2>1, <2>2, <2>3, <2>4, <2>5, <2>6, <2>7, <2>8, <2>9, <2>10, <2>11, <2>12, <2>13,
         <2>14 DEF Host
  <1>2. CASE ReadStatusFails
    BY <1>2, ReadStatusKeeps
  <1>3. CASE HostDies
    BY <1>3, HostDiesKeeps
  <1>4. CASE RuntimeReapsLauncher
    BY <1>4, WaitLauncherKeeps
  <1>5. CASE Launcher
    BY <1>5, LauncherSteps, ForkSupervisorKeeps DEF Launcher
  <1>6. CASE Supervisor
    BY <1>6, SupervisorSteps, ForkProgramKeeps, SendPidKeeps, SendReportKeeps, ReapKeeps DEF Supervisor
  <1>7. CASE ProgramSetup
    BY <1>7, ProgramSetupKeeps
  <1>8. CASE \E p \in Chain : Reports(p) \/ Killed(p)
    BY <1>8, ReportsKeeps, KilledKeeps
  <1>9. CASE Hangup \/ ProgramExits
    BY <1>9, ProgramEndsKeeps
  <1>10. CASE UNCHANGED vars
    <2>1. UNCHANGED <<host, android, path, entry, denied, held, pc, ended, status, exits, verdict, pid,
                      exitSeen>>
      BY <1>10 DEF vars
    <2>2. HeldOK'
      BY <2>1 DEF IInv, HeldOK, At
    <2>3. HostOK'
      BY <2>1 DEF IInv, Labels, HostOK, Stages
    <2>4. ChainOK' /\ ExitsOK' /\ EndOK'
      BY <2>1 DEF IInv, Labels, ChainOK, ExitsOK, EndOK, PidSent, ReportSent, HostListens, HostWithholds
    <2>5. StatusOK' /\ FailedOK'
      BY <2>1 DEF IInv, Labels, StatusOK, FailedOK, NobodyCanReport, NeverRuns, HostReads
    <2> QED
      BY <2>2, <2>3, <2>4, <2>5 DEF IInv, Labels
  <1> QED
    BY <1>1, <1>2, <1>3, <1>4, <1>5, <1>6, <1>7, <1>8, <1>9, <1>10 DEF Next, ChainStep

\* The invariant holds of every spawn.
THEOREM Invariant == Spec => []IInv
  <1>1. Init => IInv
    BY InitOK
  <1>2. IInv /\ [Next]_vars => IInv'
    BY NextKeeps
  <1> QED
    BY <1>1, <1>2, PTL DEF Spec

\* What each process holds, and what is in the pipes, follows from its label.
LEMMA LeaksNothing ==
  ASSUME IInv
  PROVE  NothingLeaks
  <1>1. /\ held["host"] = HostHolds(host) /\ held["launcher"] = LauncherHolds(pc["launcher"])
        /\ held["supervisor"] = SupervisorHolds(pc["supervisor"])
        /\ held["program"] = ProgramHolds(pc["program"])
    BY DEF IInv, HeldOK, Procs, Chain, Holds, At
  <1>2. TypeOK
    <2>1. \A p \in Procs : held[p] \subseteq
             {"tty", "statusW0"} \union Kept \union HostEnds \union {"statusR"} \union Memory
      <3>1. Resources = {"tty", "statusW0"} \union Kept \union HostEnds \union {"statusR"} \union Memory
        BY DEF Resources, Everything, PipeAndExit, Pipe, Terminal, Kept, HostEnds
      <3> QED
        BY <3>1 DEF IInv, HeldOK
    <2>2. Len(status) <= 1
      <3>1. CASE status = <<>>
        BY <3>1
      <3>2. CASE \E e \in Reporting : status = <<e>>
        BY <3>2
      <3> QED
        BY <3>1, <3>2 DEF IInv, Labels, StatusOK
    <2>3. Len(exits) <= 2
      <3>1. exits \in {<<>>, <<"pid">>, <<"report">>, <<"pid", "report">>}
        BY DEF IInv, Labels, ExitsOK
      <3>2. CASE exits = <<>>
        BY <3>2
      <3>3. CASE exits = <<"pid">>
        BY <3>3
      <3>4. CASE exits = <<"report">>
        BY <3>4
      <3>5. CASE exits = <<"pid", "report">>
        BY <3>5
      <3> QED
        BY <3>1, <3>2, <3>3, <3>4, <3>5
    <2>4. host \in ToSet(Stages) \union {"close", "waitLauncher", "readStatus", "reported", "readPid",
                 "unreadable", "giveUp", "configure", "spawned", "released", "failed", "dead"}
      BY DEF IInv, Labels, HostOK, Starting, Started
    <2> QED
      BY <2>1, <2>2, <2>3, <2>4 DEF IInv, Labels, HostOK, TypeOK
  <1>3. host \in {"failed", "released"} => held["host"] = {}
    BY <1>1 DEF HostHolds
  <1>4. host = "spawned" => held["host"] = HostEnds
    BY <1>1 DEF HostHolds
  <1>5. ASSUME verdict = "ok"
        PROVE  /\ \A p \in {"launcher", "supervisor"} : held[p] \subseteq {"exitW", "releaseR"}
               /\ held["program"] \subseteq {"tty"}
    <2>1. NobodyCanReport /\ pc["supervisor"] # "detach"
      BY <1>5 DEF IInv, Labels, StatusOK
    <2>2. held["launcher"] = {}
      BY <1>1, <2>1 DEF NobodyCanReport, Gone, LauncherHolds
    <2>3. held["supervisor"] \subseteq {"exitW", "releaseR"}
      BY <1>1, <2>1 DEF NobodyCanReport, SupervisorEarly, SupervisorHolds
    <2>4. held["program"] \subseteq {"tty"}
      BY <1>1, <2>1 DEF NobodyCanReport, ProgramEarly, ProgramHolds
    <2> QED
      BY <2>2, <2>3, <2>4
  <1> QED
    BY <1>2, <1>3, <1>4, <1>5 DEF NothingLeaks

\* A failed or finished spawn gives back what it acquired (pty_unix_spawn's
\* clean-up of every failure, pty_unix_release_process), a successful one keeps
\* what it returns, and nobody else holds an end of a pipe that counts.
THEOREM LeakFree == Spec => []NothingLeaks
  <1>1. IInv => NothingLeaks
    BY LeaksNothing
  <1> QED
    BY <1>1, Invariant, PTL

\* A spawn that succeeds has started its program, one that was told of an error
\* fails, and one that fails leaves no program running (pty_unix_spawn's use of the
\* status pipe's end of file and of the pid on the exit pipe).
THEOREM TrueVerdict == Spec => []VerdictTrue
  <1>1. ASSUME IInv PROVE VerdictTrue
    <2>1. ASSUME verdict = "ok"
          PROVE  pc["program"] # "unborn" /\ ended["program"] # "failed" /\ status = <<>>
      BY <1>1, <2>1 DEF IInv, Labels, StatusOK, ExitsOK, PidSent
    <2>2. ASSUME host = "failed", pc["program"] = "running"
          PROVE  ended["supervisor"] = "killed"
      BY <1>1, <2>2 DEF IInv, Labels, FailedOK, NeverRuns, Gone
    <2> QED
      BY <2>1, <2>2 DEF VerdictTrue
  <1> QED
    BY <1>1, Invariant, PTL

\* The exit report is the program's, an exit pipe that ends without one has lost
\* its supervisor, and the pid stays reserved till the host lets go of it
\* (supervise_program, pty_unix_read_exit).
THEOREM TrueExit == Spec => []ExitReportTrue
  <1>1. ASSUME IInv PROVE ExitReportTrue
    <2>1. exitSeen = "report" => ~Alive("program")
      BY <1>1 DEF IInv, Labels, ExitsOK, ReportSent, Gone, Alive
    <2>2. exitSeen = "eof" => ended["supervisor"] = "killed"
      BY <1>1 DEF IInv, Labels, ExitsOK
    <2>3. ASSUME Holding("host", "releaseW"), pc["program"] = "reaped"
          PROVE  ended["supervisor"] = "killed"
      <3>1. HostWithholds /\ HostListens
        BY <1>1, <2>3, HostEndsHeld DEF IInv, HostWithholds, HostListens, HasExit
      <3>2. pc["supervisor"] \in Gone
        BY <1>1, <2>3 DEF IInv, Labels, ChainOK
      <3>3. ended["supervisor"] \in {"failed", "exited", "killed"}
        BY <1>1, <3>2 DEF IInv, Labels, ChainOK, Chain
      <3> QED
        BY <1>1, <2>3, <3>1, <3>3 DEF IInv, Labels, EndOK
    <2> QED
      BY <2>1, <2>2, <2>3 DEF ExitReportTrue
  <1> QED
    BY <1>1, Invariant, PTL
=============================================================================
