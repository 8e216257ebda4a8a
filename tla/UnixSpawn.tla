----------------------------- MODULE UnixSpawn -----------------------------
(* Starting a program on a Unix terminal (src/unix/pty_unix_spawn.c): the  *)
(* host's setup with the clean-up of every failure, the fork chain         *)
(* launcher -> supervisor -> program, the pipes between them -- status     *)
(* (closed by a successful exec), exit (the pid, then how the program      *)
(* ended) and release (closed when the pid may be reaped) -- and what      *)
(* remains of all that when any of them fails or is killed at any step.    *)
(* After a successful spawn the host is the session's waiter: it reads the *)
(* exit report and releases the process.                                   *)
EXTENDS Naturals, Sequences, FiniteSets, SequencesExt

CONSTANTS
    Faults,   \* what may go wrong, see FaultsAssumption
    MaxPath   \* bound: entries of PATH

ASSUME SpawnAssumption ==
    /\ Faults \subseteq {"setup",       \* a call of the host's setup fails
                         "child",       \* a call of the chain fails and is reported
                         "launcher", "supervisor", "program",  \* killed
                         "host",        \* the calling process dies
                         "statusRead",  \* reading the status pipe fails
                         "configure"}   \* the last call on the master fails
    /\ MaxPath \in Nat \ {0}

VARIABLES
    host,     \* the stage the host is in
    android,  \* built with pty_open of Android
    path,     \* access() result of each PATH entry; <<>> once resolved
    entry,    \* the entry tried next
    denied,   \* saw_permission_denied
    held,     \* held[p]: descriptors and memory of process p
    pc,       \* pc[p]: next step of a process of the chain
    ended,    \* ended[p]: how the process died; "killed" by anyone else
    status,   \* what is in the status pipe: errors of the chain
    exits,    \* what is in the exit pipe: "pid", "report"
    verdict,  \* what pty_unix_spawn returned
    pid,      \* the host knows the program's pid
    exitSeen  \* what pty_unix_read_exit returned: "none", "report" or "eof"

vars == <<host, android, path, entry, denied, held, pc, ended, status, exits, verdict, pid, exitSeen>>
chain == <<pc, ended, status, exits>>
search == <<android, path, entry, denied>>

Chain == {"launcher", "supervisor", "program"}
Procs == Chain \union {"host"}
Memory == {"path", "argv", "envp"}
Holding(p, r) == r \in held[p]
Open(r) == \E p \in Procs : Holding(p, r)
Alive(p) == pc[p] \notin {"unborn", "zombie", "reaped"}

\* The host's setup: what each stage acquires.
Stages ==
    IF android
    THEN <<"resolve", "argv", "envp", "openpt", "grant", "name", "openSlave", "winsize",
           "attributes", "place", "statusPipe", "statusFlags", "statusMove", "statusPlace",
           "exitPipe", "exitPlace", "releasePipe", "releasePlace", "mask", "fork">>
    ELSE <<"resolve", "argv", "envp", "openpty",
           "attributes", "place", "statusPipe", "statusFlags", "statusMove", "statusPlace",
           "exitPipe", "exitPlace", "releasePipe", "releasePlace", "mask", "fork">>
Acquires(s) ==
    CASE s = "resolve"     -> {"path"}
      [] s = "argv"        -> {"argv"}
      [] s = "envp"        -> {"envp"}
      [] s = "openpt"      -> {"master"}
      [] s = "openSlave"   -> {"slave"}
      [] s = "openpty"     -> {"master", "slave"}
      [] s = "statusPipe"  -> {"statusR", "statusW0"}
      [] s = "statusPlace" -> {"statusW"}
      [] s = "exitPipe"    -> {"exitR", "exitW"}
      [] s = "releasePipe" -> {"releaseR", "releaseW"}
      [] OTHER             -> {}

\* ... and what the code gives back when the stage fails.  The stages that move
\* descriptors ("place", "statusMove", "exitPlace", "releasePlace") lose the one
\* move_fd_above could not move, which it closes, and close the others.
ClosesTerminal == {"master", "slave"} \union Memory

\* Mutant: the child's end of the status pipe is forgotten.
ClosesReadEnd == {"statusR"} \union ClosesTerminal

ClosesStatus   == {"statusR", "statusW"} \union ClosesTerminal
ClosesExit     == {"exitR", "exitW"} \union ClosesStatus
ClosesRelease  == {"releaseR", "releaseW"} \union ClosesExit
Closes(s) ==
    CASE s = "resolve"                        -> {}
      [] s = "argv"                           -> {"path"}
      [] s = "envp"                           -> {"path", "argv"}
      [] s \in {"openpt", "openpty"}          -> Memory
      [] s \in {"grant", "name", "openSlave"} -> {"master"} \union Memory
      [] s \in {"winsize", "attributes", "place", "statusPipe"} -> ClosesTerminal
      [] s \in {"statusFlags", "statusMove"}  -> {"statusR", "statusW0"} \union ClosesTerminal
      [] s = "statusPlace"                    -> {"statusW0"} \union ClosesStatus
      [] s = "exitPipe"                       -> ClosesStatus
      [] s \in {"exitPlace", "releasePipe"}   -> ClosesExit
      [] s \in {"releasePlace", "mask", "fork"} -> ClosesRelease
StageAfter(s) == Stages[1 + CHOOSE i \in 1..Len(Stages) : Stages[i] = s]

AccessResult == {"ok", "EACCES", "ENOENT"}

Init ==
    /\ host = "resolve" /\ android \in BOOLEAN
    /\ path \in UNION {[1..n -> AccessResult] : n \in 1..MaxPath}
    /\ entry = 1 /\ denied = FALSE
    /\ held = [p \in Procs |-> {}]
    /\ pc = [p \in Chain |-> "unborn"] /\ ended = [p \in Chain |-> "no"]
    /\ status = <<>> /\ exits = <<>>
    /\ verdict = "none" /\ pid = FALSE /\ exitSeen = "none"

-----------------------------------------------------------------------------
\* The host's setup

HostEnds == {"exitR", "releaseW", "master", "slave"}

\* Processes die.  Init reaps the children of a dead supervisor.
Dead(p) == [q \in Chain |->
    CASE q = p /\ p = "program" /\ ~Alive("supervisor")           -> "reaped"
      [] q = p /\ ~(p = "program" /\ ~Alive("supervisor"))        -> "zombie"
      [] q = "program" /\ p = "supervisor" /\ pc[q] = "zombie"    -> "reaped"
      [] q # p /\ ~(q = "program" /\ p = "supervisor" /\ pc[q] = "zombie") -> pc[q]]
Dies(p, how) ==
    /\ pc' = Dead(p) /\ ended' = [ended EXCEPT ![p] = how]
    /\ held' = [held EXCEPT ![p] = {}]

Fails(closed, why) ==
    /\ host' = "failed" /\ verdict' = why
    /\ held' = [held EXCEPT !["host"] = @ \ closed]

\* Mutant: the program is left to itself.
FailsSparing(closed, why) == Fails(closed, why) /\ UNCHANGED <<pc, ended>>

\* cleanup_failed_child of a known pid, or stop_process
FailsKilling(closed, why) ==
    /\ host' = "failed" /\ verdict' = why
    /\ IF Alive("program")
       THEN /\ pc' = Dead("program") /\ ended' = [ended EXCEPT !["program"] = "stopped"]
            /\ held' = [held EXCEPT !["host"] = @ \ closed, !["program"] = {}]
       ELSE held' = [held EXCEPT !["host"] = @ \ closed] /\ UNCHANGED <<pc, ended>>

\* resolve_executable: one turn of the loop over PATH
SawDenied == denied \/ path[entry] = "EACCES"
Resolve ==
    /\ host = "resolve"
    /\ \/ /\ path[entry] = "ok"
          /\ host' = StageAfter("resolve") /\ path' = <<>> /\ denied' = FALSE /\ entry' = 1
          /\ held' = [held EXCEPT !["host"] = @ \union Acquires("resolve")]
          /\ UNCHANGED verdict
       \/ /\ path[entry] # "ok" /\ entry < Len(path)
          /\ entry' = entry + 1 /\ denied' = SawDenied
          /\ UNCHANGED <<host, path, held, verdict>>
       \/ /\ path[entry] # "ok" /\ entry = Len(path)
          /\ Fails(Closes("resolve"), IF SawDenied THEN "EACCES" ELSE "ENOENT")
          /\ path' = <<>> /\ denied' = FALSE /\ entry' = 1
    /\ UNCHANGED <<android, chain, pid, exitSeen>>

SetupSucceeds ==
    /\ host \in ToSet(Stages) \ {"resolve", "fork"}
    /\ host' = StageAfter(host)
    /\ held' = [held EXCEPT !["host"] = (@ \union Acquires(host)) \
                                        (IF host = "statusPlace" THEN {"statusW0"} ELSE {})]
    /\ UNCHANGED <<search, chain, verdict, pid, exitSeen>>

SetupFails ==
    /\ "setup" \in Faults /\ host \in ToSet(Stages) \ {"resolve"}
    /\ Fails(Closes(host), "setup")
    /\ UNCHANGED <<search, chain, pid, exitSeen>>

\* The launcher is a copy of the host.
Fork ==
    /\ host = "fork" /\ host' = "close"
    /\ pc' = [pc EXCEPT !["launcher"] = "signals"]
    /\ held' = [held EXCEPT !["launcher"] = held["host"]]
    /\ UNCHANGED <<search, ended, status, exits, verdict, pid, exitSeen>>

\* Mutant: the host keeps the write end of the status pipe.
HostKeepsWriteEnd ==
    /\ host = "close" /\ host' = "waitLauncher"
    /\ held' = [held EXCEPT !["host"] = @ \ {"exitW", "releaseR"}]
    /\ UNCHANGED <<search, chain, verdict, pid, exitSeen>>

\* The host's ends of the pipes are the only ones it keeps.
HostCloses ==
    /\ host = "close" /\ host' = "waitLauncher"
    /\ held' = [held EXCEPT !["host"] = @ \ {"statusW", "exitW", "releaseR"}]
    /\ UNCHANGED <<search, chain, verdict, pid, exitSeen>>

\* waitpid(launcher), also when a runtime that reaps every child was faster
WaitLauncher ==
    /\ host = "waitLauncher" /\ ~Alive("launcher") /\ host' = "readStatus"
    /\ pc' = [pc EXCEPT !["launcher"] = "reaped"]
    /\ UNCHANGED <<search, held, ended, status, exits, verdict, pid, exitSeen>>
RuntimeReapsLauncher ==
    /\ pc["launcher"] = "zombie" /\ pc' = [pc EXCEPT !["launcher"] = "reaped"]
    /\ UNCHANGED <<host, search, held, ended, status, exits, verdict, pid, exitSeen>>

\* read_child_error: an error, or end of file once nobody holds the write end
ReadStatus ==
    /\ host = "readStatus"
    /\ \/ status # <<>> /\ host' = "reported"
       \/ status = <<>> /\ ~Open("statusW") /\ host' = "readPid"
    /\ held' = [held EXCEPT !["host"] = @ \ ({"statusR"} \union Memory)]
    /\ UNCHANGED <<search, chain, verdict, pid, exitSeen>>
ReadStatusFails ==
    /\ "statusRead" \in Faults /\ host = "readStatus" /\ host' = "unreadable"
    /\ held' = [held EXCEPT !["host"] = @ \ ({"statusR"} \union Memory)]
    /\ UNCHANGED <<search, chain, verdict, pid, exitSeen>>

\* An error was reported: its sender has exited or is about to.
Reported ==
    /\ host = "reported" /\ Fails(HostEnds, status[1])
    /\ UNCHANGED <<search, chain, pid, exitSeen>>

\* The status could not be read: the pid is read if there is one, the release
\* pipe is closed, and the program is stopped.
Unreadable ==
    /\ host = "unreadable"
    /\ \/ /\ exits # <<>> /\ host' = "giveUp" /\ pid' = TRUE /\ exits' = Tail(exits)
       \/ /\ exits = <<>> /\ ~Open("exitW") /\ host' = "giveUp" /\ UNCHANGED <<pid, exits>>
    /\ held' = [held EXCEPT !["host"] = @ \ {"exitR", "releaseW"}]
    /\ UNCHANGED <<search, pc, ended, status, verdict, exitSeen>>
GiveUp ==
    /\ host = "giveUp"
    /\ \/ pid /\ FailsKilling({"master", "slave"}, "unreadable")
       \/ ~pid /\ Fails({"master", "slave"}, "unreadable") /\ UNCHANGED <<pc, ended>>
    /\ UNCHANGED <<search, status, exits, pid, exitSeen>>

\* The pid's arrival is what tells a started program from a dead supervisor.
ReadPid ==
    /\ host = "readPid"
    /\ \/ exits # <<>> /\ host' = "configure" /\ pid' = TRUE /\ exits' = Tail(exits)
          /\ UNCHANGED <<held, verdict>>
       \/ exits = <<>> /\ ~Open("exitW") /\ Fails(HostEnds, "noPid") /\ UNCHANGED <<pid, exits>>
    /\ UNCHANGED <<search, pc, ended, status, exitSeen>>

\* O_NONBLOCK; when that fails the program is stopped, then released
Configure ==
    /\ host = "configure"
    /\ \/ host' = "spawned" /\ verdict' = "ok" /\ UNCHANGED <<held, pc, ended>>
       \/ "configure" \in Faults /\ FailsKilling(HostEnds, "configure")
    /\ UNCHANGED <<search, status, exits, pid, exitSeen>>

\* The session's waiter: pty_unix_read_exit; without a report it stops the program
\* (waiter_worker); then pty_unix_release_process.  The terminal goes with the session.
ReadExit ==
    /\ host = "spawned" /\ exitSeen = "none"
    /\ \/ exits # <<>> /\ exitSeen' = "report" /\ exits' = Tail(exits)
       \/ exits = <<>> /\ ~Open("exitW") /\ exitSeen' = "eof" /\ UNCHANGED exits
    /\ UNCHANGED <<host, search, held, pc, ended, status, verdict, pid>>
Release ==
    /\ host = "spawned" /\ exitSeen # "none" /\ host' = "released"
    /\ \/ /\ exitSeen = "eof" /\ Alive("program")
          /\ pc' = Dead("program") /\ ended' = [ended EXCEPT !["program"] = "stopped"]
          /\ held' = [held EXCEPT !["host"] = @ \ HostEnds, !["program"] = {}]
       \/ /\ ~(exitSeen = "eof" /\ Alive("program"))
          /\ held' = [held EXCEPT !["host"] = @ \ HostEnds]
          /\ UNCHANGED <<pc, ended>>
    /\ UNCHANGED <<search, status, exits, verdict, pid, exitSeen>>

Host ==
    \/ Resolve \/ SetupSucceeds \/ SetupFails \/ Fork \/ HostCloses \/ WaitLauncher
    \/ ReadStatus \/ Reported \/ Unreadable \/ GiveUp \/ ReadPid \/ Configure
    \/ ReadExit \/ Release

HostDies ==
    /\ "host" \in Faults /\ host \notin {"failed", "released", "dead"}
    /\ host' = "dead" /\ held' = [held EXCEPT !["host"] = {}]
    /\ UNCHANGED <<search, chain, verdict, pid, exitSeen>>

-----------------------------------------------------------------------------
\* The chain

Goes(p, from, to) == pc[p] = from /\ pc' = [pc EXCEPT ![p] = to]
Keeps(p, S) == held' = [held EXCEPT ![p] = @ \intersect S]
HostUnchanged == UNCHANGED <<host, search, verdict, pid, exitSeen>>

\* Mutant: the launcher hands the release pipe's write end on.
KeptReleaseToo == {"statusW", "slave", "exitW", "releaseR", "releaseW"}

Kept == {"statusW", "slave", "exitW", "releaseR"}

\* child_report_error, then _exit: the error is lost when nobody can read it
Reports(p) ==
    /\ "child" \in Faults \/ (p = "program" /\ pc[p] = "terminal" /\ ~Open("master"))
    /\ pc[p] \in {"signals", "fork", "setsid", "terminal", "stdio", "chdir", "exec"}
    /\ Dies(p, "failed")
    /\ status' = IF Open("statusR") THEN Append(status, pc[p]) ELSE status
    /\ UNCHANGED exits /\ HostUnchanged

ResetSignals ==
    /\ Goes("launcher", "signals", "closeFds")
    /\ UNCHANGED <<held, ended, status, exits>> /\ HostUnchanged
LauncherCloses ==
    /\ Goes("launcher", "closeFds", "fork") /\ Keeps("launcher", Kept)
    /\ UNCHANGED <<ended, status, exits>> /\ HostUnchanged
ForkSupervisor ==
    /\ pc["launcher"] = "fork"
    /\ pc' = [pc EXCEPT !["launcher"] = "zombie", !["supervisor"] = "setsid"]
    /\ held' = [held EXCEPT !["supervisor"] = held["launcher"], !["launcher"] = {}]
    /\ ended' = [ended EXCEPT !["launcher"] = "exited"]
    /\ UNCHANGED <<status, exits>> /\ HostUnchanged

\* The new session detaches the supervisor from the caller's job control.
SupervisorSetsid ==
    /\ Goes("supervisor", "setsid", "fork")
    /\ UNCHANGED <<held, ended, status, exits>> /\ HostUnchanged
ForkProgram ==
    /\ pc["supervisor"] = "fork"
    /\ pc' = [pc EXCEPT !["supervisor"] = "detach", !["program"] = "setsid"]
    /\ held' = [held EXCEPT !["program"] = held["supervisor"]]
    /\ UNCHANGED <<ended, status, exits>> /\ HostUnchanged

SupervisorDetaches ==
    /\ Goes("supervisor", "detach", "sendPid")
    /\ held' = [held EXCEPT !["supervisor"] = @ \ {"slave", "statusW"}]
    /\ UNCHANGED <<ended, status, exits>> /\ HostUnchanged

SendPid ==
    /\ pc["supervisor"] = "sendPid"
    /\ \/ /\ Open("exitR") /\ Goes("supervisor", "sendPid", "wait") /\ exits' = Append(exits, "pid")
          /\ UNCHANGED <<held, ended>>
       \/ ~Open("exitR") /\ Dies("supervisor", "failed") /\ UNCHANGED exits
    /\ UNCHANGED status /\ HostUnchanged

\* Mutant: an interrupted waitid is taken for the exit.
WaitInterrupted ==
    /\ Goes("supervisor", "wait", "sendReport")
    /\ UNCHANGED <<held, ended, status, exits>> /\ HostUnchanged

\* waitid with WNOWAIT: the program stays a zombie
WaitProgram ==
    /\ ~Alive("program") /\ Goes("supervisor", "wait", "sendReport")
    /\ UNCHANGED <<held, ended, status, exits>> /\ HostUnchanged

\* Mutant: the report is not written.
SendNothing ==
    /\ Goes("supervisor", "sendReport", "awaitRelease")
    /\ UNCHANGED <<held, ended, status, exits>> /\ HostUnchanged

SendReport ==
    /\ Goes("supervisor", "sendReport", "awaitRelease")
    /\ exits' = IF Open("exitR") THEN Append(exits, "report") ELSE exits
    /\ UNCHANGED <<held, ended, status>> /\ HostUnchanged
ReleaseSeen == ~Open("releaseW")
Reap ==
    /\ pc["supervisor"] = "awaitRelease" /\ ReleaseSeen
    /\ Dies("supervisor", "exited")
    /\ UNCHANGED <<status, exits>> /\ HostUnchanged

ProgramSteps(from, to) ==
    /\ Goes("program", from, to) /\ UNCHANGED <<held, ended, status, exits>> /\ HostUnchanged
ControllingTerminal ==
    /\ pc["program"] = "terminal" /\ Open("master") /\ ProgramSteps("terminal", "stdio")
\* dup2 onto the standard descriptors, here "tty"; the slave itself is closed
Stdio ==
    /\ Goes("program", "stdio", "closeFds")
    /\ held' = [held EXCEPT !["program"] = (@ \union {"tty"}) \ {"slave"}]
    /\ UNCHANGED <<ended, status, exits>> /\ HostUnchanged
ProgramCloses ==
    /\ Goes("program", "closeFds", "chdir") /\ Keeps("program", {"tty", "statusW"})
    /\ UNCHANGED <<ended, status, exits>> /\ HostUnchanged
\* execve closes the status pipe
Exec ==
    /\ Goes("program", "exec", "running") /\ Keeps("program", {"tty"})
    /\ UNCHANGED <<ended, status, exits>> /\ HostUnchanged
ProgramSetup ==
    \/ ProgramSteps("setsid", "terminal") \/ ControllingTerminal \/ Stdio
    \/ ProgramCloses \/ ProgramSteps("chdir", "exec") \/ Exec

Supervisor ==
    \/ SupervisorSetsid \/ ForkProgram \/ SupervisorDetaches \/ SendPid
    \/ WaitProgram \/ SendReport \/ Reap
Launcher == ResetSignals \/ LauncherCloses \/ ForkSupervisor

\* The kernel and the program: SIGHUP when the last master closes, to a program
\* that has the terminal, may end it, at once, later or never -- it may have executed to
\* ignore or handle the signal --; and the program's own end.
Hangup ==
    /\ pc["program"] \in {"stdio", "closeFds", "chdir", "exec", "running"} /\ ~Open("master")
    /\ Dies("program", "hangup")
    /\ UNCHANGED <<status, exits>> /\ HostUnchanged
ProgramExits ==
    /\ pc["program"] = "running" /\ Dies("program", "exited")
    /\ UNCHANGED <<status, exits>> /\ HostUnchanged
Killed(p) ==
    /\ p \in Faults /\ Alive(p) /\ Dies(p, "killed")
    /\ UNCHANGED <<status, exits>> /\ HostUnchanged

ChainStep == Launcher \/ Supervisor \/ ProgramSetup
Next ==
    \/ Host \/ ReadStatusFails \/ HostDies \/ RuntimeReapsLauncher
    \/ ChainStep \/ (\E p \in Chain : Reports(p) \/ Killed(p))
    \/ Hangup \/ ProgramExits

Spec == Init /\ [][Next]_vars
\* Every process is scheduled; the one call that fails by itself is TIOCSCTTY on a
\* terminal that hung up.  A program need neither exit nor obey a hangup.
FairSpec ==
    /\ Spec /\ WF_vars(Host) /\ WF_vars(Launcher) /\ WF_vars(Supervisor)
    /\ WF_vars(ProgramSetup \/ Reports("program"))

-----------------------------------------------------------------------------
\* Every part of the state has its type.
TypeOK ==
    /\ host \in ToSet(Stages) \union {"close", "waitLauncher", "readStatus", "reported", "readPid",
                 "unreadable", "giveUp", "configure", "spawned", "released", "failed", "dead"}
    /\ Len(path) <= MaxPath /\ entry \in 1..MaxPath /\ denied \in BOOLEAN /\ android \in BOOLEAN
    /\ \A p \in Procs : held[p] \subseteq
          {"tty", "statusW0"} \union Kept \union HostEnds \union {"statusR"} \union Memory
    /\ Len(status) <= 1 /\ Len(exits) <= 2
    /\ pid \in BOOLEAN /\ exitSeen \in {"none", "report", "eof"}

\* A call that failed has given back every descriptor and buffer it acquired, one
\* that succeeded keeps exactly the four descriptors it returns, and then host and
\* program alone hold the terminal and nobody but the supervisor the pipes, so
\* that a hangup and an end of file mean what they should.
NothingLeaks ==
    /\ TypeOK
    /\ host \in {"failed", "released"} => held["host"] = {}
    /\ verdict = "ok" /\ host = "spawned" => held["host"] = HostEnds
    /\ verdict = "ok" => /\ \A p \in {"launcher", "supervisor"} : held[p] \subseteq {"exitW", "releaseR"}
                         /\ held["program"] \subseteq {"tty"}

\* A spawn succeeds only if the program was started: it has executed or was
\* killed before it could; an error reported by anyone in the chain fails the
\* spawn; and a failed spawn leaves no program that has executed, unless the
\* supervisor was killed (the hangup is left to end it).
VerdictTrue ==
    /\ verdict = "ok" => /\ pc["program"] # "unborn"
                         /\ ended["program"] # "failed"
                         /\ status = <<>>
    /\ host = "failed" /\ pc["program"] = "running" => ended["supervisor"] = "killed"

\* The exit that is read is the program's, and only a dead supervisor gives none;
\* the program stays unreaped till the host releases it, "so its pid stays reserved
\* and signals cannot reach a recycled pid" (pty_unix_spawn.h:42).
ExitReportTrue ==
    /\ exitSeen = "report" => ~Alive("program")
    /\ exitSeen = "eof" => ended["supervisor"] = "killed"
    /\ Holding("host", "releaseW") /\ pc["program"] = "reaped" => ended["supervisor"] = "killed"

\* pty_unix_spawn returns, whatever fails or is killed.
SpawnReturns == <>(host \in {"spawned", "released", "failed", "dead"})

\* Once the host is through with the program, or has died, the whole chain ends
\* and the program is reaped (supervise_program, init) -- if the program obeys the
\* hangup, which is all that a host that died leaves behind to stop it.  One that
\* does not can remain only then, or when its supervisor was killed as well; and
\* nothing remains with it but a supervisor that waits for it.
HostDone == host \in {"failed", "released", "dead"}
NobodyLeft == \A p \in Chain : ~Alive(p) /\ pc["program"] # "zombie"
RunsOn ==
    /\ pc["program"] = "running" /\ ~Alive("launcher")
    /\ pc["supervisor"] = "wait" \/ ~Alive("supervisor")
    /\ host = "dead" \/ ended["supervisor"] = "killed"
NothingRemains ==
    /\ WF_vars(Hangup) => (HostDone ~> NobodyLeft)
    /\ HostDone ~> (NobodyLeft \/ RunsOn)

\* The end of a program always reaches a host that waits for it, and is released.
ExitArrives == (host = "spawned" /\ ~Alive("program")) ~> host \in {"released", "dead"}
=============================================================================
