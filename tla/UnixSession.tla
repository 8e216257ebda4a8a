----------------------------- MODULE UnixSession -----------------------------
(***************************************************************************)
(* The life of one Unix session: its bootstrap, reactor, waiter and close  *)
(* threads, the Dart isolate that owns it, the supervisor of its program,  *)
(* and what they share -- the atomic lifecycle, the reference count, the   *)
(* flags under the platform mutex and the event port.  What the reactor    *)
(* does with bytes is in UnixReactor; here it only runs until it is told   *)
(* to stop, the terminal ends or its I/O fails.                            *)
(*                                                                         *)
(* A thread's pc names the next step of its body, call the next step of    *)
(* pty_session_abandon and begin_close when it is inside those functions.  *)
(* Each step is one atomic operation, critical section, system call or     *)
(* event post.                                                             *)
(***************************************************************************)
EXTENDS Integers, Sequences, FiniteSets

CONSTANT Faults          \* what the environment may do, a subset of AllFaults

AllFaults == {"spawn", "setup",               \* startup fails
              "reactor", "waiter", "closer",  \* a thread cannot be created
              "io", "supervisor",             \* terminal I/O fails, supervisor dies
              "isolate", "gc",  \* the isolate exits, the wrapper is collected
              "kill"}           \* the user kills the program

ASSUME FaultsAssumption == Faults \subseteq AllFaults

VARIABLES
  pc,          \* next step of each thread
  call,        \* its next step inside abandon and begin_close, or "none"
  abandoning,  \* threads whose begin_close was called by pty_session_abandon
  lifecycle, abandoned, refCount,
  plat,        \* the flags of PtyUnixPlatform, and processExited
  report,      \* what the waiter read from the supervisor
  program,     \* "none", "running", "exited" (a zombie), "reaped"
  supervisor,  \* "up" or "dead"
  stray,       \* a signal was sent to a pid that was already reaped
  log,         \* events the port accepted, in order
  portOpen,    \* the isolate listens
  dart,        \* the isolate's side of the session
  handed       \* times the Dart-owned reference was released

sessionVars == <<lifecycle, abandoned, refCount, handed>>
processVars == <<report, program, supervisor, stray>>
dartVars    == <<log, portOpen, dart>>
callVars    == <<call, abandoning>>
vars == <<pc, callVars, sessionVars, plat, processVars, dartVars>>

Workers == {"boot", "reactor", "waiter", "closer"}
Threads == Workers \cup {"owner"}

\* pty_session_start has retained the session for the bootstrap thread.
Init ==
  /\ pc = [t \in Threads |-> CASE t = "boot"  -> "spawn"
                               [] t = "owner" -> "idle"
                               [] OTHER       -> "off"]
  /\ call = [t \in Threads |-> "none"] /\ abandoning = {}
  /\ lifecycle = "STARTING" /\ abandoned = FALSE /\ refCount = 2 /\ handed = 0
  /\ plat = [published |-> FALSE, stopping |-> FALSE, wake |-> FALSE,
             reactorDone |-> FALSE, waiterDone |-> FALSE,
             closeStarted |-> FALSE, closeDone |-> FALSE,
             outputClosed |-> FALSE, closedPosted |-> FALSE,
             processExited |-> FALSE, released |-> FALSE]
  /\ report = "none" /\ program = "none" /\ supervisor = "up" /\ stray = FALSE
  /\ log = <<>> /\ portOpen = TRUE
  /\ dart = [seen |-> 0, spawn |-> "pending", fatal |-> FALSE,
             closing |-> FALSE, closed |-> FALSE, gone |-> FALSE,
             finalizer |-> "attached"]

-----------------------------------------------------------------------------
(* Steps shared by several threads                                         *)

At(t, label) == pc[t] = label /\ call[t] = "none"
Go(t, label) == pc' = [pc EXCEPT ![t] = label]

\* The thread calls pty_session_abandon.
Abandon(t) ==
  /\ call' = [call EXCEPT ![t] = "abandon"]
  /\ UNCHANGED <<abandoned, abandoning>>

\* post_session_event: skipped once abandoned; after a post that fails the
\* thread goes through pty_session_abandon before it goes on.
PostEvent(t, event) ==
  /\ \/ /\ abandoned
        /\ UNCHANGED <<log, abandoned, callVars>>
     \/ /\ ~abandoned /\ portOpen
        /\ log' = Append(log, event)
        /\ UNCHANGED <<abandoned, callVars>>
     \/ /\ ~abandoned /\ ~portOpen
        /\ Abandon(t)
        /\ UNCHANGED log
  /\ UNCHANGED <<refCount, handed, portOpen, dart>>

PostStep(t, label, event, next) ==
  /\ At(t, label) /\ Go(t, next)
  /\ PostEvent(t, event)
  /\ UNCHANGED <<lifecycle, plat, processVars>>

\* A critical section that only sets platform flags.
FlagStep(t, label, flags, next) ==
  /\ At(t, label) /\ Go(t, next)
  /\ plat' = flags
  /\ UNCHANGED <<callVars, sessionVars, processVars, dartVars>>

\* pty_session_mark_closing and mark_closed: unconditional stores.
MarkStep(t, label, value, next) ==
  /\ At(t, label) /\ Go(t, next)
  /\ lifecycle' = value
  /\ UNCHANGED <<callVars, abandoned, refCount, handed, plat, processVars, dartVars>>

\* wake_reactor (faulty variant: it does not), release_process
Unwoken == plat
Woken == [plat EXCEPT !.wake = TRUE]
Released == [plat EXCEPT !.released = TRUE]

\* stop_process: SIGKILL unless the exit is recorded or the process released.
\* Faulty variant: it does not look at what is recorded.
CarelessStop ==
  /\ program' = IF program = "running" THEN "exited" ELSE program
  /\ stray' = (stray \/ program = "reaped")
  /\ UNCHANGED <<report, supervisor>>

StopProcess ==
  /\ IF plat.released \/ plat.processExited
       THEN UNCHANGED <<program, stray>>
       ELSE /\ program' = IF program = "running" THEN "exited" ELSE program
            /\ stray' = (stray \/ program = "reaped")
  /\ UNCHANGED <<report, supervisor>>

StopStep(t, label, next) ==
  /\ At(t, label) /\ Go(t, next)
  /\ StopProcess
  /\ UNCHANGED <<callVars, sessionVars, plat, dartVars>>

\* maybe_post_session_closed: whoever completes the set of finished workers
\* claims the event, then marks the session closed and posts it.
\* Faulty variants: the waiter is not waited for, the claim is made more than
\* once.
AllButWaiter == plat.stopping /\ plat.reactorDone /\ plat.closeDone
AllDone == plat.stopping /\ plat.reactorDone /\ plat.waiterDone /\ plat.closeDone

ClaimableAgain == AllDone
Claimable == AllDone /\ ~plat.closedPosted
Claimed == [plat EXCEPT !.closedPosted = TRUE]

ClaimClosed(t) ==
  \/ Claimable  /\ FlagStep(t, "claim", Claimed, "markClosed")
  \/ ~Claimable /\ FlagStep(t, "claim", plat, "release")

\* The last step of a worker: pty_session_release.
Finish(t) ==
  /\ At(t, "release") /\ Go(t, "end")
  /\ refCount' = refCount - 1
  /\ UNCHANGED <<callVars, lifecycle, abandoned, handed, plat, processVars, dartVars>>

\* How every worker ends.
Ending(t) ==
  \/ ClaimClosed(t)
  \/ MarkStep(t, "markClosed", "CLOSED", "postClosed")
  \/ PostStep(t, "postClosed", "SESSION_CLOSED", "release")
  \/ Finish(t)

-----------------------------------------------------------------------------
(* pty_session_abandon and pty_session_begin_close, inside any thread      *)

In(t, label) == call[t] = label
Inside(t, label) == call' = [call EXCEPT ![t] = label] /\ UNCHANGED <<pc, abandoning>>

\* The function returns; pty_session_abandon then releases Dart's reference.
\* Faulty variant: it does not.
ReturnKeeping(t) ==
  /\ call' = [call EXCEPT ![t] = "none"]
  /\ abandoning' = abandoning \ {t}
  /\ UNCHANGED <<pc, refCount, handed>>

Return(t) ==
  /\ call' = [call EXCEPT ![t] = "none"]
  /\ abandoning' = abandoning \ {t}
  /\ IF t \in abandoning THEN refCount' = refCount - 1 /\ handed' = handed + 1
                         ELSE UNCHANGED <<refCount, handed>>
  /\ UNCHANGED pc

closeFrame == <<abandoned, processVars, dartVars>>

\* The atomic exchange of pty_session_mark_abandoned lets one caller go on.
\* Faulty variant: every caller does.
EveryoneAbandons(t) ==
  /\ In(t, "abandon")
  /\ abandoned' = TRUE
  /\ call' = [call EXCEPT ![t] = "lifecycle"]
  /\ abandoning' = abandoning \cup {t}
  /\ UNCHANGED <<pc, lifecycle, refCount, handed, plat, processVars, dartVars>>

MarkAbandoned(t) ==
  /\ In(t, "abandon")
  /\ abandoned' = TRUE
  /\ call' = [call EXCEPT ![t] = IF abandoned THEN "none" ELSE "lifecycle"]
  /\ abandoning' = IF abandoned THEN abandoning ELSE abandoning \cup {t}
  /\ UNCHANGED <<pc, lifecycle, refCount, handed, plat, processVars, dartVars>>

\* The loop of compare-and-swaps; a closed session stays closed.
ClosingFrom(state) == IF state \in {"STARTING", "RUNNING"} THEN "CLOSING" ELSE state

\* A session still starting is left to its bootstrap, a closed one alone.
CloseLifecycle(t) ==
  /\ In(t, "lifecycle")
  /\ lifecycle' = ClosingFrom(lifecycle)
  /\ IF lifecycle \in {"STARTING", "CLOSED"} \/ ~plat.published
       THEN Return(t)
       ELSE Inside(t, "claim") /\ UNCHANGED <<refCount, handed>>
  /\ UNCHANGED <<plat, closeFrame>>

\* Only one caller starts the close worker.
CloseClaim(t) ==
  /\ In(t, "claim")
  /\ IF plat.closeStarted \/ plat.closeDone
       THEN Return(t) /\ UNCHANGED plat
       ELSE /\ Inside(t, "create")
            /\ plat' = [plat EXCEPT !.closeStarted = TRUE]
            /\ UNCHANGED <<refCount, handed>>
  /\ UNCHANGED <<lifecycle, closeFrame>>

\* Two references are taken: the worker's, and one until the creator is done.
\* Faulty variant: only one is.
CreateRetainsOnce(t) ==
  /\ In(t, "create")
  /\ refCount' = refCount + 1
  /\ pc' = [pc EXCEPT !["closer"] = "stopping"]
  /\ call' = [call EXCEPT ![t] = "unretain"]
  /\ UNCHANGED <<abandoning, lifecycle, handed, plat, closeFrame>>

CloseCreate(t) ==
  /\ In(t, "create")
  /\ refCount' = refCount + 2
  /\ pc' = [pc EXCEPT !["closer"] = "stopping"]
  /\ call' = [call EXCEPT ![t] = "unretain"]
  /\ UNCHANGED <<abandoning, lifecycle, handed, plat, closeFrame>>

\* The worker is published; the creator's reference goes.
CloseUnretain(t) ==
  /\ In(t, "unretain")
  /\ call' = [call EXCEPT ![t] = "none"]
  /\ abandoning' = abandoning \ {t}
  /\ refCount' = refCount - (IF t \in abandoning THEN 2 ELSE 1)
  /\ handed' = handed + (IF t \in abandoning THEN 1 ELSE 0)
  /\ UNCHANGED <<pc, lifecycle, plat, closeFrame>>

\* Without a worker (both references dropped again) the caller closes inline.
CloseCreateFails(t) ==
  /\ In(t, "create") /\ "closer" \in Faults
  /\ Inside(t, "stop")
  /\ plat' = [plat EXCEPT !.stopping = TRUE, !.closeDone = TRUE]
  /\ UNCHANGED <<sessionVars, processVars, dartVars>>

CloseStop(t) ==
  /\ In(t, "stop")
  /\ StopProcess
  /\ Inside(t, "wake")
  /\ UNCHANGED <<sessionVars, plat, dartVars>>

CloseWake(t) ==
  /\ In(t, "wake")
  /\ plat' = Woken
  /\ Inside(t, "maybe")
  /\ UNCHANGED <<sessionVars, processVars, dartVars>>

CloseMaybe(t) ==
  /\ In(t, "maybe")
  /\ IF Claimable
       THEN Inside(t, "mark") /\ plat' = Claimed /\ UNCHANGED <<refCount, handed>>
       ELSE Return(t) /\ UNCHANGED plat
  /\ UNCHANGED <<lifecycle, closeFrame>>

CloseMark(t) ==
  /\ In(t, "mark")
  /\ lifecycle' = "CLOSED"
  /\ Inside(t, "post")
  /\ UNCHANGED <<abandoned, refCount, handed, plat, processVars, dartVars>>

\* A failed post abandons the session from inside its close, which starts over,
\* finds the session closed and releases Dart's reference.
ClosePost(t) ==
  /\ In(t, "post")
  /\ IF abandoned \/ portOpen
       THEN /\ Return(t)
            /\ log' = IF abandoned THEN log ELSE Append(log, "SESSION_CLOSED")
            /\ UNCHANGED abandoned
       ELSE Abandon(t) /\ UNCHANGED <<pc, refCount, handed, log>>
  /\ UNCHANGED <<lifecycle, plat, processVars, portOpen, dart>>

BeginClose(t) ==
  \/ MarkAbandoned(t)
  \/ CloseLifecycle(t) \/ CloseClaim(t) \/ CloseCreate(t) \/ CloseUnretain(t)
  \/ CloseCreateFails(t) \/ CloseStop(t) \/ CloseWake(t)
  \/ CloseMaybe(t) \/ CloseMark(t) \/ ClosePost(t)

-----------------------------------------------------------------------------
(* bootstrap_worker                                                        *)

\* Create a detached worker for which the session has been retained.
StartThread(label, thread, first, next) ==
  /\ At("boot", label)
  /\ pc' = [pc EXCEPT !["boot"] = next, ![thread] = first]
  /\ refCount' = refCount + 1
  /\ UNCHANGED <<callVars, lifecycle, abandoned, handed, plat, processVars, dartVars>>

\* The thread is not created; its reference is released again.
ThreadFails(fault, label, next) ==
  fault \in Faults /\ FlagStep("boot", label, plat, next)

\* A bootstrap that gives up reserves the close, unless one already started,
\* so that no close worker starts after it.
Reserved(flags) ==
  IF flags.closeStarted THEN flags
  ELSE [flags EXCEPT !.closeStarted = TRUE, !.closeDone = TRUE]

BootSpawns ==
  /\ At("boot", "spawn") /\ Go("boot", "setup")
  /\ program' = "running"
  /\ UNCHANGED <<callVars, sessionVars, plat, report, supervisor, stray, dartVars>>

\* Faulty variant: the failure is not posted.
SpawnFailsSilently ==
  \/ "spawn" \in Faults /\ FlagStep("boot", "spawn", plat, "failedOutput")
  \/ PostStep("boot", "failedOutput", "OUTPUT_CLOSED", "failedMark")
  \/ MarkStep("boot", "failedMark", "CLOSING", "markClosed")

BootSpawnFails ==
  \/ "spawn" \in Faults /\ FlagStep("boot", "spawn", plat, "failed")
  \/ PostStep("boot", "failed", "SPAWN_FAILED", "failedOutput")
  \/ PostStep("boot", "failedOutput", "OUTPUT_CLOSED", "failedMark")
  \/ MarkStep("boot", "failedMark", "CLOSING", "markClosed")

\* The platform cannot be set up: kill the program and let it be reaped.
BootSetupFails ==
  \/ /\ "setup" \in Faults /\ At("boot", "setup") /\ Go("boot", "setupFailed")
     /\ program' = IF program = "running" THEN "exited" ELSE program
     /\ plat' = Released
     /\ UNCHANGED <<callVars, sessionVars, report, supervisor, stray, dartVars>>
  \/ PostStep("boot", "setupFailed", "SPAWN_FAILED", "failedMark")

\* pty_session_platform_store, then the check for a close during startup.
BootPublishes ==
  FlagStep("boot", "setup", [plat EXCEPT !.published = TRUE], "check")

BootChecksClosing ==
  FlagStep("boot", "check", plat,
           IF plat.stopping \/ lifecycle = "CLOSING" THEN "unstarted" ELSE "reactor")

\* finish_unstarted_close
BootFinishesUnstarted ==
  \/ StopStep("boot", "unstarted", "unstartedFlags")
  \/ FlagStep("boot", "unstartedFlags",
              [plat EXCEPT !.stopping = TRUE, !.reactorDone = TRUE,
                           !.waiterDone = TRUE, !.closeDone = TRUE,
                           !.outputClosed = TRUE, !.closedPosted = TRUE],
              "unstartedRelease")
  \/ FlagStep("boot", "unstartedRelease", Released, "unstartedAnswer")
  \/ PostStep("boot", "unstartedAnswer", "SPAWN_FAILED", "unstartedMark")
  \/ MarkStep("boot", "unstartedMark", "CLOSED", "unstartedOutput")
  \/ PostStep("boot", "unstartedOutput", "OUTPUT_CLOSED", "postClosed")

\* No reactor: the session is closed here, or by a close already under way.
BootReactorFails ==
  \/ ThreadFails("reactor", "reactor", "noReactor")
  \/ MarkStep("boot", "noReactor", "CLOSING", "noReactorStop")
  \/ StopStep("boot", "noReactorStop", "noReactorRelease")
  \/ FlagStep("boot", "noReactorRelease", Released, "noReactorFlags")
  \/ LET done == [plat EXCEPT !.stopping = TRUE, !.reactorDone = TRUE,
                              !.waiterDone = TRUE, !.outputClosed = TRUE,
                              !.closedPosted = @ \/ ~plat.closeStarted]
     IN  FlagStep("boot", "noReactorFlags", Reserved(done),
                  IF plat.closeStarted THEN "lateAnswer" ELSE "noReactorAnswer")
  \/ PostStep("boot", "noReactorAnswer", "SPAWN_FAILED", "noReactorOutput")
  \/ PostStep("boot", "noReactorOutput", "OUTPUT_CLOSED", "markClosed")
  \/ PostStep("boot", "lateAnswer", "SPAWN_FAILED", "lateOutput")
  \/ PostStep("boot", "lateOutput", "OUTPUT_CLOSED", "claim")

\* No waiter: the reactor already runs and is stopped.
BootWaiterFails ==
  \/ ThreadFails("waiter", "waiter", "noWaiter")
  \/ FlagStep("boot", "noWaiter",
              Reserved([plat EXCEPT !.stopping = TRUE, !.waiterDone = TRUE]),
              "noWaiterStop")
  \/ StopStep("boot", "noWaiterStop", "noWaiterWake")
  \/ FlagStep("boot", "noWaiterWake", Woken, "noWaiterRelease")
  \/ FlagStep("boot", "noWaiterRelease", Released, "noWaiterMark")
  \/ MarkStep("boot", "noWaiterMark", "CLOSING", "cancelAnswer")

\* The compare-and-swap from STARTING to RUNNING ends the startup.
BootRuns ==
  /\ lifecycle = "STARTING"
  /\ MarkStep("boot", "run", "RUNNING", "spawned")

\* A close came first.
BootCancelled ==
  \/ lifecycle # "STARTING" /\ FlagStep("boot", "run", plat, "cancelled")
  \/ FlagStep("boot", "cancelled", Reserved([plat EXCEPT !.stopping = TRUE]), "cancelStop")
  \/ StopStep("boot", "cancelStop", "cancelWake")
  \/ FlagStep("boot", "cancelWake", Woken, "cancelAnswer")
  \/ PostStep("boot", "cancelAnswer", "SPAWN_FAILED", "claim")

Boot ==
  \/ BootSpawns \/ BootSpawnFails \/ BootSetupFails \/ BootPublishes
  \/ BootChecksClosing \/ BootFinishesUnstarted \/ BootReactorFails
  \/ StartThread("reactor", "reactor", "top", "waiter")
  \/ BootWaiterFails
  \/ StartThread("waiter", "waiter", "wait", "run")
  \/ BootRuns \/ BootCancelled
  \/ PostStep("boot", "spawned", "SPAWNED", "release")
  \/ Ending("boot")

-----------------------------------------------------------------------------
(* reactor_worker, waiter_worker, close_worker                             *)

\* The loop, as far as stopping and waking go.
ReactorLoops ==
  \/ FlagStep("reactor", "top", plat, IF plat.stopping THEN "output" ELSE "poll")
  \/ plat.wake /\ FlagStep("reactor", "poll", plat, "drain")
  \/ FlagStep("reactor", "drain", [plat EXCEPT !.wake = FALSE], "check")
  \/ FlagStep("reactor", "check", plat, IF plat.stopping THEN "output" ELSE "work")
  \/ FlagStep("reactor", "work", plat, "top")

\* The terminal is ready; nobody promises that it ever is.
ReactorSeesTerminal == FlagStep("reactor", "poll", plat, "check")

\* The terminal has ended (never before the exit is recorded, see UnixReactor),
\* fails, or gave bytes that can no longer be posted.
ReactorLeaves ==
  \/ plat.processExited /\ FlagStep("reactor", "work", plat, "output")
  \/ "io" \in Faults /\ PostStep("reactor", "work", "ASYNC_ERROR", "output")
  \/ (~portOpen \/ abandoned) /\ PostStep("reactor", "work", "OUTPUT", "output")

\* reactor_done: mark_output_closed, mark_input_closed, the done flag.
ReactorEnds ==
  \/ /\ At("reactor", "output") /\ Go("reactor", "input")
     /\ plat' = [plat EXCEPT !.outputClosed = TRUE]
     /\ IF plat.outputClosed
          THEN UNCHANGED <<callVars, abandoned, refCount, handed, dartVars>>
          ELSE PostEvent("reactor", "OUTPUT_CLOSED")
     /\ UNCHANGED <<lifecycle, processVars>>
  \/ PostStep("reactor", "input", "INPUT_CLOSED", "done")
  \/ FlagStep("reactor", "done", [plat EXCEPT !.reactorDone = TRUE], "claim")
  \/ Ending("reactor")

Reactor == ReactorLoops \/ ReactorEnds

\* pty_unix_read_exit: the supervisor's report, or end of file if it died.  A
\* supervisor may die before or after its report of an exit.
WaiterReads ==
  /\ At("waiter", "wait")
  /\ \/ program \in {"exited", "reaped"} /\ report' = "exit" /\ Go("waiter", "record")
     \/ supervisor = "dead" /\ report' = "lost" /\ Go("waiter", "stop")
  /\ UNCHANGED <<callVars, sessionVars, plat, program, supervisor, stray, dartVars>>

WaiterRecords ==
  \/ StopStep("waiter", "stop", "record")
  \/ FlagStep("waiter", "record", [plat EXCEPT !.processExited = TRUE], "unregister")
  \/ FlagStep("waiter", "unregister", Released, "wake")
  \/ FlagStep("waiter", "wake", Woken, "post")

WaiterEnds ==
  \/ PostStep("waiter", "post",
              IF report = "exit" THEN "PROCESS_EXIT" ELSE "ASYNC_ERROR", "done")
  \/ FlagStep("waiter", "done", [plat EXCEPT !.waiterDone = TRUE], "claim")
  \/ Ending("waiter")

Waiter == WaiterReads \/ WaiterRecords \/ WaiterEnds

Closer ==
  \/ FlagStep("closer", "stopping", [plat EXCEPT !.stopping = TRUE], "stop")
  \/ StopStep("closer", "stop", "wake")
  \/ FlagStep("closer", "wake", Woken, "done")
  \/ FlagStep("closer", "done", [plat EXCEPT !.closeDone = TRUE], "claim")
  \/ Ending("closer")

-----------------------------------------------------------------------------
(* The program, its supervisor and init (external)                         *)

processFrame == <<pc, callVars, sessionVars, plat, report, stray, dartVars>>

ProgramExits ==
  /\ program = "running" /\ program' = "exited"
  /\ UNCHANGED <<supervisor, processFrame>>

\* Once it is told to release the program it ends anyway.
SupervisorDies ==
  /\ "supervisor" \in Faults /\ supervisor = "up" /\ program # "none" /\ ~plat.released
  /\ supervisor' = "dead"
  /\ UNCHANGED <<program, processFrame>>

\* The supervisor reaps once released, and ends; a program without one goes to
\* init.
Reap ==
  /\ program = "exited" /\ (supervisor = "dead" \/ plat.released)
  /\ program' = "reaped" /\ supervisor' = "dead"
  /\ UNCHANGED processFrame

-----------------------------------------------------------------------------
(* The Dart isolate                                                        *)

CanRun == ~dart.gone /\ At("owner", "idle")
OwnerCalls == call' = [call EXCEPT !["owner"] = "lifecycle"]

\* The event pump hands over the next event.  A failure (once) completes the
\* spawn with an error and begins a close; SESSION_CLOSED closes the port, and
\* what was posted after it is lost.
DartReceives ==
  /\ CanRun /\ portOpen /\ dart.seen < Len(log)
  /\ LET event == log[dart.seen + 1]
         fails == event \in {"SPAWN_FAILED", "ASYNC_ERROR"} /\ ~dart.fatal
     IN  /\ dart' = [dart EXCEPT
                       !.seen = @ + 1,
                       !.spawn = IF @ # "pending" THEN @
                                 ELSE IF event = "SPAWNED" THEN "ok"
                                 ELSE IF fails THEN "failed" ELSE @,
                       !.fatal = @ \/ fails,
                       !.closed = @ \/ event = "SESSION_CLOSED"]
         /\ portOpen' = (event # "SESSION_CLOSED")
         /\ IF fails THEN OwnerCalls ELSE UNCHANGED call
  /\ UNCHANGED <<pc, abandoning, sessionVars, plat, processVars, log>>

\* close(), by the user of a spawned session ...
Close ==
  /\ CanRun /\ ~dart.closing
  /\ dart' = [dart EXCEPT !.closing = TRUE]
  /\ OwnerCalls
  /\ UNCHANGED <<pc, abandoning, sessionVars, plat, processVars, log, portOpen>>

UserCloses == dart.spawn = "ok" /\ dart.finalizer = "attached" /\ Close

\* ... or by the driver after a failed spawn.
DriverCloses == dart.spawn = "failed" /\ Close

\* close() resumes after SESSION_CLOSED: detach the finalizer and release.
\* Faulty variant: the finalizer stays attached.
KeepsFinalizer == [dart EXCEPT !.closing = TRUE]
Detached == [dart EXCEPT !.finalizer = "detached"]

CloseFinishes ==
  /\ CanRun /\ dart.closing /\ dart.closed /\ dart.finalizer = "attached"
  /\ dart' = Detached
  /\ refCount' = refCount - 1 /\ handed' = handed + 1
  /\ UNCHANGED <<pc, callVars, lifecycle, abandoned, plat, processVars, log, portOpen>>

\* pty_session_kill and pty_session_send_signal(SIGKILL)
UserKills ==
  /\ "kill" \in Faults
  /\ CanRun /\ dart.spawn = "ok" /\ ~dart.closing /\ dart.finalizer = "attached"
  /\ StopStep("owner", "idle", "wake")

UserKillWakes == FlagStep("owner", "wake", Woken, "idle")

\* The port and what it holds go away with the isolate.
IsolateExits ==
  /\ "isolate" \in Faults /\ CanRun
  /\ dart' = [dart EXCEPT !.gone = TRUE, !.seen = 0]
  /\ log' = <<>> /\ portOpen' = FALSE
  /\ UNCHANGED <<pc, callVars, sessionVars, plat, processVars>>

\* The NativeFinalizer calls pty_session_abandon: when its isolate is gone or
\* the wrapper, no longer reachable, is collected.
RunFinalizer ==
  /\ At("owner", "idle") /\ dart.finalizer = "attached"
  /\ dart' = [dart EXCEPT !.finalizer = "ran"]
  /\ Abandon("owner")
  /\ UNCHANGED <<pc, lifecycle, refCount, handed, plat, processVars, log, portOpen>>

FinalizerAtExit == dart.gone /\ RunFinalizer
WrapperCollected ==
  "gc" \in Faults /\ ~dart.gone /\ dart.spawn = "ok" /\ ~dart.closing /\ RunFinalizer

-----------------------------------------------------------------------------

Next ==
  \/ Boot \/ Reactor \/ ReactorSeesTerminal \/ ReactorLeaves \/ Waiter \/ Closer
  \/ \E t \in Threads : BeginClose(t)
  \/ ProgramExits \/ SupervisorDies \/ Reap
  \/ DartReceives \/ UserCloses \/ DriverCloses \/ CloseFinishes
  \/ UserKills \/ UserKillWakes \/ IsolateExits \/ FinalizerAtExit \/ WrapperCollected

Spec == Init /\ [][Next]_vars

\* What goes on by itself: threads keep running, calls return, the supervisor
\* (or init) reaps, the isolate's event loop and the finalizers of a gone isolate
\* run.  The user need not close or kill, the program need not exit, the wrapper
\* need not be collected, and nothing promises that the terminal becomes ready.
ByItself ==
  \/ Boot \/ Reactor \/ Waiter \/ Closer \/ \E t \in Threads : BeginClose(t)
  \/ DartReceives \/ DriverCloses \/ CloseFinishes \/ UserKillWakes
  \/ Reap \/ FinalizerAtExit

\* None of these steps can be repeated for ever, so what has not happened when
\* none is left never happens, whatever the threads' speeds.
AtRest == ~ENABLED ByItself

-----------------------------------------------------------------------------
(* Properties                                                              *)

FlagNames == {"published", "stopping", "wake", "reactorDone", "waiterDone",
              "closeStarted", "closeDone", "outputClosed", "closedPosted",
              "processExited", "released"}
Events == {"SPAWNED", "SPAWN_FAILED", "OUTPUT_CLOSED", "INPUT_CLOSED",
           "PROCESS_EXIT", "ASYNC_ERROR", "SESSION_CLOSED"}
CallPcs == {"none", "abandon", "lifecycle", "claim", "create", "unretain", "stop", "wake",
            "maybe", "mark", "post"}

\* The steps of the bodies: where every thread may be.
Labels ==
  {"off", "spawn", "setup", "check", "reactor", "waiter", "run", "spawned",
   "failed", "failedOutput", "failedMark", "setupFailed",
   "unstarted", "unstartedFlags", "unstartedRelease", "unstartedAnswer",
   "unstartedMark", "unstartedOutput",
   "noReactor", "noReactorStop", "noReactorRelease", "noReactorFlags",
   "noReactorAnswer", "noReactorOutput", "lateAnswer", "lateOutput",
   "noWaiter", "noWaiterStop", "noWaiterWake", "noWaiterRelease", "noWaiterMark",
   "cancelled", "cancelStop", "cancelWake", "cancelAnswer",
   "top", "poll", "drain", "work", "output", "input",
   "wait", "record", "unregister", "post", "stopping", "stop", "wake", "done",
   "claim", "markClosed", "postClosed", "release", "end", "idle"}

\* A session is never released more often than it was retained, no thread leaves
\* its body, and the isolate receives no event that was not posted.
TypeOK ==
  /\ pc \in [Threads -> Labels]
  /\ call \in [Threads -> CallPcs] /\ abandoning \subseteq Threads
  /\ lifecycle \in {"STARTING", "RUNNING", "CLOSING", "CLOSED"}
  /\ abandoned \in BOOLEAN /\ refCount \in Nat /\ handed \in Nat
  /\ plat \in [FlagNames -> BOOLEAN]
  /\ report \in {"none", "exit", "lost"}
  /\ program \in {"none", "running", "exited", "reaped"}
  /\ supervisor \in {"up", "dead"} /\ stray \in BOOLEAN
  /\ log \in Seq(Events) /\ portOpen \in BOOLEAN
  /\ dart.seen \in 0 .. Len(log)

\* A worker between its creation and its last release.
Live(t) == pc[t] \notin {"off", "end"}

\* Every live worker holds one reference, and so does a begin_close between
\* creating its worker and publishing it.
Held(t) == (IF t \in Workers /\ Live(t) THEN 1 ELSE 0)
           + (IF call[t] = "unretain" THEN 1 ELSE 0)

\* The reference count is the Dart-owned reference, until it is released,
\* plus what the threads hold: no path of a worker, of a failed creation or of
\* a close loses a reference or drops one twice.
RefsAccounted ==
  refCount + handed = 1 + Held("boot") + Held("reactor") + Held("waiter")
                        + Held("closer") + Held("owner")

\* The session is freed only after the last worker is through with it, and
\* Dart's reference is given up once: by the finalizer, by the abandonment a
\* failed post starts, or by close(), whichever come together.
WorkersHoldSession ==
  /\ handed <= 1
  /\ refCount <= 0 => \A t \in Workers : ~Live(t) /\ call[t] = "none"

\* The isolate is told everything at most once, truly and in an order it can rely
\* on -- SESSION_CLOSED last, since the pump closes its port on it -- and the
\* session is freed when it is over: this is a SessionContract.
Count(event) == Cardinality({i \in 1 .. Len(log) : log[i] = event})
Contract == INSTANCE SessionContract WITH
  told      <- [e \in Events |-> Count(e)],
  listening <- portOpen /\ ~abandoned,
  program   <- IF program \in {"exited", "reaped"} THEN "over" ELSE program,
  freed     <- refCount <= 0
ImplementsContract == Contract!Spec

\* No signal goes to a pid that was reaped and may belong to somebody else.
NoStraySignal == ~stray

\* A closed session leaves nothing running and nothing unreaped behind: the
\* program is dead and its supervisor has been told to reap it.
ClosedMeansOver ==
  lifecycle = "CLOSED" => program = "none" \/ (program # "running" /\ plat.released)

\* Pty.spawn answers: with a session or with an error.
SpawnAnswered == AtRest => dart.spawn # "pending" \/ dart.gone

\* close() returns.
CloseReturns == AtRest => (dart.closing => dart.finalizer # "attached" \/ dart.gone)

\* An isolate that goes away takes its session and its program with it.
GoneIsFreed == AtRest => (dart.gone => refCount = 0 /\ program \in {"none", "reaped"})

-----------------------------------------------------------------------------
(* The inductive invariant behind RefsAccounted.                           *)

RefsTypeOK ==
  /\ DOMAIN pc = Threads /\ DOMAIN call = Threads /\ DOMAIN plat = FlagNames
  /\ refCount \in Int /\ handed \in Int

BeforeReactor == {"spawn", "setup", "check", "reactor"}
BeforeWaiter  == BeforeReactor \cup {"waiter"}

\* The bootstrap is the only one to create the reactor and the waiter, once.
StartsOnce ==
  /\ pc["boot"] \in BeforeReactor => pc["reactor"] = "off"
  /\ pc["boot"] \in BeforeWaiter => pc["waiter"] = "off"

\* close_started lets one begin_close at most create the close worker.
ClosesOnce ==
  /\ ~plat.closeStarted => /\ pc["closer"] = "off"
                           /\ \A t \in Threads : call[t] # "create"
  /\ \A t \in Threads : call[t] = "create" => pc["closer"] = "off"
  /\ \A t, u \in Threads : call[t] = "create" /\ call[u] = "create" => t = u

\* RefsAccounted with what makes it hold after every step: a worker that is
\* about to be created does not exist yet.
RefsInv == RefsTypeOK /\ StartsOnce /\ ClosesOnce /\ RefsAccounted
=============================================================================
