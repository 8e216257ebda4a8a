---------------------------- MODULE WindowsSession ----------------------------
(***************************************************************************)
(* One session on Windows: the bootstrap, reader, writer, waiter and close *)
(* threads, the thread that closes the pseudo console, the Dart isolate,   *)
(* and what they share -- the lifecycle, the reference count, the flags    *)
(* under the platform mutex and the ownership state of the console.        *)
(*                                                                         *)
(* A step is one atomic operation, critical section, system call or event  *)
(* post; a neighbour that no other thread can tell from it is joined to    *)
(* it, and so is the non-blocking close that a failed post or the          *)
(* finalizer makes (pty_session_abandon).  A chunk of bytes is a unit of   *)
(* credit and of the write queue.                                          *)
(***************************************************************************)
EXTENDS Integers, Sequences

CONSTANTS
  Faults,       \* what may go wrong, a subset of AllFaults
  MaxEvents,    \* how often at most something rare happens: a system call
                \* fails, the user kills, discards or writes to a full queue
  Window,       \* output credit, in chunks
  Limit         \* capacity of the write queue, in chunks

AllFaults == {"spawn", "memory", "resume",     \* startup fails
              "reader", "writer", "waiter", "closer", "console", \* no such thread
              "read", "write", "wait", "kill", \* a call of the console or process fails
              "release",   \* ReleasePseudoConsole fails, or does not exist
              "block",     \* ClosePseudoConsole waits for its output to be read
              "isolate"}   \* the isolate exits

ASSUME WindowsAssumption ==
  /\ Faults \subseteq AllFaults /\ MaxEvents \in Nat
  /\ Window \in Nat \ {0} /\ Limit \in Nat \ {0}

VARIABLES
  pc,        \* next step of each thread
  events,    \* rare things that have happened so far
  boot,      \* locals of the bootstrap: it reserved the close, it was cancelled,
             \* and the handles and memory it holds
  lifecycle, abandoned, refCount,
  handed,    \* times the Dart-owned reference was released
  flags,     \* flags of PtyWindowsPlatform that are set, and process_exited
  console,   \* pseudo_console_state; "none" before the platform is stored
  closes,    \* calls of ClosePseudoConsole
  program,   \* "none", "suspended", "running" or "dead"
  credit,    \* output_credit; Dart has not acknowledged the rest of the window
  pending,   \* chunks of the write queue, the one being written included
  posted,    \* how often each event was posted
  dart       \* the isolate's side of the session

bootVars    == <<events, boot>>
sessionVars == <<lifecycle, abandoned, refCount, handed>>
hostVars    == <<console, closes, program>>
flowVars    == <<credit, pending>>
dartVars    == <<posted, dart>>
vars == <<pc, bootVars, sessionVars, flags, hostVars, flowVars, dartVars>>

Workers == {"boot", "reader", "writer", "waiter", "closer", "console"}
Threads == Workers \cup {"owner"}
Events == {"SPAWNED", "SPAWN_FAILED", "OUTPUT_CLOSED", "INPUT_CLOSED",
           "PROCESS_EXIT", "ASYNC_ERROR", "SESSION_CLOSED"}

\* pty_windows_create_process, call by call, and what each of them acquires.
Stages == <<"inputPipe", "outputPipe", "pseudoConsole", "createJob", "limitJob",
            "attributes", "setAttributes", "arguments", "createProcess", "assignJob">>
StageAfter == [i \in 1 .. Len(Stages) |-> IF i = Len(Stages) THEN "platform" ELSE Stages[i + 1]]
Acquires(stage) ==
  CASE stage = "inputPipe"     -> {"inputRead", "inputWrite"}
    [] stage = "outputPipe"    -> {"outputRead", "outputWrite"}
    [] stage = "pseudoConsole" -> {"console"}
    [] stage = "createJob"     -> {"job"}
    [] stage = "attributes"    -> {"attributes"}
    [] stage = "arguments"     -> {"strings"}
    [] stage = "createProcess" -> {"process", "thread"}
    [] OTHER                   -> {}

\* What each call that succeeds lets go: the console has its ends of the pipes
\* by then, the program its attributes and arguments.
LetsGo(stage) ==
  CASE stage = "limitJob"  -> {"inputRead", "outputWrite"}
    [] stage = "assignJob" -> {"attributes", "strings"}
    [] OTHER               -> {}

\* Its two ways out; only the one after createProcess knows a process.
\* Faulty variant: there is one for all.
ClosesMost(stage) ==
  {"attributes", "strings", "job", "console", "inputRead", "outputWrite", "inputWrite", "outputRead"}
ClosesAll(stage) ==
  {"attributes", "strings", "job", "console", "inputRead", "outputWrite", "inputWrite", "outputRead"}
  \cup IF stage = "assignJob" THEN {"process", "thread"} ELSE {}

\* What the platform takes over, to be closed by windows_free_session.
PlatformHandles == {"inputWrite", "outputRead", "console", "job", "process"}

\* pty_session_start has retained the session for the bootstrap thread.
Init ==
  /\ pc = [t \in Threads |-> CASE t = "boot"  -> Stages[1]
                               [] t = "owner" -> "idle"
                               [] OTHER       -> "off"]
  /\ events = 0 /\ boot = [reserved |-> FALSE, cancelled |-> FALSE, held |-> {}]
  /\ lifecycle = "STARTING" /\ abandoned = FALSE /\ refCount = 2 /\ handed = 0
  /\ flags = {} /\ console = "none" /\ closes = 0 /\ program = "none"
  /\ credit = Window /\ pending = 0
  /\ posted = [e \in Events |-> 0]
  /\ dart = [portOpen |-> TRUE, fatal |-> FALSE, closing |-> FALSE,
             finalizer |-> "attached"]

-----------------------------------------------------------------------------
(* Steps shared by several threads                                         *)

Go(t, label, next) == pc[t] = label /\ pc' = [pc EXCEPT ![t] = next]
Published == console # "none"
ClosingFrom(state) == IF state \in {"STARTING", "RUNNING"} THEN "CLOSING" ELSE state

\* A critical section that only sets flags.
FlagStep(t, label, set, next) ==
  /\ Go(t, label, next) /\ flags' = flags \cup set
  /\ UNCHANGED <<bootVars, sessionVars, hostVars, flowVars, dartVars>>

\* A lifecycle store or compare-and-swap.
LifeStep(t, label, value, next) ==
  /\ Go(t, label, next) /\ lifecycle' = value
  /\ UNCHANGED <<bootVars, abandoned, refCount, handed, flags, hostVars, flowVars, dartVars>>

\* Something rare happens; a system call fails.
Rarely == events < MaxEvents /\ events' = events + 1
MayFail(fault) == fault \in Faults /\ Rarely

Fails(fault, t, label, next) ==
  /\ MayFail(fault) /\ Go(t, label, next)
  /\ UNCHANGED <<boot, sessionVars, flags, hostVars, flowVars, dartVars>>

\* pty_session_release: the last reference runs windows_free_session, which
\* closes a console nobody closed.  Faulty variant: one that was closed is closed
\* again.
FreedAgain == refCount = 1 /\ Published
FreedOpen == refCount = 1 /\ console \in {"OWNED", "RELEASED"}

Drop ==
  /\ refCount' = refCount - 1
  /\ IF FreedOpen THEN console' = "CLOSED" /\ closes' = closes + 1
                  ELSE UNCHANGED <<console, closes>>

\* windows_stop_process: the program dies, and the reader and the writer are
\* cancelled -- if they are inside ReadFile and WriteFile just now.
Killed == IF program = "none" THEN program ELSE "dead"
Interrupted(pcs) ==
  {pcs, [pcs EXCEPT !["reader"] = IF @ = "read" THEN "failed" ELSE @,
                    !["writer"] = IF @ = "write" THEN "unwritten" ELSE @]}

StopStep(t, label, next) ==
  /\ pc[t] = label /\ pc' \in Interrupted([pc EXCEPT ![t] = next])
  /\ flags' = flags \cup {"stopping"} /\ program' = Killed
  /\ UNCHANGED <<bootVars, sessionVars, console, closes, flowVars, dartVars>>

\* windows_begin_close, past its loop of compare-and-swaps: who may go on.
Claimable == /\ Published /\ lifecycle \in {"RUNNING", "CLOSING"}
             /\ {"closeStarted", "closeDone"} \cap flags = {}

\* pty_session_abandon: mark the session, close without blocking -- a session
\* still starting is left to its bootstrap -- and release Dart's reference.
Abandon(t, set, next) ==
  LET moved == [pc EXCEPT ![t] = next]
  IN /\ pc[t] # next
     /\ abandoned' = TRUE /\ handed' = handed + 1 /\ lifecycle' = ClosingFrom(lifecycle)
     /\ \/ /\ ~Claimable /\ pc' = moved /\ Drop /\ flags' = flags \cup set
           /\ UNCHANGED <<program, events>>
        \/ /\ Claimable /\ pc' = [moved EXCEPT !["closer"] = "stop"]
           /\ flags' = flags \cup set \cup {"closeStarted"}
           /\ UNCHANGED <<refCount, program, console, closes, events>>
        \/ /\ Claimable /\ MayFail("closer") /\ pc' \in Interrupted(moved) /\ Drop
           /\ flags' = flags \cup set \cup {"stopping", "closeStarted", "closeDone"}
           /\ program' = Killed
     /\ UNCHANGED <<boot, flowVars, dartVars>>

\* Only the first pty_session_abandon does anything.
\* Faulty variant: everyone does.
AnyAbandons == ~dart.portOpen
Abandons == ~abandoned /\ ~dart.portOpen

\* post_session_event: nothing once abandoned; a post that fails abandons.
Counted(event) ==
  [e \in Events |-> posted[e] + (IF e = event /\ posted[e] < 2 THEN 1 ELSE 0)]

Post(t, label, event, set, next) ==
  /\ pc[t] = label
  /\ \/ /\ ~Abandons /\ Go(t, label, next) /\ flags' = flags \cup set
        /\ posted' = IF abandoned THEN posted ELSE Counted(event)
        /\ UNCHANGED <<bootVars, sessionVars, hostVars, flowVars, dart>>
     \/ Abandons /\ Abandon(t, set, next)

PostStep(t, label, event, next) == Post(t, label, event, {}, next)

\* windows_mark_output_closed and mark_input_closed: the first caller posts.
MarkStep(t, label, flag, event, next) ==
  IF flag \in flags THEN FlagStep(t, label, {}, next) ELSE Post(t, label, event, {flag}, next)

OutputClosed(t, label, next) == MarkStep(t, label, "outputClosed", "OUTPUT_CLOSED", next)
InputClosed(t, label, next) == MarkStep(t, label, "inputClosed", "INPUT_CLOSED", next)

\* windows_maybe_post_closed.  Faulty variants: the reader is not waited for, the
\* claim is made again.
AllButReader == {"stopping", "writerDone", "waiterDone", "closeDone"}
AllParts == {"stopping", "readerDone", "writerDone", "waiterDone", "closeDone"}
Complete == AllParts \subseteq flags /\ console = "CLOSED"
ClaimsAgain == Complete
Claims == Complete /\ "closedPosted" \notin flags

ClaimClosed(t, label, next) ==
  \/ /\ Claims /\ Go(t, label, "SESSION_CLOSED")
     /\ flags' = flags \cup {"closedPosted"} /\ lifecycle' = "CLOSED"
     /\ UNCHANGED <<bootVars, abandoned, refCount, handed, hostVars, flowVars, dartVars>>
  \/ PostStep(t, "SESSION_CLOSED", "SESSION_CLOSED", next)

\* The last steps of a worker.
Release(t, label) ==
  /\ Go(t, label, "end") /\ Drop
  /\ UNCHANGED <<bootVars, lifecycle, abandoned, handed, flags, program, flowVars, dartVars>>

Ending(t) ==
  \/ ClaimClosed(t, "maybe", "release") \/ Release(t, "release")
  \/ ~Claims /\ Release(t, "maybe")

-----------------------------------------------------------------------------
(* The pseudo console                                                      *)

\* A step that only changes the state of the console.
ConsoleStep(t, label, state, next) ==
  /\ Go(t, label, next) /\ console' = state
  /\ closes' = closes + (IF state = "CLOSED" THEN 1 ELSE 0)
  /\ UNCHANGED <<bootVars, sessionVars, flags, program, flowVars, dartVars>>

\* start_pseudo_console_close_worker waits while the console is being
\* released; the first one here creates the worker or, if that fails, closes
\* the console itself.
Unclaimed == console \notin {"CLOSING", "CLOSED"}

StartClose(t, label, inline, next) ==
  \/ ~Unclaimed /\ console # "RELEASING" /\ FlagStep(t, label, {}, next)
  \/ /\ Unclaimed /\ console # "RELEASING" /\ pc[t] = label
     /\ console' = "CLOSING"
     /\ \/ /\ pc' = [pc EXCEPT ![t] = next, !["console"] = "close"]
           /\ refCount' = refCount + 1 /\ UNCHANGED events
        \/ MayFail("console") /\ Go(t, label, inline) /\ UNCHANGED refCount
     /\ UNCHANGED <<boot, lifecycle, abandoned, handed, flags, closes, program,
                    flowVars, dartVars>>
  \/ ConsoleStep(t, inline, "CLOSED", next)

\* ... and wait_for_pseudo_console_close.
Closes(t, label, inline, waiting, next) ==
  \/ StartClose(t, label, inline, waiting)
  \/ console # "CLOSING" /\ FlagStep(t, waiting, {}, next)

ConsoleWorker ==
  /\ Go("console", "close", "end")
  /\ console' = "CLOSED" /\ closes' = closes + 1 /\ refCount' = refCount - 1
  /\ UNCHANGED <<bootVars, lifecycle, abandoned, handed, flags, program, flowVars, dartVars>>

-----------------------------------------------------------------------------
(* windows_bootstrap                                                       *)

\* A thread is created for which the session has been retained.
StartThread(label, thread, started, next) ==
  /\ pc["boot"] = label /\ pc' = [pc EXCEPT !["boot"] = next, ![thread] = "top"]
  /\ flags' = flags \cup {started} /\ refCount' = refCount + 1
  /\ UNCHANGED <<bootVars, lifecycle, abandoned, handed, hostVars, flowVars, dartVars>>

ProgramStep(label, state, held, next) ==
  /\ Go("boot", label, next) /\ program' = state /\ boot' = [boot EXCEPT !.held = held]
  /\ UNCHANGED <<events, sessionVars, flags, console, closes, flowVars, dartVars>>

\* The program starts suspended, and is killed if the job does not take it.
BootCreates(i) ==
  LET stage == Stages[i]
  IN  \/ ProgramStep(stage, IF stage = "createProcess" THEN "suspended" ELSE program,
                     (boot.held \cup Acquires(stage)) \ LetsGo(stage), StageAfter[i])
      \/ /\ MayFail("spawn") /\ Go("boot", stage, "failed")
         /\ program' = Killed /\ boot' = [boot EXCEPT !.held = @ \ ClosesAll(stage)]
         /\ UNCHANGED <<sessionVars, flags, console, closes, flowVars, dartVars>>

\* No process could be created, or no platform allocated: then it is terminated.
BootFails ==
  \/ Fails("memory", "boot", "platform", "kill")
  \/ ProgramStep("kill", "dead", boot.held \ (PlatformHandles \cup {"thread"}), "failed")
  \/ PostStep("boot", "failed", "SPAWN_FAILED", "failedOutput")
  \/ PostStep("boot", "failedOutput", "OUTPUT_CLOSED", "markClosed")

\* Here every startup ends that had no threads.
BootMarksClosed ==
  \/ LifeStep("boot", "markClosed", "CLOSED", "sessionClosed")
  \/ PostStep("boot", "sessionClosed", "SESSION_CLOSED", "release")

\* The bootstrap stops the program and closes the handle of its thread.
BootStops(label, next) ==
  /\ pc["boot"] = label /\ pc' \in Interrupted([pc EXCEPT !["boot"] = next])
  /\ flags' = flags \cup {"stopping"} /\ program' = Killed
  /\ boot' = [boot EXCEPT !.held = @ \ {"thread"}]
  /\ UNCHANGED <<events, sessionVars, console, closes, flowVars, dartVars>>

\* A close was requested before the platform was stored: finish_unstarted_close
\* stops the program, waits for it, closes the console and posts everything.
BootFinishesUnstarted ==
  \/ BootStops("unstarted", "unstartedClose")
  \/ Closes("boot", "unstartedClose", "unstartedInline", "unstartedWait", "unstartedFlags")
  \/ FlagStep("boot", "unstartedFlags", AllParts \cup {"closedPosted"}, "unstartedAnswer")
  \/ PostStep("boot", "unstartedAnswer", "SPAWN_FAILED", "unstartedOutput")
  \/ OutputClosed("boot", "unstartedOutput", "unstartedInput")
  \/ InputClosed("boot", "unstartedInput", "markClosed")

StartedFlags == {"readerStarted", "writerStarted", "waiterStarted"}

BootStarts ==
  \/ /\ Go("boot", "platform", "check") /\ console' = "OWNED"
     /\ boot' = [boot EXCEPT !.held = @ \ PlatformHandles]
     /\ UNCHANGED <<events, sessionVars, flags, closes, program, flowVars, dartVars>>
  \/ FlagStep("boot", "check", {}, IF lifecycle = "CLOSING" THEN "unstarted" ELSE "reader")
  \/ StartThread("reader", "reader", "readerStarted", "writer")
  \/ Fails("reader", "boot", "reader", "writer")
  \/ StartThread("writer", "writer", "writerStarted", "waiter")
  \/ Fails("writer", "boot", "writer", "waiter")
  \/ StartThread("waiter", "waiter", "waiterStarted", "started")
  \/ Fails("waiter", "boot", "waiter", "started")

\* The compare-and-swap from STARTING to RUNNING; then the program may run.
BootRuns ==
  \/ /\ StartedFlags \subseteq flags /\ lifecycle = "STARTING"
     /\ LifeStep("boot", "started", "RUNNING", "resume")
  \/ ProgramStep("resume", IF program = "suspended" THEN "running" ELSE program,
                 boot.held \ {"thread"}, "spawned")
  \/ PostStep("boot", "spawned", "SPAWNED", "release")

\* A thread is missing, the program cannot be resumed, or a close came first:
\* the bootstrap reserves the close unless somebody else has it.
GivesUp(label, cancelled) ==
  /\ Go("boot", label, "stop")
  /\ boot' = [boot EXCEPT !.reserved = "closeStarted" \notin flags, !.cancelled = cancelled]
  /\ flags' = flags \cup {"closeStarted"}
  /\ UNCHANGED <<events, sessionVars, hostVars, flowVars, dartVars>>

BootGivesUp ==
  \/ ~(StartedFlags \subseteq flags) /\ GivesUp("started", FALSE)
  \/ StartedFlags \subseteq flags /\ lifecycle # "STARTING" /\ GivesUp("started", TRUE)
  \/ Fails("resume", "boot", "resume", "unresumed")
  \/ GivesUp("unresumed", FALSE)

\* finish_worker_startup_failure and the cancelled startup: join the threads
\* that run, close the console, account for the threads that never ran.
Joined(thread, started) == started \in flags => pc[thread] = "end"
AllJoined == /\ Joined("reader", "readerStarted") /\ Joined("writer", "writerStarted")
             /\ Joined("waiter", "waiterStarted")
NeverRan == (IF "readerStarted" \in flags THEN {} ELSE {"readerDone"})
            \cup (IF "writerStarted" \in flags THEN {} ELSE {"writerDone"})
            \cup (IF "waiterStarted" \in flags THEN {} ELSE {"waiterDone"})

BootTearsDown ==
  \/ BootStops("stop", "join")
  \/ AllJoined /\ FlagStep("boot", "join", {}, "close")
  \/ Closes("boot", "close", "inline", "wait", "account")
  \/ FlagStep("boot", "account",
              NeverRan \cup (IF boot.reserved THEN {"closeDone"} ELSE {}),
              IF boot.cancelled THEN "answer" ELSE "mark")
  \/ LifeStep("boot", "mark", "CLOSING", "answer")
  \/ OutputClosed("boot", "outputClosed", "inputClosed")
  \/ InputClosed("boot", "inputClosed", "maybe")

\* Faulty variant: the failure is not posted.
AnswersNothing == FlagStep("boot", "answer", {}, IF boot.cancelled THEN "maybe" ELSE "outputClosed")
BootAnswers == PostStep("boot", "answer", "SPAWN_FAILED",
                        IF boot.cancelled THEN "maybe" ELSE "outputClosed")

Boot ==
  \/ (\E i \in 1 .. Len(Stages) : BootCreates(i))
  \/ BootFails \/ BootMarksClosed \/ BootFinishesUnstarted \/ BootStarts \/ BootRuns
  \/ BootGivesUp \/ BootTearsDown \/ BootAnswers \/ Ending("boot")

-----------------------------------------------------------------------------
(* windows_reader, windows_writer, windows_waiter, windows_close_worker    *)

\* The reader waits for credit, unless nobody wants the output any more.
ReaderWaits ==
  /\ credit > 0 \/ {"discard", "stopping"} \cap flags # {}
  /\ FlagStep("reader", "top", {}, IF "stopping" \in flags THEN "closing" ELSE "read")

\* ReadFile returns a chunk, at any time or never, and also after the console is
\* closed: the pipe keeps what was written ...
ReaderReads == FlagStep("reader", "read", {}, "charge")

\* ... or the end of the pipe: the console is closed, or released and its
\* program gone.
PipeEnds == console = "CLOSED" \/ (console = "RELEASED" /\ program = "dead")

\* What was read is charged and posted, unless it is to be discarded.
ReaderPosts ==
  \/ "discard" \in flags /\ FlagStep("reader", "charge", {}, "top")
  \/ /\ "discard" \notin flags /\ ~abandoned /\ dart.portOpen
     /\ Go("reader", "charge", "top")
     /\ credit' = IF credit > 0 THEN credit - 1 ELSE 0
     /\ UNCHANGED <<bootVars, sessionVars, flags, hostVars, pending, dartVars>>
  \/ "discard" \notin flags /\ abandoned /\ FlagStep("reader", "charge", {}, "closing")
  \/ "discard" \notin flags /\ Abandons /\ pc["reader"] = "charge" /\ Abandon("reader", {}, "closing")

\* An error is reported only while nobody has ended the session or the program.
Reportable == {"stopping", "terminating", "exited"} \cap flags = {} /\ program # "dead"

ReaderLeaves ==
  \/ PipeEnds /\ FlagStep("reader", "read", {}, "failed")
  \/ ~Reportable /\ FlagStep("reader", "failed", {}, "closing")
  \/ Reportable /\ PostStep("reader", "failed", "ASYNC_ERROR", "closing")
  \/ OutputClosed("reader", "closing", "done")
  \/ FlagStep("reader", "done", {"readerDone"}, "maybe")
  \/ Ending("reader")

Reader == ReaderWaits \/ ReaderPosts \/ ReaderLeaves

\* Chunks the writer has not taken off the queue yet.
Writing == pc["writer"] \in {"writable", "write", "unwritten", "discard", "written", "complete"}
Queued == pending - (IF Writing THEN 1 ELSE 0)

\* The queue is at most half full.
LowWater(count) == count * 2 <= Limit

\* windows_maybe_post_writable: clear the flag of a refused write once the
\* queue has drained, then post.
MaybeWritable(label, count, posting, next) ==
  LET due == "backpressured" \in flags /\ LowWater(count)
  IN /\ Go("writer", label, IF due THEN posting ELSE next)
     /\ flags' = IF due THEN flags \ {"backpressured"} ELSE flags
     /\ pending' = count
     /\ UNCHANGED <<bootVars, sessionVars, hostVars, credit, dartVars>>

WriterTakes ==
  \/ /\ "stopping" \in flags \/ ("exited" \in flags /\ Queued = 0)
     /\ FlagStep("writer", "top", {}, "closing")
  \/ /\ "stopping" \notin flags /\ Queued > 0
     /\ MaybeWritable("top", pending, "writable", "write")
  \/ PostStep("writer", "writable", "WRITABLE", "write")

\* WriteFile accepts the chunk, at any time or never; it fails once the console
\* is gone.
WriterWrites == ~PipeEnds /\ FlagStep("writer", "write", {}, "written")

WriterCompletes ==
  \/ PostStep("writer", "written", "WRITE_COMPLETE", "complete")
  \/ MaybeWritable("complete", pending - 1, "drained", "top")
  \/ PostStep("writer", "drained", "WRITABLE", "top")

\* A failed write closes the input and discards what is queued.
WriterLeaves ==
  \/ PipeEnds /\ FlagStep("writer", "write", {}, "unwritten")
  \/ InputClosed("writer", "unwritten", "discard")
  \/ /\ Go("writer", "discard", "closing")
     /\ pending' = 0 /\ flags' = flags \ {"backpressured"}
     /\ UNCHANGED <<bootVars, sessionVars, hostVars, credit, dartVars>>
  \/ InputClosed("writer", "closing", "done")
  \/ FlagStep("writer", "done", {"writerDone"}, "maybe")
  \/ Ending("writer")

Writer == WriterTakes \/ WriterCompletes \/ WriterLeaves

\* release_pseudo_console_ownership: where ReleasePseudoConsole does not exist
\* or fails the console is closed by a thread of its own.
Releases ==
  \/ console # "OWNED" /\ FlagStep("waiter", "ownership", {}, "done")
  \/ console = "OWNED" /\ ConsoleStep("waiter", "ownership", "RELEASING", "releasing")
  \/ console = "OWNED" /\ Fails("release", "waiter", "ownership", "close")
  \/ ConsoleStep("waiter", "releasing", "RELEASED", "done")
  \/ Fails("release", "waiter", "releasing", "unreleased")
  \/ ConsoleStep("waiter", "unreleased", "OWNED", "close")
  \/ StartClose("waiter", "close", "inline", "done")

\* The exit is recorded and posted, or the failure to read the exit code; a
\* wait that fails counts as an exit.
Waiter ==
  \/ program = "dead" /\ FlagStep("waiter", "top", {"exited"}, "exit")
  \/ PostStep("waiter", "exit", "PROCESS_EXIT", "ownership")
  \/ PostStep("waiter", "unreadable", "ASYNC_ERROR", "ownership")
  \/ Releases
  \/ PostStep("waiter", "waitFailed", "ASYNC_ERROR", "done")
  \/ FlagStep("waiter", "done", {"exited", "waiterDone"}, "maybe")
  \/ Ending("waiter")

Closer ==
  \/ StopStep("closer", "stop", "close")
  \/ Closes("closer", "close", "inline", "wait", "done")
  \/ FlagStep("closer", "done", {"closeDone"}, "maybe")
  \/ Ending("closer")

CallsFail ==
  \/ Fails("read", "reader", "read", "failed")
  \/ Fails("write", "writer", "write", "unwritten")
  \/ Fails("wait", "waiter", "top", "waitFailed") \/ Fails("wait", "waiter", "exit", "unreadable")

\* The program, outside the session.
ProgramExits ==
  /\ program = "running" /\ program' = "dead"
  /\ UNCHANGED <<pc, bootVars, sessionVars, flags, console, closes, flowVars, dartVars>>

-----------------------------------------------------------------------------
(* The Dart isolate                                                        *)

Alive == dart.finalizer = "attached" /\ pc["owner"] = "idle"
ownerFrame == <<bootVars, sessionVars, hostVars>>

DartCalls(next, state) ==
  /\ pc' = [pc EXCEPT !["owner"] = next] /\ dart' = state
  /\ UNCHANGED <<flags, flowVars, posted, ownerFrame>>

\* The first failure makes the session begin a close ...
DartFails ==
  /\ Alive /\ dart.portOpen /\ ~dart.fatal /\ posted["SPAWN_FAILED"] + posted["ASYNC_ERROR"] > 0
  /\ DartCalls("lifecycle", [dart EXCEPT !.fatal = TRUE])

\* ... as close() does: the user's of a spawned session, the driver's of one
\* that failed to spawn.
Close == Alive /\ ~dart.closing /\ DartCalls("lifecycle", [dart EXCEPT !.closing = TRUE])

UserCloses == posted["SPAWNED"] > 0 /\ Close
DriverCloses == dart.fatal /\ Close

\* pty_session_begin_close: a session still starting is left to its bootstrap.
\* The reference taken besides the worker's lasts until the creator is done.
BeginClose ==
  \/ LifeStep("owner", "lifecycle", ClosingFrom(lifecycle),
              IF lifecycle \in {"STARTING", "CLOSED"} THEN "idle" ELSE "claim")
  \/ ~Claimable /\ FlagStep("owner", "claim", {}, "idle")
  \/ Claimable /\ FlagStep("owner", "claim", {"closeStarted"}, "create")
  \/ /\ pc["owner"] = "create"
     /\ pc' = [pc EXCEPT !["owner"] = "unretain", !["closer"] = "stop"]
     /\ refCount' = refCount + 2
     /\ UNCHANGED <<bootVars, lifecycle, abandoned, handed, flags, hostVars, flowVars, dartVars>>
  \/ /\ Go("owner", "unretain", "idle") /\ Drop
     /\ UNCHANGED <<bootVars, lifecycle, abandoned, handed, flags, program, flowVars, dartVars>>

\* Without a worker the caller closes inline, and may block.
ClosesInline ==
  \/ Fails("closer", "owner", "create", "uncreated")
  \/ FlagStep("owner", "uncreated", {"stopping", "closeDone"}, "stop")
  \/ StopStep("owner", "stop", "close")
  \/ Closes("owner", "close", "inline", "wait", "maybe")
  \/ ClaimClosed("owner", "maybe", "idle")
  \/ ~Claims /\ FlagStep("owner", "maybe", {}, "idle")

\* SESSION_CLOSED closes the port; close() then detaches the finalizer and
\* releases the reference.
DartClosed ==
  /\ Alive /\ dart.portOpen /\ posted["SESSION_CLOSED"] > 0
  /\ DartCalls("idle", [dart EXCEPT !.portOpen = FALSE])

CloseFinishes ==
  /\ Alive /\ dart.closing /\ posted["SESSION_CLOSED"] > 0 /\ ~dart.portOpen
  /\ dart' = [dart EXCEPT !.finalizer = "detached"]
  /\ Drop /\ handed' = handed + 1
  /\ UNCHANGED <<pc, bootVars, lifecycle, abandoned, flags, program, flowVars, posted>>

\* pty_session_ack_output, pty_session_discard_output
Acknowledges ==
  /\ Alive /\ credit < Window /\ credit' = credit + 1
  /\ UNCHANGED <<pc, flags, pending, dartVars, ownerFrame>>

Discards ==
  /\ Alive /\ posted["SPAWNED"] > 0 /\ "discard" \notin flags
  /\ Rarely /\ flags' = flags \cup {"discard"} /\ credit' = Window
  /\ UNCHANGED <<pc, boot, sessionVars, hostVars, pending, dartVars>>

\* What pty_session_resize, kill and try_write ask under the mutex.
Usable == Alive /\ posted["SPAWNED"] > 0 /\ "stopping" \notin flags /\ lifecycle = "RUNNING"

\* pty_write_queue_try_enqueue
Fits == pending < Limit

TryWrites ==
  /\ Usable /\ "inputClosed" \notin flags
  /\ \/ Fits /\ pending' = pending + 1 /\ UNCHANGED <<flags, events>>
     \/ ~Fits /\ Rarely /\ flags' = flags \cup {"backpressured"} /\ UNCHANGED pending
  /\ UNCHANGED <<pc, boot, sessionVars, hostVars, credit, dartVars>>

\* pty_session_kill: the request is withdrawn if the job cannot be terminated
\* and the program still runs.
Kills ==
  /\ Usable /\ "exited" \notin flags
  /\ \/ Rarely /\ program' = Killed /\ flags' = flags \cup {"terminating"}
     \/ /\ MayFail("kill") /\ UNCHANGED program
        /\ flags' = IF program = "dead" THEN flags \cup {"terminating"} ELSE flags \ {"terminating"}
  /\ UNCHANGED <<pc, boot, sessionVars, console, closes, flowVars, dartVars>>

\* The port and what was posted go away with the isolate, whose finalizer then
\* runs pty_session_abandon.
IsolateExits ==
  /\ "isolate" \in Faults /\ Alive
  /\ pc' = [pc EXCEPT !["owner"] = "finalizer"]
  /\ posted' = [e \in Events |-> 0]
  /\ dart' = [portOpen |-> FALSE, fatal |-> FALSE, closing |-> FALSE, finalizer |-> "ran"]
  /\ UNCHANGED <<flags, flowVars, ownerFrame>>

Finalizes ==
  /\ pc["owner"] = "finalizer"
  /\ \/ Abandons /\ Abandon("owner", {}, "end")
     \/ ~Abandons /\ FlagStep("owner", "finalizer", {}, "end")

Owner ==
  DartFails \/ DriverCloses \/ BeginClose \/ ClosesInline \/ DartClosed \/ CloseFinishes \/ Finalizes

User == UserCloses \/ Acknowledges \/ Discards \/ TryWrites \/ Kills \/ IsolateExits

-----------------------------------------------------------------------------

\* ClosePseudoConsole of older Windows returns only once the console has written
\* what its program printed, for which somebody has to read: where the pipe is
\* full it waits while the reader is anywhere but in ReadFile.  A program that
\* was never resumed has printed nothing.
Printed == pc["boot"] \in {"spawned", "release", "end"}
Waits == "block" \in Faults /\ Printed /\ pc["reader"] # "read"
Flushes == (console = "CLOSING" /\ console' = "CLOSED") => ~Waits

\* Somebody stands in such a call.
CloseBlocks ==
  /\ Waits /\ console = "CLOSING"
  /\ pc["console"] = "close" \/ \E t \in Threads : pc[t] \in {"inline", "unstartedInline"}

\* What goes on without anybody's help: threads run, ReleasePseudoConsole
\* returns, so do the event loop and the finalizers.  A ClosePseudoConsole may
\* return at any time; it does for certain in the steps that are Flushes.
ByItself == Boot \/ Reader \/ Writer \/ Waiter \/ Closer \/ ConsoleWorker \/ Owner

\* The program need not exit, print or read; the user need not do anything.
Next ==
  \/ ByItself \/ ReaderReads \/ WriterWrites \/ CallsFail \/ ProgramExits \/ User

Spec == Init /\ [][Next]_vars

-----------------------------------------------------------------------------
(* Properties                                                              *)

FlagNames == AllParts \cup StartedFlags \cup
  {"closeStarted", "closedPosted", "outputClosed", "inputClosed", "exited",
   "terminating", "discard", "backpressured"}

\* The labels of the bootstrap, of all its workers, and of the isolate.
Labels ==
  {Stages[i] : i \in 1 .. Len(Stages)} \cup
  {"platform", "kill", "failed", "failedOutput", "markClosed", "sessionClosed", "check",
   "reader", "writer", "waiter", "started", "resume", "unresumed", "spawned", "stop", "join",
   "account", "mark", "answer", "outputClosed", "inputClosed", "unstarted", "unstartedClose",
   "unstartedInline", "unstartedWait", "unstartedFlags", "unstartedAnswer",
   "unstartedOutput", "unstartedInput"} \cup
  {"off", "top", "read", "charge", "closing", "writable", "write", "unwritten", "discard",
   "written", "complete", "drained", "exit", "unreadable", "ownership", "releasing",
   "unreleased", "waitFailed", "close", "inline", "wait", "done", "maybe",
   "SESSION_CLOSED", "release", "end"} \cup
  {"idle", "lifecycle", "claim", "create", "unretain", "uncreated", "finalizer"}

TypeOK ==
  /\ pc \in [Threads -> Labels] /\ events \in 0 .. MaxEvents
  /\ boot.reserved \in BOOLEAN /\ boot.cancelled \in BOOLEAN
  /\ boot.held \subseteq UNION {Acquires(Stages[i]) : i \in 1 .. Len(Stages)}
  /\ lifecycle \in {"STARTING", "RUNNING", "CLOSING", "CLOSED"} /\ abandoned \in BOOLEAN
  /\ refCount \in Int /\ handed \in Nat /\ flags \subseteq FlagNames
  /\ console \in {"none", "OWNED", "RELEASING", "RELEASED", "CLOSING", "CLOSED"}
  /\ closes \in Nat /\ program \in {"none", "suspended", "running", "dead"}
  /\ credit \in 0 .. Window /\ pending \in 0 .. Limit
  /\ posted \in [Events -> 0 .. 2]

Live(t) == pc[t] \notin {"off", "end"}

\* The waiter, the close path, their inline fallbacks, the console's own thread
\* and the last release compete for the console: one of them closes it, once.
ClosedOnce == TypeOK /\ closes <= 1 /\ (closes = 1) = (console = "CLOSED")

\* Nothing the bootstrap acquired is lost, at whichever call it fails or is
\* cancelled: when it answers it has given everything back, or to the platform,
\* whose last reference closes the rest.
HandlesGivenBack ==
  /\ pc["boot"] \in {"failed", "spawned", "answer", "unstartedAnswer", "end"} => boot.held = {}
  /\ pc["boot"] = "platform" => boot.held = PlatformHandles \cup {"thread"}

\* Every worker holds a reference of its own until it is through, on every path
\* of a failed creation or startup, so none of them outlives the session,
\* and Dart's own is released once.  (An error during startup makes Dart close
\* a session whose SPAWNED is still to be posted, see README.)
WorkersHoldSession ==
  posted["ASYNC_ERROR"] = 0 =>
    handed <= 1 /\ (refCount <= 0 => \A t \in Workers : ~Live(t))

\* Whoever posts SESSION_CLOSED or releases the last reference leaves nothing
\* behind: the console is closed, the program is dead, no thread is at either.
ClosedMeansOver ==
  posted["SESSION_CLOSED"] > 0 \/ refCount <= 0 =>
    /\ console \in {"none", "CLOSED"} /\ program \in {"none", "dead"}
    /\ pc["reader"] \notin {"top", "read", "charge"} /\ ~Writing

\* The isolate is told everything at most once, truly and in an order it can rely
\* on, SESSION_CLOSED last, and the session is freed when it is over: what a Unix
\* session promises, a Windows session does.
Contract == INSTANCE SessionContract WITH
  told      <- posted,
  listening <- dart.portOpen /\ ~abandoned,
  program   <- CASE program = "none" -> "none"
                 [] program = "dead" -> "over"
                 [] OTHER            -> "running",
  freed     <- refCount <= 0
ImplementsContract == Contract!Spec

\* The console a resize acts on has not been closed.
HandleStable == Usable => console # "CLOSED"

\* The bootstrap joins a reader that blocks in ReadFile, which it entered just
\* after it was to be cancelled, and nobody is left to release the console.
JoinsForever ==
  /\ pc["boot"] = "join" /\ pc["reader"] = "read"
  /\ console = "OWNED" /\ pc["waiter"] \in {"off", "end"}

\* Everything that is certain to go on by itself has: what has not been done now
\* need never be done, whatever the threads' speeds.
AtRest == ~ENABLED (ByItself /\ Flushes)

\* Pty.spawn answers ...
Answered == posted["SPAWNED"] + posted["SPAWN_FAILED"] + posted["ASYNC_ERROR"] > 0
SpawnAnswered == AtRest => Answered \/ dart.finalizer = "ran"

\* ... unless the bootstrap joins for ever.  And unless somebody stands in a
\* ClosePseudoConsole nobody reads for -- the close path stops the reader first,
\* and it does not drain the pipe --, close() returns, and an isolate that exits
\* takes its session, its console and its program with it.
NothingIsStuck ==
  AtRest /\ ~JoinsForever =>
    /\ SpawnAnswered
    /\ ~CloseBlocks => /\ dart.closing => dart.finalizer # "attached"
                       /\ dart.finalizer = "ran" => refCount <= 0
=============================================================================
