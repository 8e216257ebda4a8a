# TLA+ models of flutter_pty2

This directory holds TLA+ specifications of `flutter_pty2`, the TLC
configurations that check them on small instances, and TLAPS proofs. File and
line references are to the repository.

## 1. Inventory of the system

| Part | Source | State it keeps | Operations |
| --- | --- | --- | --- |
| Native session core | `src/common/pty_refcount.c`, `src/pty_internal.h` | `ref_count`, `lifecycle`, `abandoned`, the atomically published `platform` pointer | init, retain, release, mark_abandoned, mark_closing, mark_closed |
| Unix session | `src/unix/pty_unix_session.c` | `PtyUnixPlatform`: descriptors, stop/done/closed flags, wake pipe, write queue | start, bootstrap, reactor, waiter, close worker; try_write, ack_output, resize, kill, send_signal, discard_output, begin_close, abandon |
| Unix spawn and supervisor | `src/unix/pty_unix_spawn.c` | launcher -> supervisor -> program, status, exit and release pipes | spawn, supervise_program, read_exit, release_process |
| Native write queue | `src/common/pty_write_queue.c` | chunk list, `queued_bytes`, `inflight_bytes`, limit | try_enqueue, dequeue, requeue_front, complete_chunk, dispose |
| Windows session | `src/windows/pty_windows_session.c` | `PtyWindowsPlatform`, pseudo console ownership state, condition variable | bootstrap, reader, writer, waiter, close worker, pseudo console close worker, API |
| Windows spawn | `src/windows/pty_windows_spawn.c`, `..._commandline.c`, `..._environment.c` | handles under construction | create_process, quoting, environment block |
| Native events | `src/common/pty_event.c` | none | one post function per event |
| Diagnostics and errors | `src/common/pty_debug_stats.c`, `pty_error.c` | counters | none that the session depends on |
| Dart event pump and codec | `lib/src/internal/native_event_pump.dart`, `native_event.dart` | subscription, handler | attach, handleMessage, close |
| Dart session | `lib/src/internal/ffi_session.dart`, `ffi_driver.dart` | completers, `_closing`, finalizer attachment | spawn, handleNativeEvent, handleProtocolError, close |
| Dart output flow | `lib/src/internal/output_flow_controller.dart` | pending chunks, listener/paused/cancelled flags | addNativeOutput, listen, pause, resume, cancel, closeAndDiscard |
| Dart input flow | `lib/src/internal/input_flow_controller.dart` | admissions, waiting, in-flight, owned bytes | write, tryWrite, flush, handleWritable, handleWriteComplete, closeWithError |
| Options, environment, sizes, bindings, build hook | `lib/src/pty_*.dart`, `lib/src/generated`, `hook` | none (values) | validation, encoding |

Paths beginning with `src/` are the native C sources (`src/src/...` in the
repository snapshot), paths beginning with `lib/` the Dart sources.

### How the parts interact

A session is owned by one Dart isolate and served by native threads:

```
 Dart isolate --- FFI calls ------------------> session, platform mutex
   ^  (try_write, ack_output, discard_output,      |         ^
   |   begin_close, kill, abandon)                 | wake    | flags
   |                                               v pipe    |
   +--- event port <--- reactor  <--- poll(): terminal master, wake pipe
   +--- event port <--- waiter   <--- exit pipe of the supervisor
   +--- event port <--- bootstrap (spawns, then starts the other two)
                        close worker (stops the program, wakes the reactor)
                                            |
                         supervisor --- program on the terminal's slave
```

- **Calls.** Every call of the isolate changes fields under the platform mutex
  or one atomic of `PtySession`, and ends with a byte in the wake pipe when the
  reactor has to look again (`wake_reactor`, outside the mutex).
- **Events.** The threads post to the isolate's port. A post that fails (the
  port is closed) abandons the session from inside the posting thread:
  `pty_session_abandon` begins a close and releases the reference Dart owns.
- **Shared state.** The atomics `ref_count`, `lifecycle`, `abandoned`,
  `process_exited` and `platform`; everything else under the mutex.
- **The end.** Whichever of reactor, waiter and close worker (or the failing
  bootstrap) finishes last posts `SESSION_CLOSED`; the pump closes its port on
  it, `close()` resumes, detaches the finalizer and releases Dart's reference.

### What is hard, and the properties that answer it

| Part | Hard behaviour | What makes it correct |
| --- | --- | --- |
| Reactor and output | capacity, read, charge and post are separate moments; wakes are drained at one point and their causes read at others; the end of the stream has to be told from an empty terminal | no byte or credit lost or invented (`CreditConserved`), the end only after everything (`EndMeansDrained`), hangup only after exit (`HangupAfterExit`), it is a windowed stream (`ImplementsStream`), no lost wake (`StopEndsReactor`, `BacklogDrains`), the stream ends (`ExitEndsOutput`) |
| Session life, Unix | five threads compete to start, close, abandon and finish; each startup step can fail; a failed post calls back into the close path | references balance (`RefsAccounted`), nobody uses a freed session (`WorkersHoldSession`), the isolate is told everything once, truly and in order (`ImplementsContract`), spawn and close answer (`SpawnAnswered`, `CloseReturns`), nothing leaks (`GoneIsFreed`) |
| Program and supervisor | pids are reserved by a process that can die | `NoStraySignal`, `ClosedMeansOver` |
| Write queue and input flow | partial writes, backpressure flagged and cleared by different threads, admissions waiting for space that a completion frees | bytes add up and stay in order (`BytesAddUp`, `InOrder`), completions tell the truth (`DoneMeansWritten`), the owner is kept (`PendingKeepsOwner`), no flag is lost (`BackpressureRemembered`), every write settles (`WritesSettle`) |
| Spawn protocol | four processes, three pipes; every call may fail and every process die between two steps | true verdict and exit report (`VerdictTrue`, `ExitReportTrue`), nothing held or left (`NothingLeaks`, `NothingRemains`), nobody waits for ever (`SpawnReturns`, `ExitArrives`) |
| Session life, Windows | the pseudo console is closed by one of six threads, in a call that may wait for the reader; startup joins threads that may block | `ClosedOnce`, `ClosedMeansOver`, `HandlesGivenBack`, `WorkersHoldSession`, `NothingIsStuck`, `ImplementsContract`; the handle a resize uses (`HandleStable`) |
| Dart session and output | `done` joins exit, output end and delivery in any order, with pause, cancel, close and malformed messages; acknowledgements must not outlive the release | `NothingLost`, `EveryChunkAcked`, `DoneMeansOver`, `NoStrayCall`, `CloseAnswersAll`, `DoneArrives`, `DoneMeansDelivered` |

`PROJECT.json` lists each hazard at its line with the properties that cover it.

## 2. Modules

| Module | What it models |
| --- | --- |
| `OutputStream` | abstract: what the output half promises, a windowed byte stream with an end |
| `UnixReactor` | detailed: poll loop, `read_output`, flush, hangup and exit drain, against waiter, close worker, terminal, programs and the isolate; refines `OutputStream` |
| `MCUnixReactor` | the sets of misfortunes its runs allow |
| `UnixReactorProofs` | inductive invariant and refinement, proved |
| `SessionContract` | abstract: what a session tells its isolate, when, and of what program; when its memory may go |
| `UnixSession` | bootstrap with all failure paths, waiter, close worker, `begin_close`, `abandon`, reference count, lifecycle, event port, isolate and finalizer, supervisor as a contract; refines `SessionContract` |
| `MCUnixSession` | the sets of faults its runs allow |
| `UnixSessionProofs` | the reference count balances, proved |
| `UnixSessionSafetyProofs` | `ClosedMeansOver` and `NoStraySignal`, proved over tables of what a step of each thread does |
| `UnixSessionContractProofs` | the session implements `SessionContract`, its workers hold it and its types are kept, proved over the same tables |
| `WindowsSession` | process creation, bootstrap, reader, writer, waiter, close worker, the pseudo console's ownership and its own close thread, the isolate; refines `SessionContract` |
| `WindowsSessionProofs` | the pseudo console is closed once, no handle is lost, a closed session leaves nothing behind, its workers hold it, and it implements `SessionContract`, proved |
| `UnixSpawn` | `pty_unix_spawn` with launcher, supervisor, program and their pipes |
| `UnixSpawnProofs` | nothing leaks, verdict and exit report are true, proved |
| `InputFlow` | the Dart input controller, `try_write`, the write queue, its flush by the reactor and the completions |
| `InputFlowProofs` | the bytes add up, stay in order and are written when a future says so, proved |
| `DartSession` | the Dart session state, event pump and output controller against native events |
| `DartSessionProofs` | nothing is lost, every chunk is acknowledged once, done means over, proved |

`UnixReactor`, `UnixSession` and `InputFlow` are three views of the same code in
`pty_unix_session.c`: the bytes of the output, the life of the session and the
bytes of the input. Each treats what the others detail as a choice (the reactor
of `UnixSession` may leave its loop when `UnixReactor`'s may; the reactor of
`InputFlow` may be entered whenever the terminal takes input).

### OutputStream

Bytes are positions: `delivered` and `acked` are prefixes of `printed`.
`Deliver` may hand over any number of bytes that fit the window, `Close`
announces the end once, and only if the stream was `cut` or everything was
delivered and no writer is left. It models no code; it states what
`UnixReactor` has to implement.

### SessionContract

`told` counts what the isolate was told. `Tell(e)` allows every event but
`ASYNC_ERROR` once, spawned and failed exclude each other, and the rest is what
an event says of the program: a failed spawn and a closed session leave none
running, `PROCESS_EXIT` is told of one that is over. Nothing follows
`SESSION_CLOSED` but an answer to a spawn that an error already ended (section
4). `Free` needs a closed or given-up session without a running program. Both
session modules implement it under the refinement mapping at the end of each
(`Contract == INSTANCE SessionContract WITH ...`).

### UnixReactor and `src/unix/pty_unix_session.c`

The module starts where `bootstrap_worker` has created reactor and waiter. One
action is one critical section, one system call or one post.

| Actions | Code |
| --- | --- |
| `Top`, `Poll`, `PollFails`, `DrainWakePipe`, `CheckStopping`, `CheckExit` | the head of a turn of `reactor_worker`: snapshot of `stopping`, `credit`, `discard`, queue under the mutex; `poll()`; draining the wake pipe; `stopping_after_wake`; the exit drain, decided on the snapshot (`"IN" \in events`) |
| `SkipFlush`, `Flush`, `FlushFails` | `pty_unix_flush_write_queue`; its `write` may fail on a hung up terminal, or at any time under the misfortune `io` |
| `In`, `Hup`, `NoHup` | `POLLIN` and `POLLHUP` handling, `mark_input_closed`, `close_slave` |
| `ReadStart`, `ReadData`, `ReadNothing`, ..., the charge, the post and its failure | `read_output`: capacity under the mutex, `read()`, charge under the mutex, post; `rpc = "return"` is the caller looking at the result |
| `doneOutput` ... `doneExit` steps | the code after the loop: `OUTPUT_CLOSED`, `INPUT_CLOSED`, `reactor_done` |
| `Waiter`, `Closer` | `waiter_worker` (record, wake, post) and `close_worker` (stop, kill, wake) |
| `Ack`, `DiscardOutput`, `TryWrite`, `OwnerWakesReactor` | the API calls, each followed by its own wake |
| `Pause`, `Resume`, `Cancel`, `OwnerCloses`, `PortCloses`, `FinalizerAbandons` | the Dart output controller and owner, as the native side sees them |
| `ProgramPrints`, `ProgramExits`, `DescendantExits`, `ProgramReadsInput`, `Ready` | external: kernel terminal and programs |

Abstractions: bytes are counted, not stored (content never matters to the code);
the write queue is a number of chunks, a flush takes any number of them and posts
once; the wake pipe is a flag (markers are drained together); the check of the
abandoned flag and the post that follows it are one step; `begin_close` and
`abandon` are one step here because `UnixSession` takes them apart.

### UnixSession and `src/unix/pty_unix_session.c`, `src/common/pty_refcount.c`, `lib/src/internal/ffi_session.dart`

`pc[t]` is the next step of a thread's own body, `call[t]` the next step inside
`pty_session_abandon` and `pty_session_begin_close`, which any thread may be
executing (threads enter them from a failed post). `abandoning` remembers that a
begin_close was entered through an abandonment, whose last step is a release.

| Actions | Code |
| --- | --- |
| `Boot...` | `bootstrap_worker`: spawn, platform setup, publication, the check for a close during startup, `finish_unstarted_close`, thread creation and its failures, the compare-and-swap to `RUNNING`, `SPAWNED`, and every clean-up path |
| `Reactor`, `ReactorSeesTerminal`, `ReactorLeaves` | `reactor_worker` seen from outside: it runs until stopped, until the terminal ends, its I/O fails or, on a session whose port is closed or which is abandoned, a post fails; then `OUTPUT_CLOSED`, `INPUT_CLOSED`, `reactor_done` |
| `Waiter` | `waiter_worker`: reads the exit report, stops the program if the supervisor died, records the exit, wakes, releases the process, posts, marks itself done |
| `Closer` | `close_worker` |
| `Ending(t)` | `maybe_post_session_closed` and the final `pty_session_release` of each worker |
| `BeginClose(t)` | `pty_session_mark_abandoned`, the lifecycle loop, the claim of `close_started`, the two retains, the worker's creation or the inline close |
| `DartReceives`, `UserCloses`, `DriverCloses`, `CloseFinishes`, `UserKills`, `UserKillWakes` | event pump, `FfiPtySession.close`, the driver's clean-up of a failed spawn, `kill` |
| `IsolateExits`, `FinalizerAtExit`, `WrapperCollected` | the port goes, and the `NativeFinalizer` calls `pty_session_abandon` |
| `ProgramExits`, `SupervisorDies`, `Reap` | external: the contract of `pty_unix_spawn.c`'s supervisor |

Abstractions: spawning is one step that succeeds or fails; the lifecycle's
compare-and-swap loop is one step (a failed swap changes nothing and retries);
post check and post are one step; which bytes flow is left to `UnixReactor`;
`resize`, `pid` and `has_foreground_process` change nothing the session depends
on. Two assumptions of the model are worth knowing: the isolate's own FFI calls
do not overlap (one thread runs an isolate at a time), and a finalizer runs
only when no call of its isolate is in progress.

### WindowsSession and `src/windows/pty_windows_session.c`, `pty_windows_spawn.c`

`pc[t]` is the next step of a thread, `console` the ownership word
`pseudo_console_state`, `flags` the flags of the platform that are set.

| Actions | Code |
| --- | --- |
| `BootCreates` | `pty_windows_create_process`, one call per stage of `Stages`, with its two ways out (`failure`, `process_failure`); `boot.held` are the handles and memory it holds |
| `BootFails`, `BootMarksClosed` | no process or no platform: the answers of `windows_bootstrap` without one |
| `BootStarts`, `BootRuns` | platform stored, the check for a close, three threads, the compare-and-swap to `RUNNING`, `ResumeThread`, `SPAWNED` |
| `BootFinishesUnstarted` | `windows_finish_unstarted_close` |
| `BootGivesUp`, `BootTearsDown`, `BootAnswers` | `windows_finish_worker_startup_failure` and the cancelled startup: reserve the close, stop, join, close the console, account, answer |
| `ReaderWaits`, `ReaderReads`, `ReaderPosts`, `ReaderLeaves` | `windows_reader`: credit under the condition variable, `ReadFile`, charge and post, errors worth reporting |
| `WriterTakes`, `WriterWrites`, `WriterCompletes`, `WriterLeaves` | `windows_writer`, with `maybe_post_writable` and the discarding of what is queued |
| `Waiter`, `Releases` | `windows_waiter` and `release_pseudo_console_ownership` |
| `Closer`, `StartClose`, `Closes`, `ConsoleWorker` | the close worker, and the ways to the one `ClosePseudoConsole` |
| `Abandon`, `BeginClose`, `ClosesInline` | `pty_session_abandon` (one step: it does not block), `windows_begin_close`, and its blocking fallback |
| `Drop` | `pty_session_release`; the last one runs `windows_free_session`, which closes an open console |
| `TryWrites`, `Acknowledges`, `Discards`, `Kills` | the API; `Usable` is the guard that `resize`, `kill` and `try_write` share |
| `DartFails`, `UserCloses`, `DriverCloses`, `DartClosed`, `CloseFinishes`, `IsolateExits`, `Finalizes` | the isolate, as in `UnixSession` |

`CancelSynchronousIo` reaches a thread only if it is inside `ReadFile` or
`WriteFile` at that moment; both outcomes are possible (`Interrupted`). A chunk is
a unit of the window and of the queue; what is in the console's pipe is not
counted. Under the fault `block` (older Windows) `ClosePseudoConsole` waits until
its output was read: the call may return at any time, but it is certain to
(`Flushes`) only while the reader is in `ReadFile`, or when the program never ran
and printed nothing. `CloseBlocks` is a thread inside a call that need not return.

### UnixSpawn and `src/unix/pty_unix_spawn.c`

`host` is the stage of the calling thread, `pc[p]` of a process of the chain,
`held[p]` the descriptors and buffers a process holds; a fork copies them. An
end of file is nobody holding the other end.

| Actions | Code |
| --- | --- |
| `Resolve` | `resolve_executable`: one turn over an entry of `PATH`; `EACCES` is remembered |
| `SetupSucceeds`, `SetupFails` | terminal, pipes, `move_fd_above`, signal mask, each stage acquiring (`Acquires`) and, on failure, giving back (`Closes`) what the code at that place does |
| `Fork`, `HostCloses`, `WaitLauncher`, `ReadStatus`, `Reported`, `Unreadable`, `GiveUp`, `ReadPid`, `Configure` | the parent after the fork, with every failure |
| `ReadExit`, `Release` | `pty_unix_read_exit` and `pty_unix_release_process` as the session's waiter calls them |
| `ResetSignals`, `LauncherCloses`, `ForkSupervisor` | the launcher |
| `SupervisorSetsid`, `ForkProgram`, `SupervisorDetaches`, `SendPid`, `WaitProgram`, `SendReport`, `Reap` | the supervisor (`supervise_program`) |
| `ProgramSetup`, `Reports` | the program up to `execve`, and `child_report_error` of any of the chain |
| `HostDies`, `Killed`, `Hangup`, `ProgramExits`, `RuntimeReapsLauncher` | external: deaths, the kernel's hangup (`SIGHUP`, which a program may obey at any time or never), a runtime that reaps every child |

### InputFlow and `input_flow_controller.dart`, `pty_write_queue.c`, `pty_unix_session.c`

A chunk is a range of the bytes of a submission. A Dart handler runs in one step
to its next native call, a native call is one or two steps (a refused one flags
the backpressure while it holds the mutex), the reactor's flush is one step per
operation of the queue and per system call.

| Actions | Code |
| --- | --- |
| `Write`, `TryWrite`, `PumpStops`, `PumpCalls`, `TryCalls`, `BackpressureFlagged` | `write`, `tryWrite`, `_pumpAdmissions`, `_pump` with `pty_session_try_write` |
| `HandleWritable`, `HandleWriteComplete`, `HandleClosed`, `Close` | the handlers of the events, `closeWithError` |
| `Flush`, `Dequeue`, `WriteBytes`, `WriteBlocks`, `WriteFails`, `PostComplete`, `CompleteChunk`, `MaybePostWritable`, `PostWritable` | `pty_unix_flush_write_queue`, the queue's operations, `maybe_post_writable` |
| `HangsUp`, `InputFails`, `Discard`, `ReactorEnds` | `mark_input_closed` and `discard_pending_writes` |
| `ProgramReads` | external: the program reads its input |

`pty_write_queue_requeue_front` refuses only a chunk whose rest is more than the
bytes its dequeue counted as in flight. The flush requeues what it has just
dequeued, minus what was written, so the branch for a refusal
(`pty_unix_session.c:291-301`) is unreachable and has no action.

### DartSession and `ffi_session.dart`, `output_flow_controller.dart`, `native_event_pump.dart`

A handler, which never awaits, is an operator from state to state; what a
listener does inside the callback is chosen by the action. The synchronous
`StreamController` is external: chunks added while the listener is being set up
or resumed go to the subscription's buffer and come out one microtask each;
otherwise the listener hears them at once.

| Actions | Code |
| --- | --- |
| `Listen`, `Pause`, `Resume`, `Cancel`, `Deliver` | the listener and the subscription; `_handleListen`, `_handlePause`, `_handleResume`, `_handleCancel`, `_drain` |
| `HandleMessage` | `_handleMessage` of the pump with `handleNativeEvent` or `handleProtocolError` |
| `Close`, `CloseFinishes` | `_close` before and after it awaits `SESSION_CLOSED`; `closeAndDiscard` |
| `TellDone` | whoever awaits `done` is resumed |
| `Boots` | the bootstrap's answer, at any moment: reactor, reader and waiter run before it is posted, and go on after a failure |
| `Prints`, `Errs`, `ClosesOutput` | the thread that reads: chunks, an error at most, and then the end of the output, which after a failed startup the bootstrap may post |
| `Exits`, `Loses` | the waiter: the exit, or an error instead of it |
| `ClosesSession` | the last of them: when all are done and the session was closed, or unasked after a failed startup |

Every one of these messages may arrive malformed. The order between the threads
is left open, before the answer to spawn and after it; all that is assumed is each
thread's own order, that an event is posted once, and that `SESSION_CLOSED` is the
last, which `SessionContract` states and the two session modules check.

## 3. Runs

| Run | Checks | Shows |
| --- | --- | --- |
| `ReactorSafety` | `TypeOK` `CreditConserved` `EndMeansDrained` `HangupAfterExit` `ImplementsStream` | with I/O errors, a port that closes, a close, a cancel, a pause and a lingering descendant, no byte is lost, the window is exact, the end is announced after everything |
| `ReactorLive` | `StopEndsReactor` `BacklogDrains` | no wake is lost, with a window the program exhausts, a close, and a descendant whose exit hangs up a terminal that still holds a backlog |
| `ReactorExitStuck` | `ExitEndsOutput` | violated: finding 1 |
| `SessionSafety` | `TypeOK` `WorkersHoldSession` `NoStraySignal` `ClosedMeansOver` `GoneIsFreed` `SpawnAnswered` `CloseReturns` `ImplementsContract` | spawn, setup, reactor and close-thread failures, isolate exit, collected wrapper, kill, in any order |
| `SessionRefs` | `RefsAccounted` | the count balances also under the faults that break other promises (terminal I/O, supervisor, waiter) |
| `InputSafety` | `BytesAddUp` `InOrder` `DoneMeansWritten` `PendingKeepsOwner` `BackpressureRemembered` `WritesSettle` | three submissions, with partial writes, refusals, a failing terminal or allocation and a close |
| `InputStuck` | `WritesSettle` | violated: finding 2 |
| `UnixSpawn` | `NothingLeaks` `VerdictTrue` `ExitReportTrue` `SpawnReturns` `NothingRemains` `ExitArrives` | every failing call and every death, at every step; a program need not obey the hangup |
| `WindowsSession` | `ClosedOnce` `HandlesGivenBack` `WorkersHoldSession` `ClosedMeansOver` `NothingIsStuck` `ImplementsContract` | one failing call, missing thread, kill or discard, consoles that wait for their reader, with a close, an exit of the isolate and of the program at any moment |
| `WindowsResize` | `HandleStable` | violated: finding 3 |
| `DartSession` | `NothingLost` `EveryChunkAcked` `DoneMeansOver` `NoStrayCall` `CloseAnswersAll` `DoneArrives` | any listener and close, the threads' events in any order between them, a startup that fails early or late, a lost exit, two messages malformed |
| `DartDoneEarly` | `DoneMeansDelivered` | violated: finding 4 |

`NothingLeaks`, `BytesAddUp`, `EveryChunkAcked` and `ClosedOnce` contain the type
invariant of their module. `BytesAddUp` compares the counters of both sides with the
numbers of bytes they stand for, as sets of positions. Together the passing runs take every disjunct of the
next-state relations.

**Faults.** The constants `Mayhem`, `Faults` and `Failures` select what may go
wrong. `SessionSafety` leaves out `io`, `supervisor` and `waiter`, under which
promises do not hold (section 4); `SessionRefs` has exactly those three.

**Bounds.** `UnixReactor`: `Window = 2`, `Buffer = 2`, `PtyCap = 2`,
`MaxPrinted = 3` let a chunk be smaller than, equal to and split by the window,
let the window be exhausted with a byte left, and let the terminal fill while the
reactor is elsewhere; the proofs cover all values. The liveness run needs the
window exhausted (`Window = 1`, `MaxPrinted = 2`); its misfortunes are a close and
a descendant that keeps the terminal open after the exit, so that the terminal
hangs up while bytes wait in it for credit, has left `poll()` and must come back
(`pty_unix_session.c:404`). `MaxPrinted` bounds the bytes
printed in one behaviour, `MaxWrites` the chunks queued at a time. `UnixSession`
has no bound: its state is finite. `InputFlow`: a window of 3 with chunks of 2
and a terminal of 1 makes a write of 4 need three chunks, partial writes,
refusals and a requeue, and three submissions let a write wait behind another
and a tryWrite fail for each of its reasons; a tryWrite of 2 never fills the
window, which is what finding 2 needs (`InputStuck`: window and tryWrite of 2).
`UnixSpawn`: `MaxPath = 3` lets a denied entry come before and after a missing
one; everything else is finite. `WindowsSession`: `MaxEvents = 1` is the number of
rare things in one behaviour (a failing call or thread, a kill, a discard, a
refused write); window and queue of one chunk are the smallest that can be
exhausted, and a second chunk adds states but no new branch. `DartSession`:
`Window = 2` and `MaxOutput = 3` let two chunks be pending and a third follow an
acknowledgement; `MaxGarbled = 2` is a first and a later protocol error. Deadlock
checking is off in every run because all these systems really stop: a closed
session, a program that neither prints nor exits.

**Fairness.** Weak fairness for each native thread and process: the operating
system schedules it, and every step is a call that returns (a blocked `poll()`,
pipe read or `waitpid` is a disabled action, so nothing forces it). Weak fairness
for the second half of an API call, for the event pump and its microtasks, and
for the finalizer of a gone isolate, which the Dart VM guarantees. In
`UnixReactor` strong fairness for `Ack` and `DiscardOutput`, which every API call
in progress disables for a moment: the event loop gets to a delivered chunk
eventually. Nothing is assumed of programs, of the user, or of garbage
collection: a program need not read, print, exit or obey a hangup. Where a promise
holds only of one that does, the property says so itself: `NothingRemains` has the
fairness of `Hangup` as the premise of its first part, and its second part, without
it, names all that may remain: a program that a dead host, or a killed supervisor,
left running, and the supervisor that waits for it.
In `DartSession` the event loop goes on, the driver closes a spawn that failed, the
bootstrap answers, and a session that was told to close ends its program and its
output and then itself; a paused consumer owes no acknowledgement, so `BacklogDrains` is
checked without pauses, and `DoneArrives` assumes a listener that does not pause
for ever.

**Quiescence.** `UnixSession` and `WindowsSession` state what must happen as
invariants of the states where nothing goes on by itself: `AtRest == ~ENABLED
ByItself`, where `ByItself` are the steps of threads, event loop and finalizers
that need no user, program or failure. These steps cannot be repeated for ever
(each moves a thread forward, and the loops wait for a wake, a chunk or credit
that only others supply), so what has not happened in such a state never
happens, and what is true in all of them always happens in the end, under weak
fairness of `ByItself` alone. In `WindowsSession` a `ClosePseudoConsole` that waits
for its reader is not among the steps that go on by themselves:
`AtRest == ~ENABLED (ByItself /\ Flushes)`. `NothingIsStuck` excepts two states by
name, a bootstrap that joins a reader nobody can wake (`JoinsForever`) and, for the
return of `close()` and the freeing of a given-up session, a thread that stands in
such a call (`CloseBlocks`). Both are hangs of the code (section 4); without the
exceptions TLC finds them, and with them it shows that there is no third.

## 4. Findings

1. **A stream that never ends** (`ReactorExitStuck`,
   `pty_unix_session.c:427`). The exit drain is decided on the credit read
   before `poll()`. A turn that begins with the window exhausted and is woken by
   the last acknowledgement and by the exit together drains both markers and
   skips the exit drain. The rest is read through `POLLIN`, but the session's own
   slave descriptor stays open, so no hangup ever comes: `OUTPUT_CLOSED` is never
   posted and `done` never completes.
2. **A write that never settles** (`InputStuck`,
   `input_flow_controller.dart:134`). A `write` made while a `tryWrite` fills the
   window is kept back; the completion of the tryWrite frees the window but does
   not retry the waiting admissions, and nothing else does until another `write`.
3. **A resize on a closed console** (`WindowsResize`,
   `pty_windows_session.c:1166`). Without `ReleasePseudoConsole` the exit of the
   program closes the console while the session runs on; `resize` looks at
   `stopping` and the lifecycle only, and then uses the handle.
4. **`done` before the last output** (`DartDoneEarly`,
   `output_flow_controller.dart:114`). What a late listener or a resume is handed
   waits in the subscription's buffer, already acknowledged and counted as
   delivered; `done` can complete first.

Each follows a rare interleaving; the counterexample of the run is the schedule.

The fault sets and the wording of some properties leave out cases in which the
code does less than the properties say. They are known, and rarer still:

- If the Unix waiter thread cannot be created, the bootstrap marks its parts done
  before it posts `SPAWN_FAILED`; the reactor may post `SESSION_CLOSED` first, on
  which the pump closes the port and spawn is not answered (`pty_unix_session.c:844`).
  The environment of `DartSession`, where `SESSION_CLOSED` is the last event, leaves
  this order out as well; in it `spawn()` would wait for ever.
- After a terminal I/O error during startup the isolate closes the session while
  the bootstrap still owes its answer; that answer may find the port closed and
  abandon a session `close()` releases as well (line 870). The Windows session
  does the same, which is why `WorkersHoldSession` of `WindowsSession` speaks of
  behaviours without `ASYNC_ERROR` and `InTime` of `SessionContract` allows the
  late answer. When a thread could not be created besides (two rare events, so not
  under the bound of the run), the bootstrap's `OUTPUT_CLOSED` is late as well.
- When the supervisor died, init may reap the program before the waiter stops it,
  and the signal goes to a pid that is free (line 516).
- A failed post's abandonment gives up Dart's reference without detaching the
  finalizer; if all workers finish before the finalizer runs, it enters a freed
  session (line 1244).
- A Windows startup that fails after its reader was created joins the reader
  without closing the console; a reader that enters `ReadFile` just after it was
  to be cancelled is never woken (`pty_windows_session.c:658`; `JoinsForever`).
- On older Windows `ClosePseudoConsole` waits until the console has
  written what its program printed. The close path stops the reader first, and the
  reader leaves without draining (`pty_windows_session.c:403-412`), while
  `output_read` stays open until the session is freed (line 734). With a full pipe
  the close worker, waiting at line 712, never gets on: no `SESSION_CLOSED`, and
  `close()` does not return. The inline fallback (line 274) hangs its caller the
  same way; the comment at lines 268-270 calls it safe because the caller is not
  the reader, which by then need not be reading (`CloseBlocks`).
- A program that ignores or handles `SIGHUP` outlives a host that died, and its
  supervisor waits for it as long as it runs; a supervisor that finds the host
  dead when it sends the pid exits and leaves it (`RunsOn`).
- When the finalizer of a Windows session drops the last reference, the blocking
  `ClosePseudoConsole` runs on its thread, which the comment at lines 1338-1341
  says it does not.

## 5. Proofs

All proofs hold for every value of the constants that satisfies the assumption
each module names: windows, limits, buffers and the terminal have at least one
byte, lengths and numbers of submissions are natural numbers, and the sets of
faults contain known faults only. So they hold with all faults at once, except
where a theorem assumes that a fault is absent; that is said below, with why the
property is false otherwise. `PROJECT.json` lists the theorems.

Each module has an inductive invariant (`IInv`, `RefsInv`, `SafeInv`, `HInv`), a
lemma that `Init` implies it, lemmas that each action keeps it, a lemma that puts
these together for `[Next]_vars`, and theorems whose last step is temporal.

**UnixReactor.** `CreditConserved`, `EndMeansDrained` and `HangupAfterExit` are
not inductive: the charge of a chunk keeps the window only if the chunk is no
larger than the credit, which was tested two steps earlier; the end is complete
only because of what the last read saw. `IInv` adds

- `ReadOK`: the capacity of a read in progress stays within the credit, because
  only acknowledgements move the credit meanwhile, and only upwards;
- `ChunksOK`: unacknowledged chunks lie between `acked` and `posted`, so an
  acknowledgement never exceeds what was posted;
- `BytesOK`: every byte taken is in hand or posted, unless discarding;
- `HangupOK`: a hangup is stable and implies the recorded exit, because the
  session closes its own slave only after it;
- `EndOK`: the loop is left only with the terminal drained or the stream cut.

`InitIInv`, one lemma per part of the type invariant, `SafetyStep` (one case per
action) and `NextIInv` give `Invariance == Spec => []IInv`; from it follow
`TypeCorrect`, `WindowConserved`, `EndIsComplete`, `HangupFollowsExit`, and, with
`StreamStep` (every step is a step of `OutputStream` or a stutter),
`ReactorImplementsStream`.

**UnixSession: the count.** `ReferencesAreAccounted`: the reference count plus
the number of times Dart's reference was given up is one plus a reference for
each live worker and for each creator of a close worker. A retain for a worker
balances only if that worker did not exist yet, so `RefsInv` adds `StartsOnce`
(the bootstrap alone creates reactor and waiter, once) and `ClosesOnce`
(`close_started` lets one `begin_close` at most create the close worker). The
lemma `Move` shows that a step that only moves threads between labels keeps the
sum; the rest is one lemma per thread. The theorem holds under every set of
faults, including those under which a reference is dropped by the wrong party
(section 4): what goes wrong there is who releases Dart's reference, not the
count.

**UnixSession: the program.** `UnixSessionSafetyProofs` first reads off the
actions, once (`BodySteps`), tables over the labels of the threads: where a step
leads (`Edge`), which flags it raises, what it stores in the lifecycle, where it
stops the program and what it posts. `SafeInv` then says at which labels the
program is certainly dead (`ProgramOK`), who may still touch it (`BootOK`,
`WaiterOK`), that nobody may mark the session closed before the supervisor was
told to reap (`ClosedOK`), and that only a released program is reaped
(`ReapedOK`).

- `ClosedLeavesNothing`: `ClosedMeansOver` without the fault `"waiter"`. When the
  waiter cannot be created the bootstrap marks its parts done while the program
  still has to be released.
- `SignalsHitTheProgram`: `NoStraySignal` without the fault `"supervisor"`. When
  the supervisor dies, init may reap the program before the waiter stops it.

**UnixSession: the contract.** `SessionKeepsContract`: `UnixSession` implements
`SessionContract`, without the fault `"waiter"` (a reactor that finishes first
then posts `SESSION_CLOSED` before the answer to spawn). The contract counts what
a listening isolate was told, so `IInv` ties the log to where the threads are
(`ToldOK`), shows that one thread at most is about to post `SESSION_CLOSED` and
that by then nobody starts a close worker (`ClaimOK`, `UnpublishedOK`,
`WorkersOK`), and that Dart's reference is given up by one finalizer, one release
or one failed post (`HandedOK`). `Inner` is the table for
`pty_session_abandon` and `pty_session_begin_close`, which any thread may be
inside, and `DartStep` the one for the isolate; the lemmas `Maps...` turn each
step into a step of the contract or a stutter.

`WorkersHoldTheSession`: `WorkersHoldSession`, from `RefsAccounted` once Dart's
reference is known to be given up only once. `HInv` adds that an isolate that
heard `SESSION_CLOSED` will hear nothing more (`QuietOK`), so no late post fails
and abandons the session a second time (`KeptOK`). It assumes the faults
`"waiter"`, `"io"` and `"supervisor"` absent: an `ASYNC_ERROR` during startup
makes the isolate close the session while its bootstrap still owes an answer,
which section 4 describes.

`TypeCorrect`: `TypeOK`, under the same assumption. That the reference count is a
natural number is the part that needs one: it follows from `RefsAccounted` and
`WorkersHoldSession`. The rest (`StatesOK`, `SeenOK`) is inductive with `IInv`:
every thread stays at the labels of its body, and the isolate never receives
beyond the end of the log.

**UnixSpawn.** What a process holds is a function of how far it has come
(`HeldOK`), so whether a pipe has an open write end says how far the processes at
that end have come. `ChainOK` says the chain is forked in order and no process of
it lives twice; `ExitsOK` what the exit pipe carries; `StatusOK` that an end of
file on the status pipe without an error proves the program was started;
`EndOK` why a supervisor ends; `FailedOK` that the program of a failed spawn is
dead or will never be. From these follow `LeakFree`, `TrueVerdict` and
`TrueExit`, with and without Android's setup, for every length of `PATH`.

**WindowsSession.** `ClosedOnce` needs to know who may stand at the call of
`ClosePseudoConsole`: `ConsoleOK` relates the label of each of the six threads to
the ownership word, and allows one of them at most to be there. `BootOK` is the
list of what the bootstrap holds at each label, from which `HandlesGivenBack`
follows, and `QueueOK` that a writer with a chunk in its hands finds it counted.
Most steps only move one thread; `Moves` says so much of a step, `MovesKeep` that
it keeps the invariant. `ConsoleClosedOnce` and `NoHandleLost` hold under every set
of faults and every bound on the rare events.

**WindowsSession: the end.** That a closed session leaves nothing behind is decided
by flags, the lifecycle and a counter, each set by another thread than the one that
looks. `SafeInv` says what each of them proves:

- `RefsOK`: the count plus the times Dart's reference was given up is one plus a
  reference for each worker that runs, and one while `close()` creates one;
- `ShutOK`: a session that posted `SESSION_CLOSED`, is `CLOSED`, has no reference left
  or was let go of by the isolate has its console closed, its program dead, its
  reader and its writer through (`Shut`);
- `DeadOK`: at which labels, and in which states of the console, the program is dead;
- `StartOK`: what flags such as `readerDone` say of threads that were never created;
- `CloseOK`: whoever claims the close stops the program next, and a session that was
  abandoned is claimed, over, or about to be noticed by its bootstrap;
- `HostOK`: a console being released or closed has a thread that is at it.

`Goes`, `Along` and `Mild` say of a step which thread it moves, from which label to
which, and what it does besides; one lemma per part (`ShutKeeps`, `DeadKeeps`, ...) shows
that such steps keep `SafeInv`, and one lemma per thread that its actions are such
steps. The few that drop a reference or touch the console have lemmas of their own.
`SafeInvariant` and `ClosedIsOver` hold under every set of faults and every bound on
the rare events.

**WindowsSession: who holds it.** A worker that has not released its reference
finds the session there if Dart's reference is released only once: by `close()`, by
the finalizer, or by a failed post. The last happens when a thread posts to a port
that is closed, so the argument is about the order of the posts. While the isolate
is there and was told of no error (`Calm`), `StartsOK` says that nobody has
abandoned the session and that the isolate leaves it to its bootstrap until that
has answered; `PostsOK` that the port closes only after `SESSION_CLOSED` was posted,
that by then every other poster is through (`Quiet`), and how far its poster is when
each other event has been posted. `DoneOK`, which needs no calm, says who is done
when a flag or a join says so, and that one thread at most posts `SESSION_CLOSED`.
`Step` is what every step of a thread does in these terms: which label it leaves
for which (`Walks`, `Way`), which flags it raises and for what (`Raises`), and
whether it posts (`Tells`) or not (`Hushes`). `WorkersHoldTheSession` follows with
`RefsOK`, under every set of faults and every bound on the rare events.

**WindowsSession: the contract.** `SessionKeepsContract`: a session that posts no
`ASYNC_ERROR` implements `SessionContract`, as the Unix session does. `MayTellNow`
derives from `StartsOK` and `PostsOK` that each post is a first one, true and before
`SESSION_CLOSED`. A step that posts nothing changes the program or the count of
references, and the contract has no step that does both; `pty_session_abandon`
without a close thread does, as it stops the program and drops Dart's reference.
`Watched` shows why these never coincide in the last reference: until somebody
abandons the session, a waiter holds a reference for as long as the program lives,
so whoever is last finds the program dead. The condition on behaviours is needed
(section 4). `ErrorsAreReal` says what it amounts to: the session posts no error
unless a read or a wait fails, not even when the reader is interrupted or the
console is closed under it, so without these two faults it keeps the contract
outright (`SessionKeepsContractOutright`).

**InputFlow.** The argument is about bytes, positions of a submission. Those
below `written` are in the terminal. Those from there to `offset` are each in one
chunk of the reactor's hand or the queue (`CoverOK`, `LineOK`, `HandOK`), and in one
chunk that Dart has in flight (`ReportOK`, `FlyingOK`), until the input fails or is
closed. That the chunk taken off the queue begins where the terminal's bytes end
is what makes a partial write and a requeue harmless, and follows from `CoverOK`: a
byte missing in between would have to be in a later chunk. `OwnedOK`, `QueuedOK`
say that the counters are cardinalities of these sets. On the isolate's side
`ListOK`, `SubsOK` and `PendingOK` say that submissions are handed over one after
the other and that what is pending is listed, in flight or in the call under way.
`FlagOK` is the backpressure: a handler that was refused and has not looked yet
knows that bytes are left or that the reactor is about to announce room.
`CountersAddUp`, `BytesInOrder`, `DoneIsWritten`, `OwnerKeptWhilePending` and
`BackpressureKept` hold under every set of failures.

**DartSession.** The handlers transform a record, so the invariant is stated of
such a record, of the messages in the port and of the number of chunks posted. The
chunks heard, in the subscription's buffer, pending and in the port are the
numbers up to `posted`, in this order (`WholeOK`), as long as the listener has not
cancelled; after that still none is acknowledged twice (`AckOK`). `FlowOK` and
`BufferOK` say that between two handlers nothing is kept back that could flow, which
is why `done` finds nothing left (`DoneOK`, `EndOK`). `NothingIsLost`, `AckedOnce`,
`DoneIsOver` and `NoCallStrays` follow.

**Only model-checked.**

- Liveness (`StopEndsReactor`, `BacklogDrains`, `WritesSettle`, `SpawnReturns`,
  `NothingRemains`, `ExitArrives`, `CloseAnswersAll`, `DoneArrives`): fairness is
  beyond the prover.
- `GoneIsFreed`, `SpawnAnswered`, `CloseReturns` and `NothingIsStuck`: they are
  about states in which nothing is enabled, and `ENABLED` is beyond the prover.
- `ImplementsContract` of `WindowsSession` after an `ASYNC_ERROR`: the run shows it
  under its bound of one rare event; with two it is false (section 4).

## 6. Not modelled

- Windows command line quoting and environment blocks, path strings, option and
  size validation, codecs, error texts: sequential functions from values to
  values. Their failures are stages of the spawn models.
- Debug counters, generated bindings, library lookup, the build hook.
- The encoding of an event into Dart objects; that a message may not parse is in
  `DartSession`.
- `resize`, `pid`, `has_foreground_process` and signals other than `SIGKILL`:
  they change no state of the session. What `resize` acts on is in `HandleStable`.
- Forks of the host other than the library's, and the reuse of pids: a signal is
  stray when its pid was reaped, whether or not it was given away.
- The Dart object graph: which wrapper keeps which state alive. A finalizer runs
  when the model's isolate says the wrapper is gone.
- Native calls of the isolate do not overlap (one thread runs an isolate at a
  time), and the close of the last terminal descriptor is part of the hangup.

## 7. Plan

1. An abstract bounded FIFO of writes that `InputFlow` implements.
2. The contract of `UnixSpawn` towards `UnixSession` (its supervisor and program
   variables) stated as an abstract specification.
3. `pty_windows_commandline.c` as operators, checked against the parsing rules
   of the C runtime over short arguments, with the capacity it computes.
4. Runs stay few, one per question.
