----------------------------- MODULE UnixReactor -----------------------------
(***************************************************************************)
(* The output half of a running Unix session: the reactor thread's poll    *)
(* loop, the waiter and close threads that wake it, the kernel's terminal, *)
(* the programs that print on it, and the Dart isolate that reads the      *)
(* stream, acknowledges chunks, pauses, cancels, writes and closes.        *)
(*                                                                         *)
(* Each action is one critical section, one system call or one event post  *)
(* of one thread; between any two of them every other thread may run.  The *)
(* module starts where bootstrap_worker has created the reactor and the    *)
(* waiter.  Bytes are counted, not stored: what matters is how many were   *)
(* printed, taken from the terminal, posted and acknowledged.              *)
(***************************************************************************)
EXTENDS Naturals

CONSTANTS
  Window,      \* output_window_bytes: the credit the session starts with
  Buffer,      \* PTY_REACTOR_BUFFER_SIZE: the most one read takes
  PtyCap,      \* bytes the kernel's terminal buffer holds
  MaxPrinted,  \* bound: bytes the programs print in one behaviour
  MaxWrites,   \* bound: write chunks queued at a time (input_buffer_bytes)
  Mayhem       \* the environment's misfortunes, a subset of AllMayhem

AllMayhem == {"io", "port", "close", "cancel", "pause", "descendant"}

ASSUME UnixReactorAssumption ==
  /\ Window \in Nat \ {0}
  /\ Buffer \in Nat \ {0}
  /\ PtyCap \in Nat \ {0}
  /\ MaxPrinted \in Nat
  /\ MaxWrites \in Nat
  /\ Mayhem \subseteq AllMayhem

VARIABLES
  (* the kernel's terminal and the processes on it (external) *)
  printed,        \* bytes ever written to the slave side
  taken,          \* bytes ever read from the master side
  program,        \* "running" or "exited"
  descendant,     \* a background descendant holds the slave open
  ttyFull,        \* the program is not reading: no room for more input
  slaveFd,        \* the session's own slave descriptor is open
  (* session state under the platform mutex, and the wake pipe *)
  credit, discard, hungUp, stopping, processExited,
  outputClosed, inputClosed, reactorDone,
  queued,         \* chunks in the write queue
  wake,           \* the wake pipe holds at least one marker
  abandoned,      \* pty_session_mark_abandoned has happened
  ioFailed,       \* an ASYNC_ERROR about the terminal was reported
  (* thread positions *)
  rpc, waiter, closer,
  (* the reactor's locals *)
  events,         \* poll events asked for in this turn
  revents,        \* what poll() reported, the wake pipe as "WAKE"
  result,         \* read_result; "NONE" if this turn has not read
  caller,         \* where read_output was called from
  dropping,       \* read_output's own copy of discard
  amount,         \* capacity of the read, then the size of the chunk
  (* the Dart isolate *)
  portOpen,       \* the event port accepts posts
  consumer,       \* what the output controller does with the stream
  ownerPc,        \* "idle", or "wake": inside a call, about to wake_reactor
  posted,         \* bytes posted in OUTPUT events
  ends,           \* end positions of the posted chunks not yet acknowledged
  acked           \* bytes acknowledged

kernelVars == <<printed, taken, program, descendant, ttyFull, slaveFd>>
flagVars   == <<discard, hungUp, stopping, processExited, outputClosed,
                inputClosed, reactorDone, queued, abandoned, ioFailed>>
dartVars   == <<portOpen, consumer, ownerPc, posted, ends, acked>>
locals     == <<events, revents, result, caller, dropping, amount>>
threadVars == <<rpc, locals, waiter, closer>>
vars == <<kernelVars, credit, flagVars, wake, threadVars, dartVars>>

Results == {"NONE", "CLOSED", "EMPTY", "DATA", "CREDIT_EXHAUSTED"}
ReactorPcs == {"top", "poll", "drain", "check", "exitCheck", "readStart",
               "read", "charge", "post", "return", "flush", "in", "hup",
               "doneOutput", "doneInput", "doneExit", "end"}

KernelTypeOK ==
  /\ printed \in Nat /\ taken \in Nat
  /\ program \in {"running", "exited"}
  /\ descendant \in BOOLEAN /\ ttyFull \in BOOLEAN /\ slaveFd \in BOOLEAN

SessionTypeOK ==
  /\ credit \in Nat /\ queued \in Nat
  /\ discard \in BOOLEAN /\ hungUp \in BOOLEAN /\ stopping \in BOOLEAN
  /\ processExited \in BOOLEAN /\ outputClosed \in BOOLEAN
  /\ inputClosed \in BOOLEAN /\ reactorDone \in BOOLEAN
  /\ wake \in BOOLEAN /\ abandoned \in BOOLEAN /\ ioFailed \in BOOLEAN

PcTypeOK ==
  /\ rpc \in ReactorPcs
  /\ waiter \in {"wait", "record", "wake", "post", "end"}
  /\ closer \in {"idle", "start", "kill", "wake", "end"}

LocalsTypeOK ==
  /\ events \subseteq {"IN", "OUT"}
  /\ revents \subseteq {"IN", "OUT", "HUP", "WAKE"}
  /\ result \in Results /\ caller \in {"exit", "in", "hup"}
  /\ dropping \in BOOLEAN /\ amount \in Nat

DartTypeOK ==
  /\ portOpen \in BOOLEAN
  /\ consumer \in {"reading", "holding", "cancelling", "cancelled"}
  /\ ownerPc \in {"idle", "wake"}
  /\ posted \in Nat /\ acked \in Nat /\ ends \subseteq Nat

TypeOK ==
  KernelTypeOK /\ SessionTypeOK /\ PcTypeOK /\ LocalsTypeOK /\ DartTypeOK

Init ==
  /\ printed = 0 /\ taken = 0 /\ posted = 0 /\ acked = 0 /\ ends = {}
  /\ program = "running" /\ ttyFull = FALSE /\ slaveFd = TRUE
  /\ descendant \in (IF "descendant" \in Mayhem THEN BOOLEAN ELSE {FALSE})
  /\ credit = Window
  /\ discard = FALSE /\ hungUp = FALSE /\ stopping = FALSE
  /\ processExited = FALSE /\ outputClosed = FALSE /\ inputClosed = FALSE
  /\ reactorDone = FALSE /\ queued = 0 /\ wake = FALSE
  /\ abandoned = FALSE /\ ioFailed = FALSE
  /\ rpc = "top" /\ waiter = "wait" /\ closer = "idle"
  /\ events = {} /\ revents = {} /\ result = "NONE" /\ caller = "in"
  /\ dropping = FALSE /\ amount = 0
  /\ portOpen = TRUE /\ ownerPc = "idle"
  /\ consumer \in {"reading"} \cup (IF "pause" \in Mayhem THEN {"holding"} ELSE {})

-----------------------------------------------------------------------------
(* Helpers                                                                 *)

Lesser(a, b) == IF a <= b THEN a ELSE b

Buffered == printed - taken             \* bytes waiting in the terminal

\* Some process can still print on the terminal.
Writers == program = "running" \/ descendant

\* Every slave descriptor is closed: the master side reports a hangup.
HungUp == ~Writers /\ ~slaveFd

\* pty_session_begin_close: the first caller starts the close worker.
BeginClose == closer' = IF closer = "idle" THEN "start" ELSE closer

\* post_session_event for an event whose payload does not matter here: a
\* post that is skipped or fails abandons the session, which begins its close.
CanPost == portOpen /\ ~abandoned
PostSimple == IF CanPost THEN UNCHANGED <<abandoned, closer>>
                         ELSE abandoned' = TRUE /\ BeginClose

-----------------------------------------------------------------------------
(* The programs on the terminal and the kernel (external)                  *)

ProgramPrints ==
  /\ Writers
  /\ printed < MaxPrinted
  /\ Buffered < PtyCap
  /\ printed' = printed + 1
  /\ UNCHANGED <<taken, program, descendant, ttyFull, slaveFd, credit,
                 flagVars, wake, threadVars, dartVars>>

ProgramExits ==
  /\ program = "running"
  /\ program' = "exited"
  /\ UNCHANGED <<printed, taken, descendant, ttyFull, slaveFd, credit,
                 flagVars, wake, threadVars, dartVars>>

DescendantExits ==
  /\ descendant
  /\ descendant' = FALSE
  /\ UNCHANGED <<printed, taken, program, ttyFull, slaveFd, credit,
                 flagVars, wake, threadVars, dartVars>>

ProgramReadsInput ==
  /\ Writers /\ ttyFull
  /\ ttyFull' = FALSE
  /\ UNCHANGED <<printed, taken, program, descendant, slaveFd, credit,
                 flagVars, wake, threadVars, dartVars>>

-----------------------------------------------------------------------------
(* reactor_worker: one turn of the poll loop                               *)

\* What no step of the loop itself touches.
loopFrame == <<printed, taken, program, descendant, credit, processExited,
               stopping, waiter, dartVars>>

Goto(pc) == rpc' = pc /\ UNCHANGED locals

\* Leave the turn: its locals go out of scope.
Leave(pc) == /\ rpc' = pc
             /\ events' = {} /\ revents' = {} /\ result' = "NONE"
             /\ caller' = "in" /\ dropping' = FALSE /\ amount' = 0

CallRead(site) == /\ rpc' = "readStart" /\ caller' = site
                  /\ UNCHANGED <<events, revents, result, dropping, amount>>

\* The snapshot under the mutex decides which events the turn waits for.
Top ==
  /\ rpc = "top"
  /\ IF stopping
       THEN Leave("doneOutput")
       ELSE /\ rpc' = "poll"
            /\ events' = {e \in {"IN", "OUT"} :
                            \/ e = "IN" /\ (discard \/ credit > 0)
                            \/ e = "OUT" /\ queued > 0 /\ ~hungUp}
            /\ UNCHANGED <<revents, result, caller, dropping, amount>>
  /\ UNCHANGED <<loopFrame, flagVars, ttyFull, slaveFd, wake, closer>>

\* monitor_master: a hung up terminal is not watched while nothing is wanted
\* of it, because poll() would report the hangup at once, forever.
Monitored == ~(hungUp /\ events = {})

\* What poll() finds ready now: the terminal's state and the wake pipe.
Ready == {e \in {"IN", "OUT", "HUP", "WAKE"} :
            \/ e = "IN" /\ Monitored /\ "IN" \in events /\ Buffered > 0
            \/ e = "OUT" /\ Monitored /\ "OUT" \in events /\ ~ttyFull
            \/ e = "HUP" /\ Monitored /\ HungUp
            \/ e = "WAKE" /\ wake}

\* poll(): blocks until a watched descriptor is ready.
Poll ==
  /\ rpc = "poll"
  /\ Ready # {}
  /\ revents' = Ready
  /\ rpc' = IF wake THEN "drain" ELSE "check"
  /\ UNCHANGED <<events, result, caller, dropping, amount, loopFrame, flagVars,
                 ttyFull, slaveFd, wake, closer>>

\* poll() itself fails: post_child_error, then leave the loop.
PollFails ==
  /\ rpc = "poll" /\ "io" \in Mayhem
  /\ ioFailed' = TRUE
  /\ PostSimple
  /\ Leave("doneOutput")
  /\ UNCHANGED <<loopFrame, discard, hungUp, outputClosed, inputClosed,
                 reactorDone, queued, ttyFull, slaveFd, wake>>

\* pty_unix_drain_wake_pipe
DrainWakePipe ==
  /\ rpc = "drain"
  /\ wake' = FALSE
  /\ Goto("check")
  /\ UNCHANGED <<loopFrame, flagVars, ttyFull, slaveFd, closer>>

\* stopping_after_wake
CheckStopping ==
  /\ rpc = "check"
  /\ IF stopping THEN Leave("doneOutput") ELSE Goto("exitCheck")
  /\ UNCHANGED <<loopFrame, flagVars, ttyFull, slaveFd, wake, closer>>

\* After the program's exit a wake drains the terminal, but only if the
\* snapshot taken before poll() had credit (or was discarding).
\* Faulty variant: any wake drains, whether the program exited or not.
AnyWakeDrains == "WAKE" \in revents /\ "IN" \in events
ExitDrainDue == "WAKE" \in revents /\ processExited /\ "IN" \in events

CheckExit ==
  /\ rpc = "exitCheck"
  /\ IF ExitDrainDue THEN CallRead("exit") ELSE Goto("flush")
  /\ UNCHANGED <<loopFrame, flagVars, ttyFull, slaveFd, wake, closer>>

\* mark_input_closed: INPUT_CLOSED is posted by the first call only.
MarkInputClosed ==
  /\ inputClosed' = TRUE
  /\ IF inputClosed THEN UNCHANGED <<abandoned, closer>> ELSE PostSimple

\* No POLLOUT: nothing to flush.
SkipFlush ==
  /\ rpc = "flush" /\ "OUT" \notin revents
  /\ Goto("in")
  /\ UNCHANGED <<loopFrame, flagVars, ttyFull, slaveFd, wake, closer>>

\* pty_unix_flush_write_queue writes until the queue is empty or the terminal
\* is full (EAGAIN: the chunk is requeued), posting WRITE_COMPLETE on the way.
Flush ==
  /\ rpc = "flush" /\ "OUT" \in revents
  /\ \E n \in 0 .. queued :
       /\ queued' = queued - n
       /\ ttyFull' = (n < queued)
       /\ IF n = 0 THEN UNCHANGED <<abandoned, closer>> ELSE PostSimple
  /\ Goto("in")
  /\ UNCHANGED <<loopFrame, discard, hungUp, outputClosed, inputClosed,
                 reactorDone, ioFailed, slaveFd, wake>>

\* The write fails, as it may on a hung up terminal (EIO): the input is closed,
\* what is queued is discarded, and the turn ends without reading.
FlushFails ==
  /\ rpc = "flush" /\ "OUT" \in revents /\ queued > 0 /\ (HungUp \/ "io" \in Mayhem)
  /\ MarkInputClosed
  /\ queued' = 0
  /\ Leave(IF stopping THEN "doneOutput" ELSE "top")
  /\ UNCHANGED <<loopFrame, discard, hungUp, outputClosed, reactorDone,
                 ioFailed, ttyFull, slaveFd, wake>>

\* POLLIN: read once.
In ==
  /\ rpc = "in"
  /\ IF "IN" \in revents THEN CallRead("in") ELSE Goto("hup")
  /\ UNCHANGED <<loopFrame, flagVars, ttyFull, slaveFd, wake, closer>>

\* POLLHUP: the input side is over; read once more unless this turn already
\* got data or ran out of credit.
Hup ==
  /\ rpc = "hup" /\ "HUP" \in revents
  /\ hungUp' = TRUE
  /\ MarkInputClosed
  /\ queued' = 0
  /\ IF result \in {"DATA", "CREDIT_EXHAUSTED"} THEN Leave("top")
                                                ELSE CallRead("hup")
  /\ UNCHANGED <<loopFrame, discard, outputClosed, reactorDone, ioFailed,
                 ttyFull, slaveFd, wake>>

\* Without a hangup, an empty read after the exit closes the session's own
\* slave descriptor, so that a hangup can follow.
NoHup ==
  /\ rpc = "hup" /\ "HUP" \notin revents
  /\ slaveFd' = (slaveFd /\ ~(result = "EMPTY" /\ processExited))
  /\ Leave("top")
  /\ UNCHANGED <<loopFrame, flagVars, ttyFull, wake, closer>>

-----------------------------------------------------------------------------
(* read_output, called from three places of the loop                       *)

Return(value) == /\ rpc' = "return" /\ result' = value
                 /\ dropping' = FALSE /\ amount' = 0
                 /\ UNCHANGED <<events, revents, caller>>

\* The capacity of the read is fixed under the mutex.
\* Faulty variant: the credit does not bound the read.
UncheckedCapacity == Buffer
ReadCapacity == IF discard THEN Buffer ELSE Lesser(credit, Buffer)

ReadStart ==
  /\ rpc = "readStart"
  /\ IF ~discard /\ credit = 0
       THEN Return("CREDIT_EXHAUSTED")
       ELSE /\ rpc' = "read" /\ dropping' = discard /\ amount' = ReadCapacity
            /\ UNCHANGED <<events, revents, result, caller>>
  /\ UNCHANGED <<loopFrame, flagVars, ttyFull, slaveFd, wake, closer>>

\* read(master_fd) takes up to the capacity; a discarding read drops it.
ReadData ==
  /\ rpc = "read"
  /\ \E n \in 1 .. Lesser(amount, Buffered) :
       /\ taken' = taken + n
       /\ IF dropping
            THEN Return("DATA")
            ELSE /\ rpc' = "charge" /\ amount' = n
                 /\ UNCHANGED <<events, revents, result, caller, dropping>>
  /\ UNCHANGED <<printed, program, descendant, credit, processExited, stopping,
                 waiter, dartVars, flagVars, ttyFull, slaveFd, wake, closer>>

\* Nothing buffered: EIO after a hangup, EAGAIN before.
ReadNothing ==
  /\ rpc = "read" /\ Buffered = 0
  /\ Return(IF HungUp THEN "CLOSED" ELSE "EMPTY")
  /\ UNCHANGED <<loopFrame, flagVars, ttyFull, slaveFd, wake, closer>>

\* Any other read error is reported and ends the output.
ReadFails ==
  /\ rpc = "read" /\ "io" \in Mayhem
  /\ ioFailed' = TRUE
  /\ Return("CLOSED")
  /\ PostSimple
  /\ UNCHANGED <<loopFrame, discard, hungUp, outputClosed, inputClosed,
                 reactorDone, queued, ttyFull, slaveFd, wake>>

\* The credit is charged before the chunk is posted; a discard that was
\* requested meanwhile drops the chunk uncharged.
\* Faulty variants: no charge, a charge that is off by one.
UnchargedCredit == credit
OverchargedCredit == credit - amount - 1
ChargedCredit == IF credit >= amount THEN credit - amount ELSE 0

Charge ==
  /\ rpc = "charge"
  /\ IF discard THEN Return("DATA") /\ UNCHANGED credit
                ELSE Goto("post") /\ credit' = ChargedCredit
  /\ UNCHANGED <<kernelVars, flagVars, waiter, dartVars, wake, closer>>

PostOutput ==
  /\ rpc = "post" /\ CanPost
  /\ posted' = posted + amount
  /\ ends' = ends \cup {posted + amount}
  /\ Return("DATA")
  /\ UNCHANGED <<kernelVars, credit, flagVars, wake, waiter, closer, portOpen,
                 consumer, ownerPc, acked>>

\* A failed post abandons the session and turns it to discarding.
PostOutputFails ==
  /\ rpc = "post" /\ ~CanPost
  /\ abandoned' = TRUE /\ BeginClose
  /\ discard' = TRUE
  /\ Return("CLOSED")
  /\ UNCHANGED <<kernelVars, credit, hungUp, stopping, processExited,
                 outputClosed, inputClosed, reactorDone, queued, ioFailed,
                 wake, waiter, dartVars>>

\* Back in the loop at the call site.  The loop ends on a closed terminal
\* and on an empty read after a hangup, but not when credit ran out.
\* Faulty variant: running out of credit at a hangup ends the loop too.
NoCreditEndsToo == result = "CLOSED" \/ (caller = "hup" /\ result # "DATA")
EndsLoop == result = "CLOSED" \/ (caller = "hup" /\ result = "EMPTY")

\* The exit drain closes the session's own slave once it has read everything.
SlaveAfterRead == slaveFd /\ ~(caller = "exit" /\ result = "EMPTY")

ReturnToLoop ==
  /\ rpc = "return"
  /\ \/ EndsLoop /\ Leave("doneOutput")
     \/ ~EndsLoop /\ caller = "in" /\ Goto("hup")
     \/ ~EndsLoop /\ caller = "hup" /\ Leave("top")
     \/ /\ ~EndsLoop /\ caller = "exit"
        /\ rpc' = IF result = "DATA" THEN "readStart" ELSE "flush"
        /\ result' = "NONE"
        /\ caller' = IF result = "DATA" THEN "exit" ELSE "in"
        /\ UNCHANGED <<events, revents, dropping, amount>>
  /\ slaveFd' = SlaveAfterRead
  /\ UNCHANGED <<loopFrame, flagVars, ttyFull, wake, closer>>

-----------------------------------------------------------------------------
(* reactor_done: the way out of the loop                                   *)

\* mark_output_closed
DoneOutput ==
  /\ rpc = "doneOutput"
  /\ outputClosed' = TRUE
  /\ PostSimple
  /\ Goto("doneInput")
  /\ UNCHANGED <<loopFrame, discard, hungUp, inputClosed, reactorDone,
                 queued, ioFailed, ttyFull, slaveFd, wake>>

DoneInput ==
  /\ rpc = "doneInput"
  /\ MarkInputClosed
  /\ Goto("doneExit")
  /\ UNCHANGED <<loopFrame, discard, hungUp, outputClosed, reactorDone,
                 queued, ioFailed, ttyFull, slaveFd, wake>>

\* The master descriptor is closed and the worker is done.
DoneExit ==
  /\ rpc = "doneExit"
  /\ reactorDone' = TRUE
  /\ Goto("end")
  /\ UNCHANGED <<loopFrame, discard, hungUp, outputClosed, inputClosed,
                 queued, abandoned, ioFailed, ttyFull, slaveFd, wake, closer>>

Reactor ==
  \/ Top \/ Poll \/ PollFails \/ DrainWakePipe \/ CheckStopping \/ CheckExit
  \/ SkipFlush \/ Flush \/ FlushFails \/ In \/ Hup \/ NoHup
  \/ ReadStart \/ ReadData \/ ReadNothing \/ ReadFails \/ Charge
  \/ PostOutput \/ PostOutputFails \/ ReturnToLoop
  \/ DoneOutput \/ DoneInput \/ DoneExit

-----------------------------------------------------------------------------
(* waiter_worker and close_worker                                          *)

\* The supervisor's report arrives (pty_unix_read_exit).
WaiterReadsExit ==
  /\ waiter = "wait" /\ program = "exited"
  /\ waiter' = "record"
  /\ UNCHANGED <<kernelVars, credit, flagVars, wake, rpc, locals, closer, dartVars>>

WaiterRecordsExit ==
  /\ waiter = "record"
  /\ processExited' = TRUE
  /\ waiter' = "wake"
  /\ UNCHANGED <<kernelVars, credit, discard, hungUp, stopping, outputClosed,
                 inputClosed, reactorDone, queued, abandoned, ioFailed, wake,
                 rpc, locals, closer, dartVars>>

WaiterWakesReactor ==
  /\ waiter = "wake"
  /\ wake' = TRUE
  /\ waiter' = "post"
  /\ UNCHANGED <<kernelVars, credit, flagVars, rpc, locals, closer, dartVars>>

\* PROCESS_EXIT
WaiterPostsExit ==
  /\ waiter = "post"
  /\ PostSimple
  /\ waiter' = "end"
  /\ UNCHANGED <<kernelVars, credit, discard, hungUp, stopping, processExited,
                 outputClosed, inputClosed, reactorDone, queued, ioFailed,
                 wake, rpc, locals, dartVars>>

Waiter == WaiterReadsExit \/ WaiterRecordsExit \/ WaiterWakesReactor \/ WaiterPostsExit

CloserStops ==
  /\ closer = "start"
  /\ stopping' = TRUE
  /\ closer' = "kill"
  /\ UNCHANGED <<kernelVars, credit, discard, hungUp, processExited,
                 outputClosed, inputClosed, reactorDone, queued, abandoned,
                 ioFailed, wake, rpc, locals, waiter, dartVars>>

\* stop_process: SIGKILL to the program's groups, unless its exit is already
\* recorded.  A descendant dies with them unless it left the groups.
CloserKills ==
  /\ closer = "kill"
  /\ IF processExited
       THEN UNCHANGED <<program, descendant>>
       ELSE program' = "exited" /\ descendant' \in {FALSE, descendant}
  /\ closer' = "wake"
  /\ UNCHANGED <<printed, taken, ttyFull, slaveFd, credit, flagVars, wake, rpc,
                 locals, waiter, dartVars>>

\* Faulty variant: the close worker does not wake the reactor.
CloserForgetsWake ==
  /\ closer = "wake"
  /\ closer' = "end"
  /\ UNCHANGED <<kernelVars, credit, flagVars, wake, rpc, locals, waiter, dartVars>>

CloserWakesReactor ==
  /\ closer = "wake"
  /\ wake' = TRUE
  /\ closer' = "end"
  /\ UNCHANGED <<kernelVars, credit, flagVars, rpc, locals, waiter, dartVars>>

Closer == CloserStops \/ CloserKills \/ CloserWakesReactor

-----------------------------------------------------------------------------
(* The Dart isolate: one thread, one FFI call at a time                    *)

CanCall == portOpen /\ ownerPc = "idle"

\* pty_output_credit_after_ack
CreditAfterAck(bytes) == Lesser(credit + bytes, Window)

\* pty_session_ack_output for the oldest chunk: the output controller
\* acknowledges a chunk once the stream has taken it, or when it is dropped
\* after a cancel.  wake_reactor follows outside the mutex.
Ack ==
  /\ CanCall /\ consumer # "holding"
  /\ \E e \in ends :
       /\ \A f \in ends : e <= f
       /\ credit' = CreditAfterAck(e - acked)
       /\ acked' = e
       /\ ends' = ends \ {e}
  /\ ownerPc' = "wake"
  /\ UNCHANGED <<kernelVars, flagVars, wake, threadVars, portOpen, consumer, posted>>

\* pty_session_discard_output, at the end of a cancel
DiscardOutput ==
  /\ CanCall /\ consumer = "cancelling"
  /\ discard' = TRUE
  /\ consumer' = "cancelled"
  /\ ownerPc' = "wake"
  /\ UNCHANGED <<kernelVars, credit, hungUp, stopping, processExited,
                 outputClosed, inputClosed, reactorDone, queued, abandoned,
                 ioFailed, wake, threadVars, portOpen, posted, ends, acked>>

\* pty_session_try_write accepts a chunk
TryWrite ==
  /\ CanCall
  /\ ~stopping /\ ~inputClosed /\ closer = "idle"
  /\ queued < MaxWrites
  /\ queued' = queued + 1
  /\ ownerPc' = "wake"
  /\ UNCHANGED <<kernelVars, credit, discard, hungUp, stopping, processExited,
                 outputClosed, inputClosed, reactorDone, abandoned, ioFailed,
                 wake, threadVars, portOpen, consumer, posted, ends, acked>>

\* wake_reactor at the end of a call.
\* Faulty variant: the call returns without it.
OwnerForgetsWake ==
  /\ ownerPc = "wake"
  /\ ownerPc' = "idle"
  /\ UNCHANGED <<kernelVars, credit, flagVars, wake, threadVars, portOpen,
                 consumer, posted, ends, acked>>

OwnerWakesReactor ==
  /\ ownerPc = "wake"
  /\ wake' = TRUE
  /\ ownerPc' = "idle"
  /\ UNCHANGED <<kernelVars, credit, flagVars, threadVars, portOpen, consumer,
                 posted, ends, acked>>

SetConsumer(c) ==
  /\ consumer' = c
  /\ UNCHANGED <<kernelVars, credit, flagVars, wake, threadVars, portOpen,
                 ownerPc, posted, ends, acked>>

Pause  == "pause" \in Mayhem /\ CanCall /\ consumer = "reading" /\ SetConsumer("holding")
Resume == CanCall /\ consumer = "holding" /\ SetConsumer("reading")
Cancel == /\ "cancel" \in Mayhem /\ CanCall
          /\ consumer \in {"reading", "holding"}
          /\ SetConsumer("cancelling")

OwnerCloses ==
  /\ "close" \in Mayhem /\ CanCall /\ closer = "idle"
  /\ BeginClose
  /\ UNCHANGED <<kernelVars, credit, flagVars, wake, rpc, locals, waiter, dartVars>>

\* The isolate goes away: no more posts arrive, no more calls are made, and
\* its finalizer abandons the session.
PortCloses ==
  /\ "port" \in Mayhem /\ portOpen
  /\ portOpen' = FALSE
  /\ UNCHANGED <<kernelVars, credit, flagVars, wake, threadVars, consumer,
                 ownerPc, posted, ends, acked>>

FinalizerAbandons ==
  /\ ~portOpen /\ ownerPc = "idle" /\ ~abandoned
  /\ abandoned' = TRUE
  /\ BeginClose
  /\ UNCHANGED <<kernelVars, credit, discard, hungUp, stopping, processExited,
                 outputClosed, inputClosed, reactorDone, queued, ioFailed,
                 wake, rpc, locals, waiter, dartVars>>

Owner ==
  \/ Ack \/ DiscardOutput \/ TryWrite \/ OwnerWakesReactor
  \/ Pause \/ Resume \/ Cancel \/ OwnerCloses \/ PortCloses \/ FinalizerAbandons

Environment == ProgramPrints \/ ProgramExits \/ DescendantExits \/ ProgramReadsInput

Next == Reactor \/ Waiter \/ Closer \/ Owner \/ Environment

Spec == Init /\ [][Next]_vars

\* Every thread keeps running, a call in progress returns, and the isolate's
\* event loop gets to every delivered chunk and to the end of a cancel even
\* if other calls keep it busy in between (hence strong fairness: they are
\* disabled during each call).  Programs owe nothing: they may print, read,
\* linger or never exit; the owner need not pause, cancel or close.
Fairness ==
  /\ WF_vars(Reactor) /\ WF_vars(Waiter) /\ WF_vars(Closer)
  /\ WF_vars(OwnerWakesReactor) /\ SF_vars(Ack) /\ SF_vars(DiscardOutput)

FairSpec == Spec /\ Fairness

-----------------------------------------------------------------------------
(* Properties                                                              *)

\* The bytes charged for a chunk that is not posted yet.
Charged == IF rpc = "post" THEN amount ELSE 0

\* Every byte of the window is at exactly one place: free credit, a chunk
\* read_output has charged but not posted, or a posted chunk the consumer has
\* not acknowledged.  Only a failed post (a dead isolate) may lose credit.
CreditConserved ==
  /\ acked <= posted
  /\ credit + Charged + (posted - acked) <= Window
  /\ ~abandoned => credit + Charged + (posted - acked) = Window

\* Somebody asked for the stream to be cut short, or its I/O failed.
Cut == stopping \/ discard \/ ioFailed

\* OUTPUT_CLOSED on a stream nobody cut means that everything the programs
\* printed was posted first, and that nobody is left who could print more:
\* the reactor's reads after the exit lose no trailing output.
EndMeansDrained == outputClosed /\ ~Cut => posted = printed /\ ~Writers

\* The reactor treats the terminal as hung up only after the program's exit
\* is recorded: until then the session's own slave descriptor is open, so a
\* program that closes its terminal descriptors does not end the stream.
HangupAfterExit == hungUp => processExited /\ ~slaveFd

\* The reactor implements the windowed byte stream.
Stream == INSTANCE OutputStream
            WITH writers <- Writers, delivered <- posted, cut <- Cut,
                 closed <- outputClosed
ImplementsStream == Stream!Spec

\* A close request always gets the reactor out of its loop: the wake that
\* follows stopping is never swallowed.
StopEndsReactor == stopping ~> reactorDone

\* As long as the consumer acknowledges, what the programs printed does not
\* stay in the terminal: no acknowledgement's wake is lost.
BacklogDrains == (Buffered > 0) ~> (Buffered = 0 \/ reactorDone)

\* Once the program and its descendants are gone the stream ends.
ExitEndsOutput == (~Writers) ~> outputClosed

-----------------------------------------------------------------------------
(* The inductive invariant behind CreditConserved, EndMeansDrained,        *)
(* HangupAfterExit and ImplementsStream.                                   *)

\* Bytes read_output has taken from the terminal but not posted.
InHand == IF rpc \in {"charge", "post"} THEN amount ELSE 0

\* What a read in progress may rely on: only the consumer's acks move the
\* credit meanwhile, and only upwards.
ReadOK ==
  /\ rpc = "read" => (IF dropping THEN discard ELSE amount <= credit)
  /\ rpc = "charge" => amount > 0 /\ amount <= credit
  /\ rpc = "post" => amount > 0

\* The posted chunks are a cover of what is not acknowledged.
ChunksOK == \A e \in ends : acked < e /\ e <= posted

\* No byte is lost on the way unless the session is discarding.
BytesOK ==
  /\ taken <= printed
  /\ posted + InHand <= taken
  /\ ~discard => posted + InHand = taken

\* A hangup is stable, and follows the recorded exit.
HangupOK ==
  /\ ~slaveFd => processExited
  /\ caller = "exit" => processExited
  /\ "HUP" \in revents => HungUp
  /\ caller = "hup" => "HUP" \in revents
  /\ rpc \in {"top", "poll"} => caller = "in"
  /\ hungUp => HungUp

\* Nothing is left to read and nobody to print, or the stream was cut.
Drained == Cut \/ (taken = printed /\ ~Writers)

EndOK ==
  /\ rpc = "return" /\ result = "CLOSED" => Drained
  /\ rpc = "return" /\ caller = "hup" => result # "EMPTY"
  /\ rpc = "doneOutput" => Drained
  /\ outputClosed => rpc \in {"doneInput", "doneExit", "end"} /\ Drained

\* CreditConserved, EndMeansDrained and HangupAfterExit with what makes them
\* hold after every step: the state of the read in progress, the stability
\* of a hangup, and why the loop was left.
IInv == TypeOK /\ ReadOK /\ ChunksOK /\ CreditConserved /\ BytesOK /\ HangupOK /\ EndOK
=============================================================================
