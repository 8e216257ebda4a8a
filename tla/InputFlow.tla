----------------------------- MODULE InputFlow -----------------------------
(* The way of a program's input from PtyInput.write and tryWrite to the    *)
(* terminal: the Dart controller (input_flow_controller.dart), the call    *)
(* into the native session (pty_session_try_write), the bounded queue      *)
(* (pty_write_queue.c), its flush by the reactor, and the events that      *)
(* report progress back to Dart.                                           *)
(*                                                                         *)
(* A submission is a write or an accepted or attempted tryWrite; they are  *)
(* numbered in the order the user makes them.  Bytes are counted per       *)
(* submission: the controller cuts a submission into chunks, a chunk is    *)
(* the bytes from .from up to .to of its submission .sub.                  *)
EXTENDS Integers, Sequences, FiniteSets, FiniteSetsExt, Functions

CONSTANTS
    MaxPendingBytes,  \* maxPendingBytes in Dart, input_buffer_limit in C
    MaxChunkSize,     \* maxChunkSize
    TtyCap,           \* bytes of input the terminal buffers
    Submissions,      \* bound: how many submissions a behaviour makes
    WriteSizes,       \* bound: lengths of write()
    TrySizes,         \* bound: lengths of tryWrite()
    Failures          \* which of "io", "close", "memory" may happen

ASSUME InputFlowAssumption ==
    /\ MaxPendingBytes \in Nat \ {0} /\ MaxChunkSize \in Nat \ {0}
    /\ TtyCap \in Nat \ {0} /\ Submissions \in Nat
    /\ WriteSizes \subseteq Nat \ {0} /\ TrySizes \subseteq 1..MaxChunkSize
    /\ Failures \subseteq {"io", "close", "memory"}

VARIABLES
    \* --- the isolate ---
    size,        \* size[s]: length of submission s; its domain is what was submitted
    fate,        \* "pending" | "done" | "error" | "rejected" (tryWrite only)
    admissions,  \* _admissions: writes not yet admitted
    waiting,     \* _waiting: the write being cut into chunks
    offset,      \* request.offset
    inflight,    \* _inflight: set of chunks handed to the native queue
    owned,       \* _ownedPendingBytes
    writableDue, \* _waitingForWritable
    closed,      \* _closed
    owner,       \* _owner is set: the session cannot be collected
    dart,        \* "idle" | "pump" | "try" | "flag": where the isolate is
    \* --- events posted to the isolate, oldest first ---
    events,
    \* --- the native session ---
    queue,       \* chunks between head and tail
    queued,      \* queued_bytes
    taken,       \* inflight_bytes
    hand,        \* the chunk the reactor holds, <<>> when none
    reactor,     \* where pty_unix_flush_write_queue is
    flagged,     \* write_backpressured
    stopping,    \* stopping, or a lifecycle of CLOSING or more
    inputClosed, \* input_closed
    \* --- the terminal ---
    tty,         \* bytes in the terminal's input buffer
    written      \* written[s]: bytes of s the terminal accepted

isolate == <<size, fate, admissions, waiting, offset, inflight, owned, writableDue, closed, owner, dart>>
native  == <<queue, queued, taken, hand, reactor, flagged, stopping, inputClosed>>
vars    == <<isolate, events, native, tty, written>>

Subs  == DOMAIN size
\* .try: handed over by tryWrite (request == null); .off: bytes written so far;
\* .acc: accounted_bytes, what the chunk counts for in taken
Chunk == [sub: 1..Submissions, from: Nat, to: Nat, try: BOOLEAN, off: Nat, acc: Nat]
Length(c)    == c.to - c.from
Remaining(c) == Length(c) - c.off
Id(c)        == <<c.sub, c.from>>                  \* request ids are unique
Post(k, id)  == events' = Append(events, [kind |-> k, id |-> id])

Init ==
    /\ size = <<>> /\ fate = <<>> /\ offset = <<>> /\ written = <<>>
    /\ admissions = <<>> /\ waiting = <<>> /\ inflight = {}
    /\ owned = 0 /\ writableDue = FALSE /\ closed = FALSE /\ owner = FALSE
    /\ dart = "idle" /\ events = <<>>
    /\ queue = <<>> /\ queued = 0 /\ taken = 0 /\ hand = <<>>
    /\ reactor = "idle" /\ flagged = FALSE
    /\ stopping = FALSE /\ inputClosed = FALSE
    /\ tty = 0

-----------------------------------------------------------------------------
\* The Dart controller.  A handler runs to its first call into the native
\* session in one step; "pump" is the head of the loop of _pump.

Settle(ss, as) == fate' = [s \in Subs |-> IF s \in ss /\ fate[s] = "pending" THEN as ELSE fate[s]]

\* The submissions flush() waits for and closeWithError() fails
Outstanding == Range(admissions) \union Range(waiting) \union {c.sub : c \in {d \in inflight : d.try}}

\* closeWithError: every future not yet completed fails, everything is dropped.
\* A tryWrite in progress, ss, is in no collection: its caller gets the result.
CloseWithError(ss) ==
    /\ closed' = TRUE
    /\ Settle(Outstanding \union ss, "error")
    /\ admissions' = <<>> /\ waiting' = <<>> /\ inflight' = {}
    /\ owned' = 0 /\ owner' = FALSE

\* What handleClosed and close() do, once only
FailsInput ==
    IF closed THEN UNCHANGED <<fate, admissions, waiting, inflight, owned, closed, owner>>
    ELSE CloseWithError({})

\* Mutant: chunks in flight do not count.
NothingQueued(a, w, i) == a = <<>> /\ w = <<>>

Idle(a, w, i) == a = <<>> /\ w = <<>> /\ i = {}
\* _releaseOwnerIfIdle, after the handler's other assignments
ReleasedOwner == owner' = (owner /\ ~Idle(admissions', waiting', inflight'))

Submit(n, as) ==
    /\ Cardinality(Subs) < Submissions
    /\ size' = Append(size, n) /\ fate' = Append(fate, as)
    /\ offset' = Append(offset, 0) /\ written' = Append(written, 0)

\* May the first admission be moved to _waiting (_pumpAdmissions)?
Admissible(a, w, o) == a # <<>> /\ w = <<>> /\ o < MaxPendingBytes
\* _pumpAdmissions on the collections a and w with o owned bytes.  The moved
\* request stays the first of _waiting after _pump, so the loop ends there.
PumpAdmissions(a, w, o) ==
    IF Admissible(a, w, o)
    THEN admissions' = Tail(a) /\ waiting' = <<Head(a)>>
    ELSE admissions' = a /\ waiting' = w

Write(n) ==
    /\ dart = "idle" /\ ~closed /\ Submit(n, "pending")
    /\ owner' = TRUE
    /\ PumpAdmissions(Append(admissions, Len(size) + 1), waiting, owned)
    /\ dart' = "pump"
    /\ UNCHANGED <<inflight, owned, writableDue, closed, events, native, tty>>

\* tryWrite up to its call of nativeTryWrite
MustWait(n) ==
    \/ admissions # <<>> \/ waiting # <<>> \/ writableDue
    \/ n > MaxPendingBytes - owned
TryWrite(n) ==
    /\ dart = "idle" /\ ~closed
    /\ \/ /\ MustWait(n) /\ Submit(n, "rejected")
          /\ UNCHANGED <<owner, dart>>
       \/ /\ ~MustWait(n) /\ Submit(n, "pending")
          /\ owner' = TRUE /\ dart' = "try"
    /\ UNCHANGED <<admissions, waiting, inflight, owned, writableDue, closed, events, native, tty>>

\* _pump returns without a native call.  A request all of which is handed over
\* has chunks in flight: HandleWriteComplete removes it with its last one.
PumpDone ==
    \/ closed \/ writableDue \/ owned = MaxPendingBytes
    \/ waiting # <<>> => offset[Head(waiting)] = size[Head(waiting)]
PumpStops ==
    /\ dart = "pump" /\ PumpDone
    /\ dart' = "idle"
    /\ UNCHANGED <<size, fate, admissions, waiting, offset, inflight, owned, writableDue, closed,
                   events, native, tty, written>>
    /\ ReleasedOwner

Available == MaxPendingBytes - owned
NextChunk ==
    LET s == Head(waiting) IN
    [sub |-> s, from |-> offset[s],
     to |-> Min({offset[s] + MaxChunkSize, size[s], offset[s] + Available}),
     try |-> FALSE, off |-> 0, acc |-> 0]
TryChunk ==
    [sub |-> Len(size), from |-> 0, to |-> size[Len(size)], try |-> TRUE, off |-> 0, acc |-> 0]

\* One call of nativeTryWrite with the chunk c, up to its result.
Full(c) == Length(c) > MaxPendingBytes - queued - taken
NativeClosed == stopping \/ inputClosed

Accepted(c) ==
    /\ ~NativeClosed /\ ~Full(c)
    /\ queue' = Append(queue, c) /\ queued' = queued + Length(c)
    /\ owned' = owned + Length(c) /\ inflight' = inflight \union {c}
    /\ offset' = [offset EXCEPT ![c.sub] = c.to]
    /\ dart' = (IF c.try THEN "idle" ELSE "pump")
    /\ UNCHANGED <<fate, admissions, waiting, closed, owner, taken, stopping>>

\* The queue is full; the caller still holds the platform's mutex.
Refused(c) ==
    /\ ~NativeClosed /\ Full(c)
    /\ dart' = "flag"
    /\ UNCHANGED <<fate, admissions, waiting, offset, inflight, owned, closed, owner,
                   queue, queued, taken, stopping>>

\* CLOSED, or ERROR, on which _tryWrite begins a close and throws
Failed(c) ==
    /\ NativeClosed \/ "memory" \in Failures
    /\ stopping' = (stopping \/ ~NativeClosed)
    /\ CloseWithError({c.sub}) /\ dart' = "idle"
    /\ UNCHANGED <<offset, queue, queued, taken>>

CallsNative(c) ==
    /\ Accepted(c) \/ Refused(c) \/ Failed(c)
    /\ UNCHANGED <<size, writableDue, events, hand, reactor, flagged, inputClosed, tty, written>>

PumpCalls ==
    /\ dart = "pump" /\ ~PumpDone
    /\ CallsNative(NextChunk)
TryCalls ==
    /\ dart = "try"
    /\ CallsNative(TryChunk)

\* The rest of a refused call: the flag, the unlock, and what the caller notes
BackpressureFlagged ==
    /\ dart = "flag"
    /\ flagged' = TRUE /\ dart' = "idle"
    /\ \/ waiting # <<>> /\ writableDue' = TRUE /\ UNCHANGED fate
       \/ waiting = <<>> /\ Settle({Len(size)}, "rejected") /\ UNCHANGED writableDue
    /\ UNCHANGED <<size, admissions, waiting, offset, inflight, owned, closed, events,
                   queue, queued, taken, hand, reactor, stopping, inputClosed, tty, written>>
    /\ ReleasedOwner

\* Events, delivered one by one while the isolate is idle
Receive(k) ==
    /\ dart = "idle" /\ events # <<>> /\ Head(events).kind = k
    /\ events' = Tail(events)
    /\ UNCHANGED <<size, offset, native, tty, written>>

\* Mutant: the flag is cleared but nothing is retried.
HandleWritableIdle ==
    /\ Receive("writable") /\ writableDue' = FALSE
    /\ UNCHANGED <<fate, admissions, waiting, inflight, owned, closed, owner, dart>>

HandleWritable ==
    /\ Receive("writable")
    /\ writableDue' = (closed /\ writableDue)
    /\ dart' = (IF closed THEN "idle" ELSE "pump")
    /\ UNCHANGED <<fate, admissions, waiting, inflight, owned, closed, owner>>

HandleClosed ==
    /\ Receive("closed") /\ FailsInput
    /\ UNCHANGED <<writableDue, dart>>

\* Mutant: complete as soon as everything is handed over.
HandedOver(s, inf) == offset[s] = size[s]

\* Is the request s complete once the chunks inf remain in flight?
Finished(s, inf) == offset[s] = size[s] /\ \A d \in inf : d.sub # s

HandleWriteComplete ==
    /\ Receive("complete")
    /\ LET mine == {c \in inflight : Id(c) = Head(events).id} IN
       \/ mine = {} /\ UNCHANGED <<fate, admissions, waiting, inflight, owned, dart>>
       \/ \E c \in mine :
             /\ inflight' = inflight \ {c} /\ owned' = owned - Length(c)
             /\ dart' = "pump"
             /\ IF Finished(c.sub, inflight') THEN Settle({c.sub}, "done") ELSE UNCHANGED fate
             /\ IF ~c.try /\ Finished(c.sub, inflight')
                THEN PumpAdmissions(admissions, <<>>, owned')
                ELSE UNCHANGED <<admissions, waiting>>
    /\ UNCHANGED <<writableDue, closed, owner>>

\* FfiPtySession.close: closeWithError, then begin_close
Close ==
    /\ "close" \in Failures /\ dart = "idle" /\ ~stopping
    /\ FailsInput /\ stopping' = TRUE
    /\ UNCHANGED <<size, offset, writableDue, dart, events, queue, queued, taken, hand, reactor,
                   flagged, inputClosed, tty, written>>

-----------------------------------------------------------------------------
\* The reactor: pty_unix_flush_write_queue, entered on POLLOUT.

Steps(from, to) == reactor = from /\ reactor' = to
DartUnchanged == UNCHANGED <<isolate, stopping>>

Flush ==
    /\ Steps("idle", "dequeue") /\ queued # 0 /\ tty < TtyCap /\ DartUnchanged
    /\ UNCHANGED <<events, queue, queued, taken, hand, flagged, inputClosed, tty, written>>

Dequeue ==
    /\ DartUnchanged
    /\ \/ /\ queue = <<>> /\ Steps("dequeue", "idle")
          /\ UNCHANGED <<queue, queued, taken, hand>>
       \/ /\ queue # <<>> /\ Steps("dequeue", "write")
          /\ LET c == Head(queue) IN
             /\ hand' = <<[c EXCEPT !.acc = Remaining(c)]>>
             /\ queued' = queued - Remaining(c) /\ taken' = taken + Remaining(c)
          /\ queue' = Tail(queue)
    /\ UNCHANGED <<events, flagged, inputClosed, tty, written>>

\* write(): the terminal accepts some of the bytes
WriteBytes ==
    /\ DartUnchanged /\ reactor = "write"
    /\ \E k \in 1..Min({Remaining(hand[1]), TtyCap - tty}) :
          /\ tty' = tty + k
          /\ written' = [written EXCEPT ![hand[1].sub] = @ + k]
          /\ hand' = <<[hand[1] EXCEPT !.off = @ + k]>>
    /\ reactor' = (IF Remaining(hand'[1]) = 0 THEN "post" ELSE "write")
    /\ UNCHANGED <<events, queue, queued, taken, flagged, inputClosed>>

\* Mutant: the rest goes to the back of the queue.
RequeuedLast(c) == Append(queue, [c EXCEPT !.acc = Remaining(c)])

\* write() says EAGAIN: pty_write_queue_requeue_front, which cannot refuse the
\* rest of a chunk it has just counted as in flight
Requeued(c) == <<[c EXCEPT !.acc = Remaining(c)]>> \o queue
WriteBlocks ==
    /\ Steps("write", "yield") /\ tty = TtyCap /\ DartUnchanged
    /\ LET c == hand[1] IN
       /\ queue' = Requeued(c)
       /\ taken' = taken - c.acc /\ queued' = queued + Remaining(c)
    /\ hand' = <<>>
    /\ UNCHANGED <<events, flagged, inputClosed, tty, written>>

\* Mutant: the failed chunk is freed without pty_write_queue_complete_chunk.
WriteFailsUnaccounted ==
    /\ "io" \in Failures /\ Steps("write", "fail") /\ DartUnchanged
    /\ hand' = <<>>
    /\ UNCHANGED <<events, queue, queued, taken, flagged, inputClosed, tty, written>>

\* write() fails: pty_write_queue_complete_chunk, then the input is closed
WriteFails ==
    /\ "io" \in Failures /\ Steps("write", "fail") /\ DartUnchanged
    /\ taken' = taken - hand[1].acc /\ hand' = <<>>
    /\ UNCHANGED <<events, queue, queued, flagged, inputClosed, tty, written>>

\* The terminal hangs up
HangsUp ==
    /\ "io" \in Failures /\ Steps("idle", "fail") /\ ~inputClosed /\ DartUnchanged
    /\ UNCHANGED <<events, queue, queued, taken, hand, flagged, inputClosed, tty, written>>

\* Mutant: the flag of a refused call is set outside the mutex.
NoMutex == TRUE

\* mark_input_closed holds the mutex, which a refused call has not yet given up
MutexFree == dart # "flag"
MarkInputClosed ==
    /\ MutexFree /\ inputClosed' = TRUE
    /\ IF inputClosed THEN UNCHANGED events ELSE Post("closed", <<>>)

InputFails ==
    /\ Steps("fail", "discard") /\ MarkInputClosed /\ DartUnchanged
    /\ UNCHANGED <<queue, queued, taken, hand, flagged, tty, written>>

\* discard_pending_writes: try_write adds nothing once the input is closed
Discard ==
    /\ Steps("discard", "idle") /\ DartUnchanged
    /\ queue' = <<>> /\ queued' = 0
    /\ UNCHANGED <<events, taken, hand, flagged, inputClosed, tty, written>>

PostComplete ==
    /\ Steps("post", "complete") /\ Post("complete", Id(hand[1])) /\ DartUnchanged
    /\ UNCHANGED <<queue, queued, taken, hand, flagged, inputClosed, tty, written>>

CompleteChunk ==
    /\ Steps("complete", "notify") /\ DartUnchanged
    /\ taken' = taken - hand[1].acc /\ hand' = <<>>
    /\ UNCHANGED <<events, queue, queued, flagged, inputClosed, tty, written>>

\* maybe_post_writable: decided under the mutex, posted after it.  After a
\* completed chunk the flush goes on, after a blocked write it returns.
LowWater == queued + taken <= MaxPendingBytes \div 2
MaybePostWritable ==
    /\ reactor \in {"notify", "yield"} /\ MutexFree /\ DartUnchanged
    /\ LET posts == flagged /\ LowWater IN
       /\ flagged' = (flagged /\ ~posts)
       /\ reactor' = CASE posts -> (IF reactor = "notify" THEN "announce" ELSE "announceLast")
                        [] ~posts -> (IF reactor = "notify" THEN "dequeue" ELSE "idle")
    /\ UNCHANGED <<events, queue, queued, taken, hand, inputClosed, tty, written>>

PostWritable ==
    /\ Steps("announce", "dequeue") \/ Steps("announceLast", "idle")
    /\ Post("writable", <<>>) /\ DartUnchanged
    /\ UNCHANGED <<queue, queued, taken, hand, flagged, inputClosed, tty, written>>

ReactorEnds ==
    /\ Steps("idle", "ended") /\ stopping /\ MarkInputClosed /\ DartUnchanged
    /\ UNCHANGED <<queue, queued, taken, hand, flagged, tty, written>>

ProgramReads ==
    /\ \E k \in 1..tty : tty' = tty - k
    /\ UNCHANGED <<isolate, events, native, written>>

-----------------------------------------------------------------------------
User    == (\E n \in WriteSizes : Write(n)) \/ (\E n \in TrySizes : TryWrite(n)) \/ Close
Isolate == PumpStops \/ PumpCalls \/ TryCalls \/ BackpressureFlagged
Pump    == HandleWritable \/ HandleClosed \/ HandleWriteComplete
Reactor ==
    \/ Flush \/ Dequeue \/ WriteBytes \/ WriteBlocks \/ InputFails \/ Discard
    \/ PostComplete \/ CompleteChunk \/ MaybePostWritable \/ PostWritable \/ ReactorEnds
Failure == WriteFails \/ HangsUp

Next == User \/ Isolate \/ Pump \/ Reactor \/ Failure \/ ProgramReads

Spec == Init /\ [][Next]_vars
\* The isolate's code runs on, its event loop delivers, the reactor is
\* scheduled, and the program reads its input.
FairSpec ==
    /\ Spec /\ WF_vars(Isolate) /\ WF_vars(Pump) /\ WF_vars(Reactor) /\ WF_vars(ProgramReads)

-----------------------------------------------------------------------------
\* Every part of the state has its type.
TypeOK ==
    /\ size \in Seq(Nat \ {0})
    /\ fate \in [Subs -> {"pending", "done", "error", "rejected"}]
    /\ Range(admissions) \subseteq Subs /\ Range(waiting) \subseteq Subs /\ Len(waiting) <= 1
    /\ inflight \subseteq Chunk /\ owned \in 0..MaxPendingBytes
    /\ \A s \in Subs : offset[s] \in 0..size[s] /\ written[s] \in 0..size[s]
    /\ writableDue \in BOOLEAN /\ closed \in BOOLEAN /\ owner \in BOOLEAN
    /\ dart \in {"idle", "pump", "try", "flag"}
    /\ \A i \in 1..Len(events) : events[i].kind \in {"complete", "writable", "closed"}
    /\ Range(queue) \subseteq Chunk /\ Range(hand) \subseteq Chunk /\ Len(hand) <= 1
    /\ queued \in 0..MaxPendingBytes /\ taken \in 0..MaxPendingBytes
    /\ flagged \in BOOLEAN /\ stopping \in BOOLEAN /\ inputClosed \in BOOLEAN
    /\ tty \in 0..TtyCap

\* The bytes of a chunk that are still to be written
Bytes(c) == {c.sub} \X ((c.from + c.off)..(c.to - 1))

\* The three byte counters are what they count -- the bytes in flight in Dart,
\* those in the native queue, the accounted bytes of the chunk in hand -- no byte
\* twice, whatever is written partially, requeued, discarded or failed in between,
\* and the native queue stays within its limit (pty_write_queue.c,
\* _ownedPendingBytes).
BytesAddUp ==
    /\ TypeOK
    /\ owned = Cardinality(UNION {Bytes(c) : c \in inflight})
    /\ queued = Cardinality(UNION {Bytes(queue[i]) : i \in 1..Len(queue)})
    /\ taken = (IF hand = <<>> THEN 0 ELSE hand[1].acc)
    /\ queued + taken <= MaxPendingBytes

\* "Writes all [data] in order" (pty_input.dart:6): the terminal gets no byte of
\* a submission before all of the earlier ones, and each byte of it in its turn.
InOrder ==
    /\ \A r, s \in Subs : r < s /\ written[s] > 0 /\ fate[r] # "rejected" => written[r] = size[r]
    /\ \A i \in 1..Len(hand) : written[hand[i].sub] = hand[i].from + hand[i].off

\* A future that completes normally has all its bytes in the terminal
\* (handleWriteComplete); a refused tryWrite has none.
DoneMeansWritten ==
    \A s \in Subs :
        /\ fate[s] = "done" => written[s] = size[s]
        /\ fate[s] = "rejected" => written[s] = 0

\* What flush() waits for and closeWithError() fails is, between handlers, exactly
\* what is pending, and while anything is the controller keeps its session from
\* being collected, whose finalizer would close it (flush, _retainOwner,
\* _releaseOwnerIfIdle).
PendingKeepsOwner ==
    LET open == {s \in Subs : fate[s] = "pending"} IN
    /\ open # {} => owner
    /\ dart = "idle" => Outstanding = open

\* Backpressure is never forgotten: while Dart waits for WRITABLE the session is
\* flagged or WRITABLE is on its way, and a flagged session has bytes left whose
\* completion clears the flag (pty_session_try_write, maybe_post_writable).
BackpressureRemembered ==
    stopping \/ inputClosed \/ reactor = "fail" \/
    /\ writableDue => \/ flagged \/ reactor \in {"announce", "announceLast"}
                      \/ \E i \in 1..Len(events) : events[i].kind = "writable"
    /\ flagged => queued + taken > 0 \/ reactor = "notify"

\* "The future waits for input admission and for the native PTY to accept every
\* byte" (pty_input.dart:8): with a program that reads, every write completes.
WritesSettle ==
    \A s \in 1..Submissions :
        (s \in Subs /\ fate[s] = "pending") ~> (s \in Subs /\ fate[s] # "pending")
=============================================================================
