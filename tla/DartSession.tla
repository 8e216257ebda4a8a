---------------------------- MODULE DartSession ----------------------------
(* The isolate's side of a session: the port and its pump                  *)
(* (native_event_pump.dart), the session's futures and errors              *)
(* (ffi_session.dart), the way of its output to the listener               *)
(* (output_flow_controller.dart) and the driver that spawns and closes it  *)
(* (ffi_driver.dart).  Input has a module of its own, InputFlow.           *)
(*                                                                         *)
(* A handler of the isolate runs to its end in one step; between handlers  *)
(* the microtasks it left run in their order, before the next message.     *)
(* The output controller is a synchronous StreamController of the Dart     *)
(* SDK: a chunk added outside a callback goes to the listener at once, a   *)
(* chunk added in onListen or onResume, which _drain does, waits in the    *)
(* subscription's buffer, from which one microtask takes one chunk.        *)
EXTENDS Integers, Sequences, FiniteSets, SequencesExt

CONSTANTS
    Window,     \* output_window_bytes; every chunk has one byte
    MaxOutput,  \* bound: chunks the program prints
    MaxGarbled  \* bound: messages NativeEvent.parse rejects

ASSUME DartSessionAssumption ==
    /\ Window \in Nat \ {0} /\ MaxOutput \in Nat /\ MaxGarbled \in Nat

VARIABLES
    fut,     \* spawn, exit, done, closed: "pending" | "value" | "error"
    flags,   \* what holds in the isolate, see Flags
    pending, \* _pending of the output controller
    buffer,  \* the subscription's buffer
    heard,   \* chunks the listener received
    acked,   \* chunks acknowledged
    micro,   \* microtasks: "deliver" a buffered chunk, tell of "done"
    port,    \* messages posted and not yet handled
    posted,  \* chunks posted
    native   \* what the native session did, see Steps

dart == <<fut, flags, pending, buffer, heard, acked, micro>>
vars == <<dart, port, posted, native>>

Futures == {"spawn", "exit", "done", "closed"}
Flags == {
    "listener", "paused", "cancelled", "nativeClosed",  \* of the output controller
    "unsubscribed",    \* the listener cancelled its subscription
    "drained",         \* _drainedNotified, and with it _outputDrained
    "disarmed",        \* _acknowledge and _discardOutput do nothing any more
    "outputClosed", "protocolFailed", "fatalHandled",   \* of the session state
    "closing",         \* _closing
    "released",        \* pty_session_release was called
    "pumpClosed",      \* the pump listens no more
    "holding",         \* the listener paused its subscription
    "told",            \* who waits for done was told
    "beginClose", "discard", "stray"}  \* native calls made; stray: after the release
Steps == {"up", "failed", "outputClosed", "exited", "lost", "errored", "over"}
Kinds == {"SPAWNED", "SPAWN_FAILED", "OUTPUT", "OUTPUT_CLOSED", "PROCESS_EXIT",
          "ASYNC_ERROR", "SESSION_CLOSED"}

\* Where the isolate is in a handler: a record the operators below transform
State == [fut |-> fut, flags |-> flags, pending |-> pending, buffer |-> buffer,
          heard |-> heard, acked |-> acked, micro |-> micro]
Becomes(state) == \E d \in {state} :
    /\ fut' = d.fut /\ flags' = d.flags /\ pending' = d.pending /\ buffer' = d.buffer
    /\ heard' = d.heard /\ acked' = d.acked /\ micro' = d.micro
Raise(d, fs)  == [d EXCEPT !.flags = @ \union fs]
Lower(d, f)   == [d EXCEPT !.flags = @ \ {f}]

Init ==
    /\ fut = [f \in Futures |-> "pending"] /\ flags = {}
    /\ pending = <<>> /\ buffer = <<>> /\ heard = <<>> /\ acked = 0
    /\ micro = <<>> /\ port = <<>> /\ posted = 0 /\ native = {}

-----------------------------------------------------------------------------
\* Futures and native calls

Settle(d, f, as) ==
    IF d.fut[f] # "pending" THEN d
    ELSE [d EXCEPT !.fut[f] = as,
                   !.micro = IF f = "done" /\ as = "value" THEN Append(@, "done") ELSE @]
FailLifecycle(d) == Settle(Settle(Settle(d, "spawn", "error"), "exit", "error"), "done", "error")

MaybeCompleteDone(d) ==
    IF d.fut["exit"] = "value" /\ {"outputClosed", "drained"} \subseteq d.flags
    THEN Settle(d, "done", "value") ELSE d

\* A call that passes the handle to the native session
Calls(d, fs) == Raise(d, fs \union IF "released" \in d.flags THEN {"stray"} ELSE {})
Acknowledge(d, n) ==
    IF n = 0 \/ "disarmed" \in d.flags THEN d ELSE Calls([d EXCEPT !.acked = @ + n], {})
DiscardOutput(d) == IF "disarmed" \in d.flags THEN d ELSE Calls(d, {"discard"})

-----------------------------------------------------------------------------
\* The output controller

\* Mutant: the end of the output is reported while chunks are pending.
NotifyAtClose(d) ==
    IF "nativeClosed" \in d.flags /\ "drained" \notin d.flags
    THEN MaybeCompleteDone(Raise(d, {"drained"})) ELSE d
NotifyDrained(d) ==
    IF "nativeClosed" \in d.flags /\ d.pending = <<>> /\ "drained" \notin d.flags
    THEN MaybeCompleteDone(Raise(d, {"drained"})) ELSE d

\* The subscription's buffer is emptied by microtasks unless the listener holds
Schedule(d) ==
    IF d.buffer = <<>> \/ "holding" \in d.flags \/ Contains(d.micro, "deliver") THEN d
    ELSE [d EXCEPT !.micro = Append(@, "deliver")]
Unscheduled(d) == [d EXCEPT !.micro = IF Contains(@, "done") THEN <<"done">> ELSE <<>>]

Flows(d) == "listener" \in d.flags /\ {"paused", "cancelled"} \cap d.flags = {}
\* _drain is called with pending chunks and a flow only in a callback
Drain(d) ==
    NotifyDrained(
        IF ~Flows(d) THEN d
        ELSE Acknowledge(Schedule([d EXCEPT !.buffer = @ \o d.pending, !.pending = <<>>]),
                         Len(d.pending)))

DropPending(d) == [Acknowledge(d, Len(d.pending)) EXCEPT !.pending = <<>>]
HandleCancel(d) == NotifyDrained(DiscardOutput(DropPending(Raise(d, {"cancelled"}))))

\* Mutant: the callbacks stay armed.
StaysArmed(d) ==
    NotifyDrained(Raise(DiscardOutput(DropPending(Raise(d, {"cancelled"}))), {"nativeClosed"}))
CloseAndDiscard(d) ==
    NotifyDrained(Raise(DiscardOutput(DropPending(Raise(d, {"cancelled"}))),
                        {"disarmed", "nativeClosed"}))

Unsubscribe(d) ==
    HandleCancel(Unscheduled(Raise([d EXCEPT !.buffer = <<>>], {"unsubscribed"})))

\* The listener gets chunk c, and may pause or cancel its subscription
Hears(d, c, reaction) ==
    LET h == [d EXCEPT !.heard = Append(@, c)] IN
    CASE reaction = "pause"  -> Raise(h, {"holding", "paused"})
      [] reaction = "cancel" -> Unsubscribe(h)
      [] OTHER -> h

\* Mutant: a chunk given to the listener is acknowledged only when it kept on.
AckUnlessPaused(d, c, reaction) ==
    IF {"cancelled", "nativeClosed"} \cap d.flags # {} THEN Acknowledge(d, 1)
    ELSE IF ~Flows(d) THEN [d EXCEPT !.pending = Append(@, c)]
    ELSE IF reaction = "pause" THEN Hears(d, c, reaction)
    ELSE Acknowledge(Hears(d, c, reaction), 1)
\* Mutant: what nobody listens to is dropped.
DropsUnheard(d, c, reaction) ==
    IF Flows(d) THEN Acknowledge(Hears(d, c, reaction), 1) ELSE Acknowledge(d, 1)
AddNativeOutput(d, c, reaction) ==
    IF {"cancelled", "nativeClosed"} \cap d.flags # {} THEN Acknowledge(d, 1)
    ELSE IF ~Flows(d) THEN [d EXCEPT !.pending = Append(@, c)]
    ELSE Acknowledge(Hears(d, c, reaction), 1)

HandleNativeClosed(d) == Drain(Raise(d, {"nativeClosed"}))

\* A listener pauses or resumes in its callback or in a turn of its own
Reactions == {"none", "pause", "cancel"}
User == fut["spawn"] = "value"  \* spawn() returned the session

Listen ==
    /\ User /\ "listener" \notin flags
    /\ Becomes(Drain(Raise(State, {"listener"})))
    /\ UNCHANGED <<port, posted, native>>
Pause ==
    /\ micro = <<>>
    /\ "listener" \in flags /\ {"holding", "unsubscribed"} \cap flags = {}
    /\ Becomes(Raise(State, {"holding", "paused"}))
    /\ UNCHANGED <<port, posted, native>>

\* Mutant: the pending chunks are not delivered by a resume.
ResumesLazily(d) ==
    IF d.buffer = <<>> /\ {"paused", "holding"} \cap d.flags = {"paused"}
    THEN Lower(d, "paused") ELSE d
\* onResume comes when the buffer is empty
InputResumes(d) ==
    IF d.buffer = <<>> /\ {"paused", "holding"} \cap d.flags = {"paused"}
    THEN Drain(Lower(d, "paused")) ELSE d
Resume ==
    /\ micro = <<>> /\ "holding" \in flags /\ "unsubscribed" \notin flags
    /\ Becomes(Schedule(InputResumes(Lower(State, "holding"))))
    /\ UNCHANGED <<port, posted, native>>
Cancel ==
    /\ "listener" \in flags /\ "unsubscribed" \notin flags
    /\ Becomes(Unsubscribe(State))
    /\ UNCHANGED <<port, posted, native>>

\* The next microtask
Deliver ==
    /\ micro # <<>> /\ Head(micro) = "deliver"
    /\ \E r \in Reactions :
          LET d == Hears([State EXCEPT !.micro = Tail(@), !.buffer = Tail(@)], Head(buffer), r)
          IN  Becomes(Schedule(InputResumes(d)))
    /\ UNCHANGED <<port, posted, native>>
TellDone ==
    /\ micro # <<>> /\ Head(micro) = "done"
    /\ Becomes([Raise(State, {"told"}) EXCEPT !.micro = Tail(@)])
    /\ UNCHANGED <<port, posted, native>>

-----------------------------------------------------------------------------
\* The pump and the session state

BeginClose(d) == Calls(d, {"beginClose"})
\* _handleAsyncError, _handleSpawnFailure
HandleFatal(d) ==
    IF "fatalHandled" \in d.flags THEN d
    ELSE BeginClose(FailLifecycle(Raise(d, {"fatalHandled"})))

SettleClosed(d, kind) == IF kind = "SESSION_CLOSED" THEN Settle(d, "closed", "value") ELSE d
\* Mutant: a second malformed message is dropped whatever it was.
ProtocolErrorOnce(d, kind) ==
    IF "protocolFailed" \in d.flags THEN d
    ELSE BeginClose(SettleClosed(
            CloseAndDiscard(FailLifecycle(Raise(d, {"protocolFailed"}))), kind))
HandleProtocolError(d, kind) ==
    IF "protocolFailed" \in d.flags THEN SettleClosed(d, kind)
    ELSE BeginClose(SettleClosed(
            CloseAndDiscard(FailLifecycle(Raise(d, {"protocolFailed"}))), kind))

HandleNativeEvent(d, m, reaction) ==
    CASE m.kind = "SPAWNED" -> Settle(d, "spawn", "value")
      [] m.kind \in {"SPAWN_FAILED", "ASYNC_ERROR"} -> HandleFatal(d)
      [] m.kind = "OUTPUT" -> AddNativeOutput(d, m.chunk, reaction)
      [] m.kind = "OUTPUT_CLOSED" ->
            IF "outputClosed" \in d.flags THEN d
            ELSE MaybeCompleteDone(HandleNativeClosed(Raise(d, {"outputClosed"})))
      [] m.kind = "PROCESS_EXIT" -> MaybeCompleteDone(Settle(d, "exit", "value"))
      [] m.kind = "SESSION_CLOSED" -> Raise(Settle(d, "closed", "value"), {"pumpClosed"})

HandleMessage ==
    /\ micro = <<>> /\ port # <<>> /\ "pumpClosed" \notin flags
    /\ LET m == Head(port) IN
       \E r \in IF m.kind = "OUTPUT" /\ m.ok /\ Flows(State) THEN Reactions ELSE {"none"} :
          Becomes(IF m.ok THEN HandleNativeEvent(State, m, r)
                  ELSE HandleProtocolError(State, m.kind))
    /\ port' = Tail(port)
    /\ UNCHANGED <<posted, native>>

\* close() up to its await: called by the user, or by the driver's spawn()
Close ==
    /\ fut["spawn"] # "pending" /\ "closing" \notin flags
    /\ Becomes(BeginClose(Raise(State, {"closing"})))
    /\ UNCHANGED <<port, posted, native>>
DriverCloses == fut["spawn"] = "error" /\ Close
\* ... and after it
CloseFinishes ==
    /\ "closing" \in flags /\ "released" \notin flags /\ fut["closed"] # "pending"
    /\ Becomes(Raise(CloseAndDiscard(State), {"released", "pumpClosed"}))
    /\ UNCHANGED <<port, posted, native>>

-----------------------------------------------------------------------------
\* The native session posts its events: each once, the reader's in their order,
\* and nothing after SESSION_CLOSED (SessionContract); else in any order.

Garbled == Cardinality({i \in DOMAIN port : ~port[i].ok})
           + IF "protocolFailed" \in flags THEN 1 ELSE 0
Post(kind, chunk) ==
    \E ok \in {TRUE} \union (IF Garbled < MaxGarbled THEN {FALSE} ELSE {}) :
        port' = Append(port, [kind |-> kind, chunk |-> chunk, ok |-> ok])
Native(kind, step) ==
    /\ step \notin native
    /\ Post(kind, 0) /\ native' = native \union {step}
    /\ UNCHANGED <<dart, posted>>

\* The bootstrap answers, at any moment: the workers run by then, unless the
\* session fails before it has made them, and go on when it failed after that.
Boots == /\ {"up", "failed"} \cap native = {}
         /\ Native("SPAWNED", "up") \/ Native("SPAWN_FAILED", "failed")
\* The thread that reads, which ends the output after the last chunk.
Reading == {"outputClosed", "over"} \cap native = {}
Prints ==
    /\ Reading /\ posted < MaxOutput
    /\ posted - acked < Window
    /\ Post("OUTPUT", posted + 1) /\ posted' = posted + 1
    /\ UNCHANGED <<dart, native>>
Errs         == Reading /\ Native("ASYNC_ERROR", "errored")
ClosesOutput == Reading /\ Native("OUTPUT_CLOSED", "outputClosed")
\* The waiter posts the exit, or that it could not learn it.
Waiting == {"exited", "lost", "over"} \cap native = {}
Exits   == Waiting /\ Native("PROCESS_EXIT", "exited")
Loses   == Waiting /\ Native("ASYNC_ERROR", "lost")
\* The last of them is done; a session that failed may have had none of them.
Ended == \/ "failed" \in native
         \/ {"up", "outputClosed"} \subseteq native /\ {"exited", "lost"} \cap native # {}
\* A failed session ends unasked.
ClosesSession ==
    /\ Ended /\ ("failed" \in native \/ "beginClose" \in flags)
    /\ Native("SESSION_CLOSED", "over")

EndsProgram == "beginClose" \in flags /\ (ClosesOutput \/ Exits)

Next ==
    \/ Listen \/ Pause \/ Resume \/ Cancel
    \/ Deliver \/ TellDone \/ HandleMessage
    \/ Close \/ CloseFinishes
    \/ Boots \/ Prints \/ ClosesOutput \/ Exits \/ Loses \/ Errs \/ ClosesSession

Spec == Init /\ [][Next]_vars

\* The event loop runs its microtasks, messages and awaits; the driver closes
\* what it could not spawn; the native session starts, and ends once it was
\* told to.  The program need not end, nor the listener resume, by itself.
FairSpec ==
    /\ Spec
    /\ WF_vars(Deliver) /\ WF_vars(TellDone) /\ WF_vars(HandleMessage)
    /\ WF_vars(DriverCloses) /\ WF_vars(CloseFinishes)
    /\ WF_vars(Boots) /\ WF_vars(EndsProgram) /\ WF_vars(ClosesSession)

-----------------------------------------------------------------------------
\* Every variable has its type; the buffer and the queue never exceed a window.
TypeOK ==
    /\ fut \in [Futures -> {"pending", "value", "error"}]
    /\ flags \subseteq Flags /\ native \subseteq Steps
    /\ \A q \in {pending, buffer} : q \in Seq(1..MaxOutput) /\ Len(q) <= Window
    /\ heard \in Seq(1..MaxOutput) /\ acked \in 0..MaxOutput /\ posted \in 0..MaxOutput
    /\ micro \in Seq({"deliver", "done"}) /\ Len(micro) <= 2
    /\ port \in Seq([kind : Kinds, chunk : 0..MaxOutput, ok : BOOLEAN])

Outputs == {i \in DOMAIN port : port[i].kind = "OUTPUT"}  \* the chunks in the port
Got     == heard \o buffer \o pending

\* Until the listener cancels or the session is discarded, no chunk is lost,
\* doubled or out of order on its way, whatever pauses and resumes come: the
\* isolate has the first ones, and the port the rest (addNativeOutput, _drain,
\* _handleResume).
NothingLost ==
    {"cancelled", "nativeClosed"} \cap flags = {} =>
        /\ Got = [i \in 1..Len(Got) |-> i]
        /\ {port[i].chunk : i \in Outputs} = Len(Got) + 1 .. posted
        /\ \A i, j \in Outputs : i < j => port[i].chunk < port[j].chunk

\* Every chunk is acknowledged exactly once, or the output is discarded, so
\* that the window never leaks (_acknowledge at each of its calls).
EveryChunkAcked ==
    /\ TypeOK
    /\ "discard" \in flags \/ posted = acked + Cardinality(Outputs) + Len(pending)

\* done completes with the exit only when the output has ended and all of it
\* was given to the listener's subscription, or discarded (_maybeCompleteDone).
DoneMeansOver ==
    fut["done"] = "value" =>
        /\ fut["exit"] = "value" /\ "nativeClosed" \in flags /\ pending = <<>>
        /\ "cancelled" \in flags \/ Len(heard \o buffer) = posted

\* No call reaches the native session after its release, whatever the user
\* does with the output and whatever is still in the port (_close,
\* closeAndDiscard).
NoStrayCall == "stray" \notin flags

\* A close comes to its end, and no future of the session outlives it
\* (_close, _failLifecycle, handleProtocolError); a spawn() that throws closes.
CloseAnswersAll ==
    ("closing" \in flags \/ fut["spawn"] = "error") ~>
        ("released" \in flags /\ \A f \in Futures : fut[f] # "pending")

\* With a listener that does not pause for ever, done completes after the
\* program exited and its output ended (_drain, _maybeCompleteDone).
DoneArrives ==
    <>[]("holding" \notin flags) =>
        ((Ended /\ "listener" \in flags) ~> (fut["done"] # "pending"))

\* "After this future completes, no more output bytes are emitted"
\* (pty_session.dart): who was told of done has heard everything.
DoneMeansDelivered == "told" \in flags => buffer = <<>>
=============================================================================
