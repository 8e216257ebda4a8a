-------------------------- MODULE DartSessionProofs --------------------------
(***************************************************************************)
(* The output and the end of a session on the isolate's side, for every    *)
(* window, number of chunks and of malformed messages: nothing printed is  *)
(* lost, every chunk is acknowledged once, done means over, and no call    *)
(* reaches a released session.                                             *)
(*                                                                         *)
(* The handlers of DartSession transform a record d of the isolate's       *)
(* state, and so the invariant is stated of such a record, of the messages *)
(* p in the port and of the number n of chunks posted; a lemma for each    *)
(* operator says what of it the operator keeps.                            *)
(***************************************************************************)
EXTENDS DartSession, SequenceTheorems, FiniteSetTheorems, TLAPS

FutureStates == {"pending", "value", "error"}
Message == [kind : Kinds, chunk : Nat, ok : BOOLEAN]

Tasks == {"deliver", "done"}

StateType == [fut     : [Futures -> FutureStates],
              flags   : SUBSET Flags,
              pending : Seq(Nat),
              buffer  : Seq(Nat),
              heard   : Seq(Nat),
              acked   : Nat,
              micro   : Seq(Tasks)]

\* A cancelled output is discarded and holds nothing back, a released session
\* is disarmed, and the end is reported once nothing is left.
FlagsOK(d) ==
  /\ "cancelled" \in d.flags => "discard" \in d.flags /\ d.pending = <<>>
  /\ "discard" \in d.flags => "cancelled" \in d.flags
  /\ "disarmed" \in d.flags => "cancelled" \in d.flags
  /\ "released" \in d.flags => {"closing", "disarmed", "pumpClosed"} \subseteq d.flags
  /\ "nativeClosed" \in d.flags => {"cancelled", "outputClosed"} \cap d.flags # {}
  /\ "drained" \in d.flags => "nativeClosed" \in d.flags /\ d.pending = <<>>
  /\ "holding" \in d.flags => "paused" \in d.flags
  /\ "listener" \notin d.flags => d.buffer = <<>>
  /\ "stray" \notin d.flags

\* Both microtasks are queued at most once, and for a reason.
MicroOK(d) ==
  /\ \A i, j \in 1 .. Len(d.micro) : d.micro[i] = d.micro[j] => i = j
  /\ Contains(d.micro, "deliver") => d.buffer # <<>>
  /\ Contains(d.micro, "done") => d.fut["done"] = "value"

\* done waits for the exit, the end of the output and its delivery.
DoneOK(d) ==
  d.fut["done"] = "value" =>
    d.fut["exit"] = "value" /\ {"outputClosed", "drained"} \subseteq d.flags

\* What every operator keeps.
Good(d) == d \in StateType /\ FlagsOK(d) /\ MicroOK(d) /\ DoneOK(d)

\* What holds between the handlers: nothing is pending that could flow, and a
\* buffer is held back or on its way.
FlowOK(d) == Flows(d) => d.pending = <<>>
BufferOK(d) == d.buffer # <<>> => "holding" \in d.flags \/ Contains(d.micro, "deliver")

\* The chunks of q are the ones after the n-th.
Numbered(q, n) == \A i \in 1 .. Len(q) : q[i] = n + i

IsOutput(m) == m.kind = "OUTPUT"

\* The chunks in the port are the last ones posted, in order; the isolate has
\* acknowledged or keeps earlier ones ...
AckOK(d, p, n) ==
  /\ \A i \in 1 .. Len(p) : IsOutput(p[i]) => /\ d.acked + Len(d.pending) < p[i].chunk
                                              /\ p[i].chunk <= n
  /\ \A i, j \in 1 .. Len(p) :
       i < j /\ IsOutput(p[i]) /\ IsOutput(p[j]) => p[i].chunk < p[j].chunk
  /\ d.acked + Len(d.pending) <= n
  /\ n - d.acked <= Window
  /\ Len(d.buffer) <= Window

\* ... and unless the output was cancelled, as it is after a malformed message,
\* all of those, in their order.
WholeOK(d, p, n) ==
  /\ Numbered(d.heard, 0) /\ Numbered(d.buffer, Len(d.heard))
  /\ d.acked = Len(d.heard) + Len(d.buffer)
  /\ Numbered(d.pending, d.acked)
  /\ \A c \in Nat : d.acked + Len(d.pending) < c /\ c <= n =>
       \E i \in 1 .. Len(p) : IsOutput(p[i]) /\ p[i].chunk = c

StreamOK(d, p, n) ==
  /\ AckOK(d, p, n)
  /\ "cancelled" \notin d.flags => "protocolFailed" \notin d.flags /\ WholeOK(d, p, n)

\* Nothing is printed after OUTPUT_CLOSED.
EndOK ==
  /\ "outputClosed" \notin native =>
       /\ \A i \in 1 .. Len(port) : port[i].kind # "OUTPUT_CLOSED"
       /\ "outputClosed" \notin flags
  /\ \A i, j \in 1 .. Len(port) :
       i < j /\ port[i].kind = "OUTPUT_CLOSED" => ~IsOutput(port[j])
  /\ "outputClosed" \in flags => \A i \in 1 .. Len(port) : ~IsOutput(port[i])

PortOK ==
  /\ port \in Seq(Message) /\ posted \in 0 .. MaxOutput /\ native \subseteq Steps
  /\ \A i \in 1 .. Len(port) : port[i].chunk <= MaxOutput

ChunksBounded(d) ==
  \A q \in {d.pending, d.buffer, d.heard} : \A i \in 1 .. Len(q) : q[i] \in 1 .. MaxOutput

\* What holds between the handlers, and all of the invariant.
Sound(d, p, n) ==
  Good(d) /\ FlowOK(d) /\ BufferOK(d) /\ StreamOK(d, p, n) /\ ChunksBounded(d)

IInv == PortOK /\ Sound(State, port, posted) /\ EndOK

-----------------------------------------------------------------------------
(* Futures                                                                 *)

\* What stays when only futures, the microtask of done or "drained" change.
SameOutput(d, e) ==
  e.pending = d.pending /\ e.buffer = d.buffer /\ e.heard = d.heard /\ e.acked = d.acked

Alike(d, e) ==
  /\ SameOutput(d, e)
  /\ e.flags \ {"drained"} = d.flags \ {"drained"}
  /\ Contains(e.micro, "deliver") <=> Contains(d.micro, "deliver")

\* States that differ only in what the isolate still has to run hold the same promises
\* about their chunks.
LEMMA AlikeKeeps ==
  ASSUME NEW d, NEW e, Alike(d, e), NEW p, NEW n
  PROVE  /\ FlowOK(d) => FlowOK(e)
         /\ BufferOK(d) => BufferOK(e)
         /\ StreamOK(d, p, n) => StreamOK(e, p, n)
         /\ ChunksBounded(d) => ChunksBounded(e)
  <1>1. \A f : f # "drained" => (f \in e.flags <=> f \in d.flags)
    BY DEF Alike
  <1>2. FlowOK(d) => FlowOK(e)
    BY <1>1 DEF Alike, SameOutput, FlowOK, Flows
  <1>3. BufferOK(d) => BufferOK(e)
    BY <1>1 DEF Alike, SameOutput, BufferOK
  <1>4. StreamOK(d, p, n) => StreamOK(e, p, n)
    BY <1>1 DEF Alike, SameOutput, StreamOK, AckOK, WholeOK
  <1>5. ChunksBounded(d) => ChunksBounded(e)
    BY DEF Alike, SameOutput, ChunksBounded
  <1> QED
    BY <1>2, <1>3, <1>4, <1>5

\* A microtask that is not queued yet goes behind those that are.
LEMMA QueueTask ==
  ASSUME NEW d \in StateType, MicroOK(d), NEW t \in Tasks, ~Contains(d.micro, t)
  PROVE  LET m == Append(d.micro, t)
         IN  /\ m \in Seq(Tasks)
             /\ \A i, j \in 1 .. Len(m) : m[i] = m[j] => i = j
             /\ \A u \in Tasks : Contains(m, u) <=> Contains(d.micro, u) \/ u = t
  <1> DEFINE m == Append(d.micro, t)
  <1>1. /\ d.micro \in Seq(Tasks) /\ Len(d.micro) \in Nat
        /\ m \in Seq(Tasks) /\ Len(m) = Len(d.micro) + 1
        /\ \A i \in 1 .. Len(d.micro) : m[i] = d.micro[i]
        /\ m[Len(d.micro) + 1] = t
    BY AppendProperties DEF StateType
  <1> HIDE DEF m
  <1>2. \A i, j \in 1 .. Len(m) : m[i] = m[j] => i = j
    BY <1>1 DEF MicroOK, Contains
  <1>3. \A u \in Tasks : Contains(m, u) <=> Contains(d.micro, u) \/ u = t
    BY <1>1 DEF Contains
  <1> QED
    BY <1>1, <1>2, <1>3 DEF m

\* Completing a future keeps the rest; done is told of once.
LEMMA SettleKeeps ==
  ASSUME NEW d, Good(d), NEW f \in Futures, NEW as \in {"value", "error"},
         f = "done" /\ as = "value" =>
           d.fut["exit"] = "value" /\ {"outputClosed", "drained"} \subseteq d.flags
  PROVE  LET e == Settle(d, f, as)
         IN  /\ Good(e) /\ SameOutput(d, e) /\ e.flags = d.flags
             /\ Contains(e.micro, "deliver") <=> Contains(d.micro, "deliver")
  <1> DEFINE e == Settle(d, f, as)
  <1>1. d \in StateType /\ FlagsOK(d) /\ MicroOK(d) /\ DoneOK(d)
    BY DEF Good
  <1>2. CASE d.fut[f] # "pending"
    BY <1>2 DEF Settle, SameOutput
  <1>3. CASE d.fut[f] = "pending" /\ f = "done" /\ as = "value"
    <2> DEFINE m == Append(d.micro, "done")
    <2>1. ~Contains(d.micro, "done")
      BY <1>1, <1>3 DEF MicroOK
    <2>2. /\ m \in Seq(Tasks) /\ \A i, j \in 1 .. Len(m) : m[i] = m[j] => i = j
          /\ \A u \in Tasks : Contains(m, u) <=> Contains(d.micro, u) \/ u = "done"
      BY <1>1, <2>1, QueueTask DEF Tasks
    <2>3. e = [d EXCEPT !.fut["done"] = "value", !.micro = m]
      BY <1>3 DEF Settle
    <2> HIDE DEF m
    <2>4. e \in StateType
      <3> DEFINE g == [d.fut EXCEPT !["done"] = "value"]
      <3>1. g \in [Futures -> FutureStates]
        BY <1>1 DEF StateType, FutureStates
      <3>2. e = [d EXCEPT !.fut = g, !.micro = m]
        BY <2>3
      <3> HIDE DEF g, e
      <3> QED
        BY <1>1, <2>2, <3>1, <3>2 DEF StateType
    <2>5. /\ SameOutput(d, e) /\ e.flags = d.flags /\ e.micro = m
          /\ e.fut["done"] = "value" /\ e.fut["exit"] = d.fut["exit"]
      BY <1>1, <2>3 DEF StateType, Futures, SameOutput
    <2> HIDE DEF e
    <2>6. FlagsOK(e) /\ MicroOK(e) /\ DoneOK(e)
      BY <1>1, <1>3, <2>2, <2>5 DEF FlagsOK, MicroOK, DoneOK, SameOutput, Tasks
    <2> QED
      BY <2>2, <2>4, <2>5, <2>6 DEF Good, Tasks, e
  <1>4. CASE d.fut[f] = "pending" /\ ~(f = "done" /\ as = "value")
    <2>1. e = [d EXCEPT !.fut[f] = as, !.micro = d.micro]
      BY <1>4 DEF Settle
    <2>5. d.fut \in [Futures -> FutureStates] /\ as \in FutureStates /\ d \in StateType
      BY <1>1 DEF StateType, FutureStates
    <2>6. [d.fut EXCEPT ![f] = as] \in [Futures -> FutureStates]
      BY <2>5
    <2>2. e \in StateType
      <3>1. e = [d EXCEPT !.fut = [d.fut EXCEPT ![f] = as], !.micro = d.micro]
        BY <2>1
      <3> HIDE DEF e
      <3> QED
        BY <2>5, <2>6, <3>1 DEF StateType
    <2>3. /\ SameOutput(d, e) /\ e.flags = d.flags /\ e.micro = d.micro
          /\ e.fut["done"] = "value" <=> d.fut["done"] = "value"
          /\ d.fut["exit"] = "value" => e.fut["exit"] = "value"
      BY <1>1, <1>4, <2>1 DEF StateType, Futures, SameOutput
    <2> HIDE DEF e
    <2>4. FlagsOK(e) /\ MicroOK(e) /\ DoneOK(e)
      BY <1>1, <2>3 DEF FlagsOK, MicroOK, DoneOK, SameOutput
    <2> QED
      BY <2>2, <2>3, <2>4 DEF Good, e
  <1> QED
    BY <1>2, <1>3, <1>4

\* _failLifecycle
LEMMA FailLifecycleKeeps ==
  ASSUME NEW d, Good(d)
  PROVE  /\ Good(FailLifecycle(d)) /\ Alike(d, FailLifecycle(d))
         /\ FailLifecycle(d).flags = d.flags
  <1> DEFINE a == Settle(d, "spawn", "error")
             b == Settle(a, "exit", "error")
             c == Settle(b, "done", "error")
  <1>1. Good(a) /\ Alike(d, a) /\ a.flags = d.flags
    BY SettleKeeps DEF Futures, Alike
  <1> HIDE DEF a
  <1>2. Good(b) /\ Alike(a, b) /\ b.flags = a.flags
    BY <1>1, SettleKeeps DEF Futures, Alike
  <1> HIDE DEF b
  <1>3. Good(c) /\ Alike(b, c) /\ c.flags = b.flags
    BY <1>2, SettleKeeps DEF Futures, Alike
  <1> HIDE DEF c
  <1>4. FailLifecycle(d) = c
    BY DEF FailLifecycle, a, b, c
  <1> QED
    BY <1>1, <1>2, <1>3, <1>4 DEF Alike, SameOutput

\* _maybeCompleteDone
LEMMA MaybeCompleteDoneKeeps ==
  ASSUME NEW d, Good(d)
  PROVE  Good(MaybeCompleteDone(d)) /\ Alike(d, MaybeCompleteDone(d))
  BY SettleKeeps DEF MaybeCompleteDone, Futures, Alike, SameOutput

\* Raising and lowering flags
LEMMA FlagSteps ==
  ASSUME NEW d \in StateType, NEW fs \in SUBSET Flags, NEW f \in Flags
  PROVE  LET r == Raise(d, fs)
             l == Lower(d, f)
         IN  /\ r \in StateType /\ SameOutput(d, r) /\ r.micro = d.micro /\ r.fut = d.fut
             /\ r.flags = d.flags \union fs
             /\ l \in StateType /\ SameOutput(d, l) /\ l.micro = d.micro /\ l.fut = d.fut
             /\ l.flags = d.flags \ {f}
  BY DEF StateType, Raise, Lower, SameOutput

\* _notifyDrained
LEMMA NotifyDrainedKeeps ==
  ASSUME NEW d, Good(d)
  PROVE  Good(NotifyDrained(d)) /\ Alike(d, NotifyDrained(d))
  <1>1. CASE ~("nativeClosed" \in d.flags /\ d.pending = <<>> /\ "drained" \notin d.flags)
    BY <1>1 DEF NotifyDrained, Alike, SameOutput
  <1>2. CASE "nativeClosed" \in d.flags /\ d.pending = <<>> /\ "drained" \notin d.flags
    <2> DEFINE r == Raise(d, {"drained"})
    <2>1. /\ r \in StateType /\ SameOutput(d, r) /\ r.micro = d.micro /\ r.fut = d.fut
          /\ r.flags = d.flags \union {"drained"}
      BY FlagSteps DEF Good, Flags
    <2> HIDE DEF r
    <2>2. Alike(d, r)
      BY <2>1 DEF Alike
    <2>3. Good(r)
      BY <1>2, <2>1 DEF Good, FlagsOK, MicroOK, DoneOK, SameOutput
    <2>4. Good(MaybeCompleteDone(r)) /\ Alike(r, MaybeCompleteDone(r))
      BY <2>3, MaybeCompleteDoneKeeps
    <2> QED
      BY <1>2, <2>2, <2>4 DEF NotifyDrained, Alike, SameOutput, r
  <1> QED
    BY <1>1, <1>2

-----------------------------------------------------------------------------
(* Acknowledging, draining and cancelling                                  *)

\* An acknowledgement reaches a live session, or nothing does.
LEMMA AcknowledgeKeeps ==
  ASSUME NEW d, Good(d), NEW n \in Nat
  PROVE  LET e == Acknowledge(d, n)
         IN  /\ Good(e) /\ e.flags = d.flags /\ e.micro = d.micro /\ e.fut = d.fut
             /\ e.pending = d.pending /\ e.buffer = d.buffer /\ e.heard = d.heard
             /\ e.acked = d.acked + (IF "disarmed" \in d.flags THEN 0 ELSE n)
  <1> DEFINE e == Acknowledge(d, n)
  <1>1. CASE n = 0 \/ "disarmed" \in d.flags
    BY <1>1 DEF Acknowledge, Good, StateType
  <1>2. CASE ~(n = 0 \/ "disarmed" \in d.flags)
    <2>1. "released" \notin d.flags
      BY <1>2 DEF Good, FlagsOK
    <2>2. e = [d EXCEPT !.acked = d.acked + n, !.flags = d.flags]
      BY <1>2, <2>1 DEF Acknowledge, Calls, Raise, Good, StateType
    <2> DEFINE k == d.acked + n
    <2> HIDE DEF e
    <2>3. /\ e \in StateType /\ e.flags = d.flags /\ e.micro = d.micro /\ e.fut = d.fut
          /\ e.pending = d.pending /\ e.buffer = d.buffer /\ e.heard = d.heard
          /\ e.acked = k
      <3>1. d \in StateType /\ k \in Nat
        BY DEF Good, StateType
      <3>2. e = [d EXCEPT !.acked = k, !.flags = d.flags]
        BY <2>2
      <3> HIDE DEF k
      <3> QED
        BY <3>1, <3>2 DEF StateType
    <2>4. Good(e)
      BY <2>3 DEF Good, FlagsOK, MicroOK, DoneOK
    <2> QED
      BY <1>2, <2>3, <2>4 DEF e
  <1> QED
    BY <1>1, <1>2

\* A buffer that is not held back is on its way.
LEMMA ScheduleKeeps ==
  ASSUME NEW d, Good(d)
  PROVE  LET e == Schedule(d)
         IN  Good(e) /\ BufferOK(e) /\ SameOutput(d, e) /\ e.flags = d.flags
  <1> DEFINE e == Schedule(d)
             m == Append(d.micro, "deliver")
  <1>1. CASE d.buffer = <<>> \/ "holding" \in d.flags \/ Contains(d.micro, "deliver")
    BY <1>1 DEF Schedule, BufferOK, SameOutput
  <1>2. CASE ~(d.buffer = <<>> \/ "holding" \in d.flags \/ Contains(d.micro, "deliver"))
    <2>1. /\ m \in Seq(Tasks) /\ \A i, j \in 1 .. Len(m) : m[i] = m[j] => i = j
          /\ \A u \in Tasks : Contains(m, u) <=> Contains(d.micro, u) \/ u = "deliver"
      BY <1>2, QueueTask DEF Good, Tasks
    <2>2. e = [d EXCEPT !.micro = m]
      BY <1>2 DEF Schedule
    <2> HIDE DEF m
    <2>3. /\ e \in StateType /\ SameOutput(d, e) /\ e.flags = d.flags /\ e.fut = d.fut
          /\ e.micro = m
      BY <2>1, <2>2 DEF Good, StateType, SameOutput
    <2> HIDE DEF e
    <2>4. FlagsOK(e) /\ DoneOK(e)
      BY <2>3 DEF Good, FlagsOK, DoneOK, SameOutput
    <2>5. MicroOK(e)
      BY <1>2, <2>1, <2>3 DEF Good, MicroOK, SameOutput, Tasks
    <2>6. BufferOK(e)
      BY <2>1, <2>3 DEF BufferOK, Tasks
    <2> QED
      BY <2>3, <2>4, <2>5, <2>6 DEF Good, e
  <1> QED
    BY <1>1, <1>2

\* _drain, called when nothing that flows is buffered any more.
LEMMA DrainKeeps ==
  ASSUME NEW d, Good(d), Flows(d) => d.buffer = <<>>, BufferOK(d), NEW p, NEW n \in Nat,
         StreamOK(d, p, n), ChunksBounded(d)
  PROVE  LET e == Drain(d)
         IN  /\ Good(e) /\ FlowOK(e) /\ BufferOK(e) /\ StreamOK(e, p, n) /\ ChunksBounded(e)
             /\ e.flags \ {"drained"} = d.flags \ {"drained"}
  <1> DEFINE e == Drain(d)
  <1>1. CASE ~Flows(d)
    <2>1. e = NotifyDrained(d)
      BY <1>1 DEF Drain
    <2>2. Good(e) /\ Alike(d, e)
      BY <2>1, NotifyDrainedKeeps
    <2> HIDE DEF e
    <2>3. FlowOK(d)
      BY <1>1 DEF FlowOK
    <2> QED
      BY <2>2, <2>3, AlikeKeeps DEF e, Alike
  <1>2. CASE Flows(d)
    <2> DEFINE a == [d EXCEPT !.buffer = @ \o d.pending, !.pending = <<>>]
               b == Schedule(a)
               c == Acknowledge(b, Len(d.pending))
    <2>1. /\ d \in StateType /\ d.buffer = <<>> /\ "listener" \in d.flags
          /\ "cancelled" \notin d.flags /\ "disarmed" \notin d.flags
          /\ ~Contains(d.micro, "deliver") /\ Len(d.pending) \in Nat
      BY <1>2 DEF Good, Flows, FlagsOK, MicroOK, StateType
    <2>2. d.buffer \o d.pending = d.pending
      BY <2>1, ConcatEmptySeq DEF StateType
    <2>3. a = [d EXCEPT !.buffer = d.pending, !.pending = <<>>]
      BY <2>2
    <2>4. /\ a \in StateType /\ a.buffer = d.pending /\ a.pending = <<>> /\ a.heard = d.heard
          /\ a.acked = d.acked /\ a.micro = d.micro /\ a.flags = d.flags /\ a.fut = d.fut
      BY <2>1, <2>3 DEF StateType
    <2> HIDE DEF a
    <2>5. Good(a)
      BY <2>1, <2>4 DEF Good, FlagsOK, MicroOK, DoneOK
    <2>6. Good(b) /\ BufferOK(b) /\ SameOutput(a, b) /\ b.flags = a.flags
      BY <2>5, ScheduleKeeps
    <2> HIDE DEF b
    <2>7. /\ Good(c) /\ c.flags = b.flags /\ c.micro = b.micro
          /\ c.pending = b.pending /\ c.buffer = b.buffer /\ c.heard = b.heard
          /\ c.acked = b.acked + Len(d.pending)
      BY <2>1, <2>4, <2>6, AcknowledgeKeeps
    <2>8. e = NotifyDrained(c)
      BY <1>2 DEF Drain, a, b
    <2> HIDE DEF c, e
    <2>9. Good(e) /\ Alike(c, e)
      BY <2>7, <2>8, NotifyDrainedKeeps
    <2>10. /\ c.pending = <<>> /\ c.buffer = d.pending /\ c.heard = d.heard
           /\ c.acked = d.acked + Len(d.pending) /\ c.flags = d.flags
      BY <2>4, <2>6, <2>7 DEF SameOutput
    <2>11. FlowOK(c) /\ BufferOK(c) /\ ChunksBounded(c)
      BY <2>6, <2>7, <2>10 DEF FlowOK, BufferOK, ChunksBounded
    <2>12. StreamOK(c, p, n)
      <3>1. /\ d.acked \in Nat /\ Len(d.buffer) = 0 /\ Len(c.pending) = 0
            /\ c.acked + Len(c.pending) = d.acked + Len(d.pending)
        BY <2>1, <2>10 DEF StateType
      <3>2. Window \in Nat
        BY DartSessionAssumption
      <3>3. AckOK(c, p, n)
        BY <2>1, <2>10, <3>1, <3>2 DEF StreamOK, AckOK
      <3>4. WholeOK(c, p, n)
        <4>1. WholeOK(d, p, n) /\ d.acked = Len(d.heard)
          BY <2>1, <3>1 DEF StreamOK, WholeOK, StateType
        <4>2. Numbered(c.heard, 0) /\ Numbered(c.buffer, Len(c.heard)) /\ Numbered(c.pending, c.acked)
          BY <2>10, <3>1, <4>1 DEF WholeOK, Numbered
        <4>3. c.acked = Len(c.heard) + Len(c.buffer)
          BY <2>10, <4>1
        <4> QED
          BY <3>1, <4>1, <4>2, <4>3 DEF WholeOK
      <3> QED
        BY <2>1, <2>10, <3>3, <3>4 DEF StreamOK
    <2> QED
      BY <2>9, <2>10, <2>11, <2>12, AlikeKeeps DEF Alike, e
  <1> QED
    BY <1>1, <1>2

\* What a cancelled output leaves: the pending chunks are acknowledged, those
\* to come are discarded.
LEMMA DiscardSteps ==
  ASSUME NEW d, Good(d)
  PROVE  LET e == DiscardOutput(DropPending(Raise(d, {"cancelled"})))
         IN  /\ e \in StateType /\ e.fut = d.fut /\ e.micro = d.micro
             /\ e.buffer = d.buffer /\ e.heard = d.heard /\ e.pending = <<>>
             /\ e.acked = d.acked + Len(d.pending)
             /\ e.flags = d.flags \union {"cancelled", "discard"}
  <1> DEFINE r == Raise(d, {"cancelled"})
             k == Len(d.pending)
             a == Acknowledge(r, k)
             b == [a EXCEPT !.pending = <<>>]
             e == DiscardOutput(b)
  <1>1. d \in StateType /\ k \in Nat /\ FlagsOK(d)
    BY DEF Good, StateType
  <1>2. /\ r \in StateType /\ SameOutput(d, r) /\ r.micro = d.micro /\ r.fut = d.fut
        /\ r.flags = d.flags \union {"cancelled"}
    BY <1>1, FlagSteps DEF Flags
  <1>3. DropPending(r) = b
    BY <1>2 DEF DropPending, SameOutput
  <1>4. "disarmed" \in d.flags => k = 0 /\ {"cancelled", "discard"} \subseteq d.flags
    BY <1>1 DEF FlagsOK
  <1>5. "disarmed" \notin d.flags => "released" \notin d.flags
    BY <1>1 DEF FlagsOK
  <1> HIDE DEF k, r
  <1>6. /\ a \in StateType /\ a.fut = r.fut /\ a.micro = r.micro /\ a.buffer = r.buffer
        /\ a.heard = r.heard /\ a.acked = r.acked + k /\ a.flags = r.flags
    <2>1. CASE k = 0 \/ "disarmed" \in r.flags
      BY <1>2, <1>4, <2>1 DEF Acknowledge, StateType
    <2>2. CASE ~(k = 0 \/ "disarmed" \in r.flags)
      <3> DEFINE t == r.acked + k
      <3>1. "released" \notin r.flags /\ t \in Nat
        BY <1>1, <1>2, <1>5, <2>2 DEF StateType
      <3>2. a = [r EXCEPT !.acked = t, !.flags = r.flags]
        BY <1>2, <2>2, <3>1 DEF Acknowledge, Calls, Raise, StateType
      <3> HIDE DEF t, a
      <3>3. /\ a \in StateType /\ a.fut = r.fut /\ a.micro = r.micro /\ a.buffer = r.buffer
            /\ a.heard = r.heard /\ a.acked = t /\ a.flags = r.flags
        BY <1>2, <3>1, <3>2 DEF StateType
      <3> QED
        BY <3>3 DEF t, a
    <2> QED
      BY <2>1, <2>2
  <1> HIDE DEF a
  <1>7. /\ b \in StateType /\ b.fut = a.fut /\ b.micro = a.micro /\ b.buffer = a.buffer
        /\ b.heard = a.heard /\ b.acked = a.acked /\ b.flags = a.flags /\ b.pending = <<>>
    <2> DEFINE z == <<>>
    <2>1. a \in StateType /\ z \in Seq(Nat) /\ b = [a EXCEPT !.pending = z]
      BY <1>6
    <2> HIDE DEF z
    <2>2. /\ b \in StateType /\ b.fut = a.fut /\ b.micro = a.micro /\ b.buffer = a.buffer
          /\ b.heard = a.heard /\ b.acked = a.acked /\ b.flags = a.flags /\ b.pending = z
      BY <2>1 DEF StateType
    <2> QED
      BY <2>2 DEF z
  <1> HIDE DEF b
  <1>8. /\ e \in StateType /\ e.fut = b.fut /\ e.micro = b.micro /\ e.buffer = b.buffer
        /\ e.heard = b.heard /\ e.acked = b.acked /\ e.pending = b.pending
        /\ e.flags = b.flags \union {"discard"}
    <2>1. CASE "disarmed" \in b.flags
      BY <1>2, <1>4, <1>6, <1>7, <2>1 DEF DiscardOutput
    <2>2. CASE "disarmed" \notin b.flags
      <3>1. "released" \notin b.flags /\ {"discard"} \in SUBSET Flags
        BY <1>2, <1>5, <1>6, <1>7, <2>2 DEF Flags
      <3>2. e = Raise(b, {"discard"})
        BY <2>2, <3>1 DEF DiscardOutput, Calls
      <3> QED
        BY <1>7, <3>1, <3>2, FlagSteps DEF SameOutput, Flags
    <2> QED
      BY <2>1, <2>2
  <1> HIDE DEF e
  <1>9. DiscardOutput(DropPending(Raise(d, {"cancelled"}))) = e
    BY <1>3 DEF e, r
  <1> QED
    BY <1>2, <1>6, <1>7, <1>8, <1>9 DEF SameOutput, k

\* _handleCancel and closeAndDiscard, from any state between two handlers or
\* after the listener's buffer was dropped.
Discards(d, e, p, n, fs) ==
  /\ Good(e) /\ e.buffer = d.buffer /\ e.heard = d.heard /\ e.pending = <<>>
  /\ e.flags \ {"drained"} = (d.flags \union {"cancelled", "discard"} \union fs) \ {"drained"}
  /\ Contains(e.micro, "deliver") <=> Contains(d.micro, "deliver")
  /\ FlowOK(e) /\ StreamOK(e, p, n)
  /\ BufferOK(d) => BufferOK(e)
  /\ ChunksBounded(d) => ChunksBounded(e)

\* A cancelled subscription, and a closed session, acknowledge the chunks they drop.
LEMMA CancelKeeps ==
  ASSUME NEW d, Good(d), NEW p, NEW n \in Nat, AckOK(d, p, n)
  PROVE  /\ Discards(d, HandleCancel(d), p, n, {})
         /\ Discards(d, CloseAndDiscard(d), p, n, {"disarmed", "nativeClosed"})
  <1> DEFINE a == DiscardOutput(DropPending(Raise(d, {"cancelled"})))
  <1>1. /\ a \in StateType /\ a.fut = d.fut /\ a.micro = d.micro
        /\ a.buffer = d.buffer /\ a.heard = d.heard /\ a.pending = <<>>
        /\ a.acked = d.acked + Len(d.pending)
        /\ a.flags = d.flags \union {"cancelled", "discard"}
    BY DiscardSteps
  <1>2. HandleCancel(d) = NotifyDrained(a)
    BY DEF HandleCancel
  <1>3. CloseAndDiscard(d) = NotifyDrained(Raise(a, {"disarmed", "nativeClosed"}))
    BY DEF CloseAndDiscard
  <1> HIDE DEF a
  <1>4. ASSUME NEW fs \in {{}, {"disarmed", "nativeClosed"}}, NEW b \in StateType,
               SameOutput(a, b), b.fut = a.fut, b.micro = a.micro,
               b.flags = a.flags \union fs
        PROVE  Discards(d, NotifyDrained(b), p, n, fs)
    <2>1. Good(b)
      BY <1>1, <1>4 DEF Good, FlagsOK, MicroOK, DoneOK, SameOutput
    <2> DEFINE e == NotifyDrained(b)
    <2>2. Good(e) /\ Alike(b, e)
      BY <2>1, NotifyDrainedKeeps
    <2>3. FlowOK(b) /\ (BufferOK(d) => BufferOK(b)) /\ (ChunksBounded(d) => ChunksBounded(b))
      BY <1>1, <1>4 DEF FlowOK, BufferOK, ChunksBounded, SameOutput
    <2>4. StreamOK(b, p, n)
      <3>1. /\ d.acked \in Nat /\ Len(d.pending) \in Nat /\ Len(b.pending) = 0
            /\ b.acked = d.acked + Len(d.pending) /\ Len(b.buffer) = Len(d.buffer)
        BY <1>1, <1>4 DEF Good, StateType, SameOutput
      <3>2. Window \in Nat
        BY DartSessionAssumption
      <3>5. b.acked + Len(b.pending) = d.acked + Len(d.pending)
        BY <3>1
      <3>6. n - d.acked <= Window /\ Len(d.buffer) <= Window
        BY DEF AckOK
      <3>7. n - b.acked <= Window /\ Len(b.buffer) <= Window
        BY <3>1, <3>2, <3>6
      <3>3. AckOK(b, p, n)
        BY <3>5, <3>7 DEF AckOK
      <3>4. "cancelled" \in b.flags
        BY <1>1, <1>4
      <3> QED
        BY <3>3, <3>4 DEF StreamOK
    <2> HIDE DEF e
    <2>6. /\ FlowOK(e) /\ StreamOK(e, p, n) /\ (BufferOK(d) => BufferOK(e))
          /\ (ChunksBounded(d) => ChunksBounded(e))
      BY <2>2, <2>3, <2>4, AlikeKeeps
    <2>7. /\ e.buffer = d.buffer /\ e.heard = d.heard /\ e.pending = <<>>
          /\ e.flags \ {"drained"} = (d.flags \union {"cancelled", "discard"} \union fs) \ {"drained"}
          /\ Contains(e.micro, "deliver") <=> Contains(d.micro, "deliver")
      BY <1>1, <1>4, <2>2 DEF Alike, SameOutput
    <2> QED
      BY <2>2, <2>6, <2>7 DEF Discards, e
  <1>5. Discards(d, NotifyDrained(a), p, n, {})
    BY <1>1, <1>4 DEF SameOutput
  <1>6. Discards(d, NotifyDrained(Raise(a, {"disarmed", "nativeClosed"})), p, n,
                 {"disarmed", "nativeClosed"})
    <2> DEFINE b == Raise(a, {"disarmed", "nativeClosed"})
    <2>1. /\ b \in StateType /\ SameOutput(a, b) /\ b.micro = a.micro /\ b.fut = a.fut
          /\ b.flags = a.flags \union {"disarmed", "nativeClosed"}
      <3>1. {"disarmed", "nativeClosed"} \in SUBSET Flags /\ "drained" \in Flags
        BY DEF Flags
      <3> QED
        BY <1>1, <3>1, FlagSteps
    <2> HIDE DEF b
    <2>2. Discards(d, NotifyDrained(b), p, n, {"disarmed", "nativeClosed"})
      BY <2>1, <1>4
    <2> QED
      BY <2>2 DEF b
  <1> QED
    BY <1>2, <1>3, <1>5, <1>6

\* A listener that cancels drops its buffer.
LEMMA UnsubscribeKeeps ==
  ASSUME NEW d, Good(d), NEW p, NEW n \in Nat, AckOK(d, p, n), ChunksBounded(d)
  PROVE  LET e == Unsubscribe(d)
         IN  /\ Sound(e, p, n) /\ e.buffer = <<>> /\ e.pending = <<>>
             /\ e.flags \ {"drained"} =
                  (d.flags \union {"unsubscribed", "cancelled", "discard"}) \ {"drained"}
  <1> DEFINE z == <<>>
             m == IF Contains(d.micro, "done") THEN <<"done">> ELSE <<>>
             a == [d EXCEPT !.buffer = z]
             b == Raise(a, {"unsubscribed"})
             c == [b EXCEPT !.micro = m]
             e == HandleCancel(c)
  <1>1. z \in Seq(Nat) /\ z = <<>> /\ Len(z) = 0 /\ d \in StateType
    BY DEF Good
  <1>2. /\ m \in Seq(Tasks) /\ \A i, j \in 1 .. Len(m) : m[i] = m[j] => i = j
        /\ ~Contains(m, "deliver") /\ (Contains(m, "done") => Contains(d.micro, "done"))
    <2>1. CASE Contains(d.micro, "done")
      <3>1. m = <<"done">> /\ Len(m) = 1 /\ m[1] = "done" /\ m \in Seq(Tasks)
        BY <2>1 DEF Tasks
      <3> QED
        BY <2>1, <3>1 DEF Contains
    <2>2. CASE ~Contains(d.micro, "done")
      <3>1. m = <<>> /\ Len(m) = 0 /\ m \in Seq(Tasks)
        BY <2>2
      <3> QED
        BY <2>2, <3>1 DEF Contains
    <2> QED
      BY <2>1, <2>2
  <1> HIDE DEF z
  <1>3. /\ a \in StateType /\ a.buffer = z /\ a.pending = d.pending /\ a.heard = d.heard
        /\ a.acked = d.acked /\ a.micro = d.micro /\ a.flags = d.flags /\ a.fut = d.fut
    BY <1>1 DEF StateType
  <1> HIDE DEF a
  <1>4. /\ b \in StateType /\ SameOutput(a, b) /\ b.micro = a.micro /\ b.fut = a.fut
        /\ b.flags = a.flags \union {"unsubscribed"}
    <2>1. {"unsubscribed"} \in SUBSET Flags /\ "drained" \in Flags
      BY DEF Flags
    <2> QED
      BY <1>3, <2>1, FlagSteps
  <1>5. Unscheduled(b) = c
    BY <1>3, <1>4 DEF Unscheduled
  <1>6. Unsubscribe(d) = e
    BY <1>5 DEF Unsubscribe, a, b, z
  <1> HIDE DEF b, m
  <1>7. /\ c \in StateType /\ SameOutput(b, c) /\ c.micro = m /\ c.fut = b.fut
        /\ c.flags = b.flags
    BY <1>2, <1>4 DEF StateType, SameOutput
  <1> HIDE DEF c
  <1>8. Good(c)
    BY <1>1, <1>2, <1>3, <1>4, <1>7 DEF Good, FlagsOK, MicroOK, DoneOK, SameOutput
  <1>9. AckOK(c, p, n) /\ ChunksBounded(c)
    <2>1. /\ c.acked = d.acked /\ c.pending = d.pending /\ c.heard = d.heard /\ c.buffer = z
      BY <1>3, <1>4, <1>7 DEF SameOutput
    <2>2. Window \in Nat
      BY DartSessionAssumption
    <2> QED
      BY <1>1, <2>1, <2>2 DEF AckOK, ChunksBounded
  <1>10. Discards(c, e, p, n, {})
    BY <1>8, <1>9, CancelKeeps
  <1> HIDE DEF e
  <1>11. /\ e.buffer = <<>> /\ e.pending = <<>> /\ ~Contains(e.micro, "deliver")
         /\ e.flags \ {"drained"} =
              (d.flags \union {"unsubscribed", "cancelled", "discard"}) \ {"drained"}
    BY <1>1, <1>2, <1>3, <1>4, <1>7, <1>10 DEF Discards, SameOutput
  <1>12. Sound(e, p, n)
    BY <1>9, <1>10, <1>11 DEF Discards, Sound, BufferOK
  <1> QED
    BY <1>6, <1>11, <1>12

\* Raising a flag the output does not look at.
Plain == {"unsubscribed", "fatalHandled", "closing", "pumpClosed", "told", "beginClose"}

\* Flags that say nothing about output leave the promises about it alone.
LEMMA PlainFlags ==
  ASSUME NEW d, Good(d), NEW fs \in SUBSET (Plain \union {"protocolFailed"}),
         NEW p, NEW n
  PROVE  LET r == Raise(d, fs)
         IN  /\ Good(r) /\ r.flags = d.flags \union fs /\ r.fut = d.fut
             /\ r.micro = d.micro /\ SameOutput(d, r)
             /\ AckOK(d, p, n) => AckOK(r, p, n)
             /\ ChunksBounded(d) => ChunksBounded(r)
             /\ BufferOK(d) => BufferOK(r)
             /\ "protocolFailed" \notin fs /\ Sound(d, p, n) => Sound(r, p, n)
  <1> DEFINE r == Raise(d, fs)
  <1>1. fs \in SUBSET Flags /\ "drained" \in Flags /\ d \in StateType
    BY DEF Plain, Flags, Good
  <1>2. /\ r \in StateType /\ SameOutput(d, r) /\ r.micro = d.micro /\ r.fut = d.fut
        /\ r.flags = d.flags \union fs
    BY <1>1, FlagSteps
  <1> HIDE DEF r
  <1>3. \A f \in {"cancelled", "discard", "disarmed", "released", "nativeClosed", "drained",
                  "outputClosed", "holding", "paused", "listener", "stray"} :
          f \in r.flags <=> f \in d.flags
    BY <1>2 DEF Plain
  <1>4. d.flags \subseteq r.flags
    BY <1>2
  <1>5. Good(r)
    BY <1>2, <1>3, <1>4 DEF Good, FlagsOK, MicroOK, DoneOK, SameOutput
  <1>6. /\ AckOK(d, p, n) => AckOK(r, p, n)
        /\ ChunksBounded(d) => ChunksBounded(r)
        /\ BufferOK(d) => BufferOK(r)
    BY <1>2, <1>3 DEF AckOK, ChunksBounded, BufferOK, SameOutput
  <1>7. ASSUME "protocolFailed" \notin fs, Sound(d, p, n) PROVE Sound(r, p, n)
    <2>1. FlowOK(r) /\ BufferOK(r)
      BY <1>2, <1>3, <1>7 DEF Sound, FlowOK, BufferOK, Flows, SameOutput
    <2>2. StreamOK(r, p, n)
      BY <1>2, <1>3, <1>6, <1>7 DEF Sound, StreamOK, WholeOK, SameOutput
    <2> QED
      BY <1>5, <1>6, <1>7, <2>1, <2>2 DEF Sound
  <1> QED
    BY <1>2, <1>5, <1>6, <1>7 DEF r

-----------------------------------------------------------------------------
(* A chunk reaches the listener                                            *)

SameEnd(d, e) ==
  /\ "outputClosed" \in e.flags <=> "outputClosed" \in d.flags
  /\ "disarmed" \in e.flags <=> "disarmed" \in d.flags
  /\ "protocolFailed" \in e.flags <=> "protocolFailed" \in d.flags

\* The listener pauses, in its callback or in a turn of its own.
LEMMA PauseKeeps ==
  ASSUME NEW d, Good(d), NEW p, NEW n
  PROVE  LET e == Raise(d, {"holding", "paused"})
         IN  /\ Good(e) /\ FlowOK(e) /\ SameOutput(d, e) /\ SameEnd(d, e) /\ BufferOK(e)
             /\ "cancelled" \notin e.flags => "cancelled" \notin d.flags
             /\ StreamOK(d, p, n) => StreamOK(e, p, n)
  <1> DEFINE e == Raise(d, {"holding", "paused"})
  <1>1. /\ e \in StateType /\ SameOutput(d, e) /\ e.micro = d.micro /\ e.fut = d.fut
        /\ e.flags = d.flags \union {"holding", "paused"}
    <2>1. {"holding", "paused"} \in SUBSET Flags /\ "drained" \in Flags /\ d \in StateType
      BY DEF Flags, Good
    <2> QED
      BY <2>1, FlagSteps
  <1> HIDE DEF e
  <1>2. Good(e)
    BY <1>1 DEF Good, FlagsOK, MicroOK, DoneOK, SameOutput
  <1>3. FlowOK(e) /\ BufferOK(e) /\ SameEnd(d, e)
    BY <1>1 DEF FlowOK, Flows, BufferOK, SameEnd
  <1>4. StreamOK(d, p, n) => StreamOK(e, p, n)
    BY <1>1 DEF StreamOK, AckOK, WholeOK, SameOutput
  <1> QED
    BY <1>1, <1>2, <1>3, <1>4 DEF e

\* The listener's reaction to a chunk, once it is counted as heard.
LEMMA HearsKeeps ==
  ASSUME NEW d, NEW c, NEW r, NEW h, h = [d EXCEPT !.heard = Append(@, c)], Good(h), FlowOK(h),
         NEW p, NEW n \in Nat, AckOK(h, p, n), ChunksBounded(h)
  PROVE  LET e == Hears(d, c, r)
         IN  /\ Good(e) /\ FlowOK(e) /\ AckOK(e, p, n) /\ ChunksBounded(e)
             /\ BufferOK(h) => BufferOK(e)
             /\ StreamOK(h, p, n) => StreamOK(e, p, n)
             /\ "cancelled" \notin e.flags =>
                  SameOutput(h, e) /\ "cancelled" \notin h.flags
             /\ SameEnd(h, e)
  <1> DEFINE e == Hears(d, c, r)
             Claim(x) ==
               /\ Good(x) /\ FlowOK(x) /\ AckOK(x, p, n) /\ ChunksBounded(x)
               /\ BufferOK(h) => BufferOK(x)
               /\ StreamOK(h, p, n) => StreamOK(x, p, n)
               /\ "cancelled" \notin x.flags => SameOutput(h, x) /\ "cancelled" \notin h.flags
               /\ SameEnd(h, x)
  <1>1. Claim(h)
    BY DEF SameOutput, SameEnd
  <1>2. Claim(Raise(h, {"holding", "paused"}))
    <2> DEFINE x == Raise(h, {"holding", "paused"})
    <2>1. /\ Good(x) /\ FlowOK(x) /\ SameOutput(h, x) /\ SameEnd(h, x) /\ BufferOK(x)
          /\ "cancelled" \notin x.flags => "cancelled" \notin h.flags
          /\ StreamOK(h, p, n) => StreamOK(x, p, n)
      BY PauseKeeps
    <2> HIDE DEF x
    <2>2. AckOK(x, p, n) /\ ChunksBounded(x)
      BY <2>1 DEF AckOK, ChunksBounded, SameOutput
    <2>3. Claim(x)
      BY <2>1, <2>2
    <2> QED
      BY <2>3 DEF x
  <1>3. Claim(Unsubscribe(h))
    <2> DEFINE x == Unsubscribe(h)
    <2>1. /\ Sound(x, p, n)
          /\ x.flags \ {"drained"} =
               (h.flags \union {"unsubscribed", "cancelled", "discard"}) \ {"drained"}
      BY UnsubscribeKeeps
    <2> HIDE DEF x
    <2>2. "cancelled" \in x.flags
      BY <2>1
    <2>3. SameEnd(h, x)
      BY <2>1 DEF SameEnd
    <2>4. Claim(x)
      BY <2>1, <2>2, <2>3 DEF Sound, StreamOK
    <2> QED
      BY <2>4 DEF x
  <1>4. e = Raise(h, {"holding", "paused"}) \/ e = Unsubscribe(h) \/ e = h
    BY DEF Hears
  <1> HIDE DEF e
  <1>5. Claim(e)
    BY <1>1, <1>2, <1>3, <1>4
  <1> QED
    BY <1>5 DEF e

\* _handleResume, and the buffer's next microtask.
LEMMA ResumesKeeps ==
  ASSUME NEW d, Good(d), FlowOK(d), NEW p, NEW n \in Nat, StreamOK(d, p, n), ChunksBounded(d)
  PROVE  LET e == Schedule(InputResumes(d))
         IN  Sound(e, p, n) /\ ("outputClosed" \in e.flags <=> "outputClosed" \in d.flags)
  <1> DEFINE a == InputResumes(d)
             e == Schedule(a)
  <1>1. /\ Good(a) /\ FlowOK(a) /\ StreamOK(a, p, n) /\ ChunksBounded(a)
        /\ "outputClosed" \in a.flags <=> "outputClosed" \in d.flags
    <2>1. CASE ~(d.buffer = <<>> /\ {"paused", "holding"} \cap d.flags = {"paused"})
      BY <2>1 DEF InputResumes
    <2>2. CASE d.buffer = <<>> /\ {"paused", "holding"} \cap d.flags = {"paused"}
      <3> DEFINE l == Lower(d, "paused")
      <3>1. /\ l \in StateType /\ SameOutput(d, l) /\ l.micro = d.micro /\ l.fut = d.fut
            /\ l.flags = d.flags \ {"paused"}
        <4>1. {} \in SUBSET Flags /\ "paused" \in Flags /\ d \in StateType
          BY DEF Flags, Good
        <4> QED
          BY <4>1, FlagSteps
      <3>2. a = Drain(l)
        BY <2>2 DEF InputResumes
      <3> HIDE DEF l
      <3>3. Good(l)
        BY <2>2, <3>1 DEF Good, FlagsOK, MicroOK, DoneOK, SameOutput
      <3>4. BufferOK(l) /\ ChunksBounded(l) /\ l.buffer = <<>>
        BY <2>2, <3>1 DEF BufferOK, ChunksBounded, SameOutput
      <3>5. StreamOK(l, p, n)
        BY <3>1 DEF StreamOK, AckOK, WholeOK, SameOutput
      <3>6. /\ Good(Drain(l)) /\ FlowOK(Drain(l)) /\ StreamOK(Drain(l), p, n)
            /\ ChunksBounded(Drain(l)) /\ Drain(l).flags \ {"drained"} = l.flags \ {"drained"}
        BY <3>3, <3>4, <3>5, DrainKeeps
      <3> HIDE DEF a
      <3>7. Good(a) /\ FlowOK(a) /\ StreamOK(a, p, n) /\ ChunksBounded(a)
        BY <3>2, <3>6
      <3>8. "outputClosed" \in a.flags <=> "outputClosed" \in d.flags
        BY <3>1, <3>2, <3>6
      <3> QED
        BY <3>7, <3>8 DEF a
    <2> QED
      BY <2>1, <2>2
  <1> HIDE DEF a
  <1>2. Good(e) /\ BufferOK(e) /\ SameOutput(a, e) /\ e.flags = a.flags
    BY <1>1, ScheduleKeeps
  <1> HIDE DEF e
  <1>3. FlowOK(e) /\ ChunksBounded(e)
    BY <1>1, <1>2 DEF FlowOK, Flows, ChunksBounded, SameOutput
  <1>4. StreamOK(e, p, n)
    BY <1>1, <1>2 DEF StreamOK, AckOK, WholeOK, SameOutput
  <1> QED
    BY <1>1, <1>2, <1>3, <1>4 DEF Sound, e, a

\* The microtask that takes a chunk from the buffer.
LEMMA DeliverKeeps ==
  ASSUME NEW d, NEW p, NEW n \in Nat, Sound(d, p, n), d.micro # <<>>, Head(d.micro) = "deliver",
         NEW r
  PROVE  LET g == [d EXCEPT !.micro = Tail(@), !.buffer = Tail(@)]
             e == Schedule(InputResumes(Hears(g, Head(d.buffer), r)))
         IN  Sound(e, p, n) /\ ("outputClosed" \in e.flags <=> "outputClosed" \in d.flags)
  <1> DEFINE g == [d EXCEPT !.micro = Tail(@), !.buffer = Tail(@)]
             c == Head(d.buffer)
             h == [g EXCEPT !.heard = Append(@, c)]
             m == Tail(d.micro)
             b == Tail(d.buffer)
             w == Append(d.heard, c)
  <1>1. /\ d \in StateType /\ FlagsOK(d) /\ MicroOK(d) /\ DoneOK(d) /\ FlowOK(d)
        /\ StreamOK(d, p, n) /\ ChunksBounded(d)
        /\ d.micro \in Seq(Tasks) /\ d.buffer \in Seq(Nat) /\ d.heard \in Seq(Nat)
        /\ Len(d.micro) \in Nat /\ d.micro # <<>>
    BY DEF Sound, Good, StateType
  <1>2. d.micro[1] = "deliver" /\ Len(d.micro) >= 1
    BY <1>1, HeadTailProperties, EmptySeq
  <1>3. d.buffer # <<>> /\ "listener" \in d.flags
    BY <1>1, <1>2 DEF MicroOK, Contains, FlagsOK
  <1>4. /\ c \in Nat /\ c = d.buffer[1] /\ Len(d.buffer) \in Nat \ {0}
        /\ b \in Seq(Nat) /\ Len(b) = Len(d.buffer) - 1
        /\ \A i \in 1 .. Len(b) : b[i] = d.buffer[i + 1]
    BY <1>1, <1>3, HeadTailProperties, EmptySeq
  <1>5. /\ m \in Seq(Tasks) /\ Len(m) = Len(d.micro) - 1
        /\ \A i \in 1 .. Len(m) : m[i] = d.micro[i + 1]
    BY <1>1, HeadTailProperties
  <1>6. /\ w \in Seq(Nat) /\ Len(d.heard) \in Nat /\ Len(w) = Len(d.heard) + 1
        /\ w[Len(d.heard) + 1] = c
        /\ \A i \in 1 .. Len(d.heard) : w[i] = d.heard[i]
    <2> HIDE DEF c
    <2> QED
      BY <1>1, <1>4, AppendProperties
  <1> HIDE DEF c, b, m, w
  <1>7. h = [d EXCEPT !.micro = m, !.buffer = b, !.heard = w]
    BY <1>1 DEF StateType, m, b, w
  <1>8. /\ h \in StateType /\ h.micro = m /\ h.buffer = b /\ h.heard = w /\ h.acked = d.acked
        /\ h.pending = d.pending /\ h.flags = d.flags /\ h.fut = d.fut
    <2> HIDE DEF h
    <2> QED
      BY <1>1, <1>4, <1>5, <1>6, <1>7 DEF StateType
  <1>9. Good(h)
    <2> HIDE DEF h
    <2>1. FlagsOK(h) /\ DoneOK(h)
      BY <1>1, <1>3, <1>8 DEF FlagsOK, DoneOK
    <2>2. MicroOK(h)
      <3>1. \A i, j \in 1 .. Len(m) : m[i] = m[j] => i = j
        BY <1>1, <1>5 DEF MicroOK
      <3>2. ~Contains(m, "deliver")
        BY <1>1, <1>2, <1>5 DEF MicroOK, Contains
      <3>3. Contains(m, "done") => Contains(d.micro, "done")
        BY <1>5 DEF Contains
      <3> QED
        BY <1>1, <1>8, <3>1, <3>2, <3>3 DEF MicroOK
    <2> QED
      BY <1>8, <2>1, <2>2 DEF Good
  <1>10. FlowOK(h)
    BY <1>1, <1>8 DEF FlowOK, Flows
  <1>11. ChunksBounded(h)
    <2> HIDE DEF h
    <2>1. \A i \in 1 .. Len(h.heard) : h.heard[i] \in 1 .. MaxOutput
      <3> SUFFICES ASSUME NEW i \in 1 .. Len(h.heard) PROVE h.heard[i] \in 1 .. MaxOutput
        OBVIOUS
      <3>1. c \in 1 .. MaxOutput
        BY <1>1, <1>4 DEF ChunksBounded
      <3>2. i = Len(d.heard) + 1 \/ i \in 1 .. Len(d.heard)
        BY <1>6, <1>8
      <3> QED
        BY <1>1, <1>6, <1>8, <3>1, <3>2 DEF ChunksBounded
    <2>2. \A i \in 1 .. Len(h.buffer) : h.buffer[i] \in 1 .. MaxOutput
      <3> SUFFICES ASSUME NEW i \in 1 .. Len(b) PROVE b[i] \in 1 .. MaxOutput
        BY <1>8
      <3>1. i + 1 \in 1 .. Len(d.buffer) /\ b[i] = d.buffer[i + 1]
        BY <1>4
      <3>2. d.buffer[i + 1] \in 1 .. MaxOutput
        BY <1>1, <3>1 DEF ChunksBounded
      <3> QED
        BY <3>1, <3>2
    <2> QED
      BY <1>1, <1>8, <2>1, <2>2 DEF ChunksBounded
  <1>12. StreamOK(h, p, n)
    <2> HIDE DEF h
    <2>1. Window \in Nat /\ d.acked \in Nat
      BY <1>1, DartSessionAssumption DEF StateType
    <2>2. AckOK(h, p, n)
      BY <1>1, <1>4, <1>8, <2>1 DEF StreamOK, AckOK
    <2>3. ASSUME "cancelled" \notin d.flags PROVE WholeOK(h, p, n)
      <3>1. WholeOK(d, p, n)
        BY <1>1, <2>3 DEF StreamOK
      <3>2. c = Len(d.heard) + 1
        BY <1>4, <3>1 DEF WholeOK, Numbered
      <3>3. Numbered(h.heard, 0)
        <4>1. Numbered(d.heard, 0)
          BY <3>1 DEF WholeOK
        <4> SUFFICES ASSUME NEW i \in 1 .. Len(w) PROVE w[i] = 0 + i
          BY <1>8 DEF Numbered
        <4>2. i \in Nat /\ (i = Len(d.heard) + 1 \/ i \in 1 .. Len(d.heard))
          BY <1>6
        <4>3. ASSUME i \in 1 .. Len(d.heard) PROVE w[i] = 0 + i
          <5>1. w[i] = d.heard[i]
            BY <1>6, <4>3
          <5> QED
            BY <4>1, <4>3, <5>1 DEF Numbered
        <4>4. ASSUME i = Len(d.heard) + 1 PROVE w[i] = 0 + i
          <5>1. w[i] = i
            BY <1>6, <3>2, <4>4
          <5> QED
            BY <4>2, <5>1
        <4> QED
          BY <4>2, <4>3, <4>4
      <3>4. Numbered(h.buffer, Len(h.heard))
        <4>1. Numbered(d.buffer, Len(d.heard))
          BY <3>1 DEF WholeOK
        <4> SUFFICES ASSUME NEW i \in 1 .. Len(b) PROVE b[i] = Len(w) + i
          BY <1>8 DEF Numbered
        <4>2. i + 1 \in 1 .. Len(d.buffer) /\ b[i] = d.buffer[i + 1]
          BY <1>4
        <4>3. d.buffer[i + 1] = Len(d.heard) + (i + 1)
          BY <4>1, <4>2 DEF Numbered
        <4> DEFINE x == Len(d.heard)
        <4>4. Len(w) = x + 1 /\ x \in Nat /\ i \in Nat
          BY <1>4, <1>6
        <4> HIDE DEF x
        <4>5. x + (i + 1) = (x + 1) + i
          BY <4>4
        <4> QED
          BY <4>2, <4>3, <4>4, <4>5 DEF x
      <3>5. h.acked = Len(h.heard) + Len(h.buffer)
        <4>1. d.acked = Len(d.heard) + Len(d.buffer)
          BY <3>1 DEF WholeOK
        <4> DEFINE x == Len(d.heard)
                   y == Len(d.buffer)
        <4>2. Len(w) = x + 1 /\ Len(b) = y - 1 /\ x \in Nat /\ y \in Nat /\ d.acked = x + y
          BY <1>4, <1>6, <4>1
        <4> HIDE DEF x, y
        <4>3. x + y = (x + 1) + (y - 1)
          BY <4>2
        <4>4. d.acked = Len(w) + Len(b)
          BY <4>2, <4>3
        <4> QED
          BY <1>8, <4>4
      <3> QED
        BY <1>8, <3>1, <3>3, <3>4, <3>5 DEF WholeOK
    <2> QED
      BY <1>1, <1>8, <2>2, <2>3 DEF StreamOK
  <1> DEFINE a == Hears(g, c, r)
  <1>13. /\ Good(a) /\ FlowOK(a) /\ StreamOK(a, p, n) /\ ChunksBounded(a)
         /\ "outputClosed" \in a.flags <=> "outputClosed" \in h.flags
    <2> HIDE DEF g
    <2>1. AckOK(h, p, n)
      BY <1>12 DEF StreamOK
    <2> DEFINE k == h
    <2>2. k = [g EXCEPT !.heard = Append(@, c)] /\ Good(k) /\ FlowOK(k) /\ StreamOK(k, p, n)
          /\ AckOK(k, p, n) /\ ChunksBounded(k)
      BY <1>9, <1>10, <1>11, <1>12, <2>1
    <2> HIDE DEF k
    <2> QED
      BY <2>2, HearsKeeps DEF k, SameEnd
  <1> HIDE DEF a, h
  <1>14. LET e == Schedule(InputResumes(a))
         IN  Sound(e, p, n) /\ ("outputClosed" \in e.flags <=> "outputClosed" \in a.flags)
    BY <1>13, ResumesKeeps
  <1> QED
    BY <1>8, <1>13, <1>14 DEF a, c

-----------------------------------------------------------------------------
(* A message leaves the port                                               *)

\* The rest of a queue of messages.
LEMMA TailOf ==
  ASSUME NEW p \in Seq(Message), p # <<>>
  PROVE  /\ Tail(p) \in Seq(Message) /\ Len(p) \in Nat \ {0} /\ Len(Tail(p)) = Len(p) - 1
         /\ Head(p) = p[1] /\ Head(p) \in Message
         /\ \A i \in 1 .. Len(Tail(p)) : i + 1 \in 1 .. Len(p) /\ Tail(p)[i] = p[i + 1]
  BY HeadTailProperties, EmptySeq

\* One that carries no chunk, or one that nobody has to hear any more.
LEMMA SkipKeeps ==
  ASSUME NEW d, NEW p \in Seq(Message), p # <<>>, NEW n \in Nat, StreamOK(d, p, n),
         ~IsOutput(Head(p)) \/ "cancelled" \in d.flags
  PROVE  StreamOK(d, Tail(p), n)
  <1> DEFINE q == Tail(p)
  <1>1. /\ q \in Seq(Message) /\ Len(p) \in Nat \ {0} /\ Len(q) = Len(p) - 1
        /\ Head(p) = p[1] /\ Head(p) \in Message
        /\ \A i \in 1 .. Len(q) : i + 1 \in 1 .. Len(p) /\ q[i] = p[i + 1]
    BY TailOf
  <1> HIDE DEF q
  <1>2. AckOK(d, q, n)
    <2>. AckOK(d, p, n)
      BY DEF StreamOK
    <2>1. \A i \in 1 .. Len(q) : IsOutput(q[i]) => /\ d.acked + Len(d.pending) < q[i].chunk
                                                  /\ q[i].chunk <= n
      BY <1>1 DEF AckOK
    <2>2. \A i, j \in 1 .. Len(q) :
            i < j /\ IsOutput(q[i]) /\ IsOutput(q[j]) => q[i].chunk < q[j].chunk
      <3> SUFFICES ASSUME NEW i \in 1 .. Len(q), NEW j \in 1 .. Len(q), i < j,
                          IsOutput(q[i]), IsOutput(q[j])
                   PROVE  q[i].chunk < q[j].chunk
        OBVIOUS
      <3>1. i + 1 \in 1 .. Len(p) /\ j + 1 \in 1 .. Len(p) /\ i + 1 < j + 1
        BY <1>1
      <3> QED
        BY <1>1, <3>1 DEF AckOK
    <2> QED
      BY <2>1, <2>2 DEF AckOK
  <1>3. ASSUME "cancelled" \notin d.flags PROVE WholeOK(d, q, n)
    <2>1. WholeOK(d, p, n) /\ ~IsOutput(p[1])
      BY <1>1, <1>3 DEF StreamOK
    <2>2. ASSUME NEW c \in Nat, d.acked + Len(d.pending) < c, c <= n
          PROVE  \E i \in 1 .. Len(q) : IsOutput(q[i]) /\ q[i].chunk = c
      <3>1. PICK k \in 1 .. Len(p) : IsOutput(p[k]) /\ p[k].chunk = c
        BY <2>1, <2>2 DEF WholeOK
      <3>2. k # 1
        BY <2>1, <3>1
      <3>3. k - 1 \in 1 .. Len(q) /\ (k - 1) + 1 = k
        BY <1>1, <3>1, <3>2
      <3>4. q[k - 1] = p[k]
        BY <1>1, <3>3
      <3> QED
        BY <3>1, <3>3, <3>4
    <2> QED
      BY <2>1, <2>2 DEF WholeOK
  <1> QED
    BY <1>2, <1>3 DEF StreamOK, q

\* One chunk is taken, and kept or acknowledged.
LEMMA TakenKeeps ==
  ASSUME NEW d \in StateType, NEW e \in StateType, NEW p \in Seq(Message), p # <<>>,
         NEW n \in Nat, AckOK(d, p, n), IsOutput(Head(p)), Len(e.buffer) <= Window,
         d.acked <= e.acked,
         e.acked + Len(e.pending) <= d.acked + Len(d.pending) + 1
  PROVE  AckOK(e, Tail(p), n)
  <1> DEFINE q == Tail(p)
  <1>1. /\ q \in Seq(Message) /\ Len(p) \in Nat \ {0} /\ Len(q) = Len(p) - 1
        /\ Head(p) = p[1] /\ Head(p) \in Message
        /\ \A i \in 1 .. Len(q) : i + 1 \in 1 .. Len(p) /\ q[i] = p[i + 1]
    BY TailOf
  <1>2. \A i \in 1 .. Len(p) : p[i] \in Message /\ p[i].chunk \in Nat
    <2>1. \A i \in 1 .. Len(p) : p[i] \in Message
      BY ElementOfSeq
    <2> QED
      BY <2>1 DEF Message
  <1> HIDE DEF q
  <1> DEFINE x == d.acked + Len(d.pending)
             y == e.acked + Len(e.pending)
  <1>3. x \in Nat /\ y \in Nat /\ y <= x + 1 /\ d.acked \in Nat /\ e.acked \in Nat
        /\ Window \in Nat
    <2>1. d.acked \in Nat /\ e.acked \in Nat /\ d.pending \in Seq(Nat) /\ e.pending \in Seq(Nat)
      BY DEF StateType
    <2>2. x \in Nat
      BY <2>1, LenProperties
    <2>3. y \in Nat
      BY <2>1, LenProperties
    <2>4. Window \in Nat
      BY DartSessionAssumption
    <2>5. y <= x + 1
      OBVIOUS
    <2> QED
      BY <2>1, <2>2, <2>3, <2>4, <2>5
  <1>4. x < p[1].chunk /\ p[1].chunk <= n
    BY <1>1 DEF AckOK
  <1>5. ASSUME NEW i \in 1 .. Len(q), IsOutput(q[i]) PROVE y < q[i].chunk /\ q[i].chunk <= n
    <2>1. i + 1 \in 1 .. Len(p) /\ q[i] = p[i + 1] /\ 1 < i + 1 /\ 1 \in 1 .. Len(p)
      BY <1>1
    <2>2. p[1].chunk < p[i + 1].chunk /\ p[i + 1].chunk <= n
      BY <1>1, <1>5, <2>1 DEF AckOK
    <2>3. p[1].chunk \in Nat /\ p[i + 1].chunk \in Nat
      BY <1>2, <2>1
    <2> HIDE DEF x, y
    <2> QED
      BY <1>3, <1>4, <2>1, <2>2, <2>3
  <1>6. y <= n
    <2>1. p[1].chunk \in Nat
      BY <1>1, <1>2
    <2> HIDE DEF x, y
    <2> QED
      BY <1>3, <1>4, <2>1
  <1>7. \A i, j \in 1 .. Len(q) :
          i < j /\ IsOutput(q[i]) /\ IsOutput(q[j]) => q[i].chunk < q[j].chunk
    <2>1. \A i, j \in 1 .. Len(p) :
            i < j /\ IsOutput(p[i]) /\ IsOutput(p[j]) => p[i].chunk < p[j].chunk
      BY DEF AckOK
    <2>2. ASSUME NEW i \in 1 .. Len(q), NEW j \in 1 .. Len(q), i < j,
                 IsOutput(q[i]), IsOutput(q[j])
          PROVE  q[i].chunk < q[j].chunk
      <3>1. i + 1 \in 1 .. Len(p) /\ q[i] = p[i + 1]
        BY <1>1
      <3>2. j + 1 \in 1 .. Len(p) /\ q[j] = p[j + 1]
        BY <1>1
      <3>3. i + 1 < j + 1
        BY <2>2
      <3>4. p[i + 1].chunk < p[j + 1].chunk
        BY <2>1, <2>2, <3>1, <3>2, <3>3
      <3> QED
        BY <3>1, <3>2, <3>4
    <2> QED
      BY <2>2
  <1>8. n - e.acked <= Window
    BY <1>3 DEF AckOK
  <1> QED
    BY <1>5, <1>6, <1>7, <1>8 DEF AckOK, q

\* A chunk goes behind those that are there.
LEMMA AppendChunk ==
  ASSUME NEW s \in Seq(Nat), NEW c \in Nat
  PROVE  LET w == Append(s, c)
         IN  /\ w \in Seq(Nat) /\ Len(s) \in Nat /\ Len(w) = Len(s) + 1
             /\ \A k \in Nat : Numbered(s, k) /\ c = k + Len(s) + 1 => Numbered(w, k)
             /\ c \in 1 .. MaxOutput /\ (\A i \in 1 .. Len(s) : s[i] \in 1 .. MaxOutput)
                  => \A i \in 1 .. Len(w) : w[i] \in 1 .. MaxOutput
  <1> DEFINE w == Append(s, c)
             l == Len(s)
  <1>1. /\ w \in Seq(Nat) /\ l \in Nat /\ Len(w) = l + 1 /\ w[l + 1] = c
        /\ \A i \in 1 .. l : w[i] = s[i]
    BY AppendProperties
  <1> HIDE DEF w, l
  <1>2. \A i \in 1 .. Len(w) : i = l + 1 \/ i \in 1 .. l
    BY <1>1
  <1>3. ASSUME NEW k \in Nat, \A i \in 1 .. l : s[i] = k + i, c = k + l + 1
        PROVE  \A i \in 1 .. Len(w) : w[i] = k + i
    <2> SUFFICES ASSUME NEW i \in 1 .. Len(w) PROVE w[i] = k + i
      OBVIOUS
    <2>1. CASE i = l + 1
      BY <1>1, <1>3, <2>1
    <2>2. CASE i \in 1 .. l
      BY <1>1, <1>3, <2>2
    <2> QED
      BY <1>2, <2>1, <2>2
  <1>4. ASSUME c \in 1 .. MaxOutput, \A i \in 1 .. l : s[i] \in 1 .. MaxOutput
        PROVE  \A i \in 1 .. Len(w) : w[i] \in 1 .. MaxOutput
    BY <1>1, <1>2, <1>4
  <1> QED
    BY <1>1, <1>3, <1>4 DEF Numbered, w, l

\* Of an output that was not cancelled the next chunk comes next.
LEMMA HeadIsNext ==
  ASSUME NEW d \in StateType, NEW p \in Seq(Message), p # <<>>, NEW n \in Nat,
         AckOK(d, p, n), WholeOK(d, p, n), IsOutput(Head(p))
  PROVE  LET x == d.acked + Len(d.pending)
         IN  /\ Head(p).chunk = x + 1
             /\ \A c \in Nat : x + 1 < c /\ c <= n =>
                  \E i \in 1 .. Len(Tail(p)) : IsOutput(Tail(p)[i]) /\ Tail(p)[i].chunk = c
  <1> DEFINE q == Tail(p)
             x == d.acked + Len(d.pending)
  <1>1. /\ q \in Seq(Message) /\ Len(p) \in Nat \ {0} /\ Len(q) = Len(p) - 1
        /\ Head(p) = p[1] /\ Head(p) \in Message
        /\ \A i \in 1 .. Len(q) : i + 1 \in 1 .. Len(p) /\ q[i] = p[i + 1]
    BY TailOf
  <1>2. x \in Nat /\ x < p[1].chunk /\ p[1].chunk <= n /\ p[1].chunk \in Nat
    BY <1>1 DEF AckOK, StateType, Message
  <1>3. \A c \in Nat : x < c /\ c <= n => \E i \in 1 .. Len(p) : IsOutput(p[i]) /\ p[i].chunk = c
    BY DEF WholeOK
  <1> HIDE DEF q, x
  <1>4. p[1].chunk = x + 1
    <2>1. PICK k \in 1 .. Len(p) : IsOutput(p[k]) /\ p[k].chunk = x + 1
      BY <1>2, <1>3
    <2>2. CASE k = 1
      BY <2>1, <2>2
    <2>3. CASE k # 1
      <3>1. 1 < k /\ 1 \in 1 .. Len(p)
        BY <1>1, <2>3
      <3>2. p[1].chunk < p[k].chunk
        BY <1>1, <2>1, <3>1 DEF AckOK
      <3> QED
        BY <1>2, <2>1, <3>2
    <2> QED
      BY <2>2, <2>3
  <1>5. ASSUME NEW c \in Nat, x + 1 < c, c <= n
        PROVE  \E i \in 1 .. Len(q) : IsOutput(q[i]) /\ q[i].chunk = c
    <2>1. x < c
      BY <1>2, <1>5
    <2>2. PICK k \in 1 .. Len(p) : IsOutput(p[k]) /\ p[k].chunk = c
      BY <1>3, <1>5, <2>1
    <2>3. k # 1
      BY <1>2, <1>4, <1>5, <2>2
    <2>4. k - 1 \in 1 .. Len(q) /\ (k - 1) + 1 = k
      BY <1>1, <2>2, <2>3
    <2> QED
      BY <1>1, <2>2, <2>4
  <1> QED
    BY <1>1, <1>4, <1>5 DEF q, x

\* addNativeOutput, between two handlers.
LEMMA OutputKeeps ==
  ASSUME NEW d, NEW p \in Seq(Message), p # <<>>, NEW n \in Nat, Sound(d, p, n),
         IsOutput(Head(p)), Head(p).chunk <= MaxOutput,
         d.micro = <<>>, "outputClosed" \notin d.flags, NEW r
  PROVE  LET e == AddNativeOutput(d, Head(p).chunk, r)
         IN  Sound(e, Tail(p), n) /\ "outputClosed" \notin e.flags
  <1> DEFINE c == Head(p).chunk
             q == Tail(p)
             e == AddNativeOutput(d, c, r)
  <1>1. /\ d \in StateType /\ Good(d) /\ FlagsOK(d) /\ MicroOK(d) /\ DoneOK(d) /\ FlowOK(d)
        /\ BufferOK(d) /\ StreamOK(d, p, n) /\ ChunksBounded(d)
        /\ d.acked \in Nat /\ Len(d.pending) \in Nat /\ Window \in Nat /\ MaxOutput \in Nat
    BY DartSessionAssumption DEF Sound, Good, StateType
  <1>2. AckOK(d, p, n) /\ Len(d.buffer) <= Window
    BY <1>1 DEF StreamOK, AckOK
  <1>3. c \in 1 .. MaxOutput
    <2>1. c \in Nat /\ 1 \in 1 .. Len(p) /\ Head(p) = p[1] /\ d.acked + Len(d.pending) \in Nat
      <3>1. Head(p) \in Message /\ Head(p) = p[1] /\ Len(p) \in Nat \ {0}
        BY TailOf
      <3>2. Head(p).chunk \in Nat
        BY <3>1 DEF Message
      <3> QED
        BY <1>1, <3>1, <3>2
    <2>2. d.acked + Len(d.pending) < c /\ c <= MaxOutput
      BY <1>2, <2>1 DEF AckOK
    <2> HIDE DEF c
    <2> QED
      BY <1>1, <2>1, <2>2
  <1> HIDE DEF c, q
  <1>4. CASE {"cancelled", "nativeClosed"} \cap d.flags # {}
    <2>1. "cancelled" \in d.flags
      BY <1>1, <1>4 DEF FlagsOK
    <2>2. e = Acknowledge(d, 1)
      BY <1>4 DEF AddNativeOutput
    <2> HIDE DEF e
    <2>3. /\ Good(e) /\ e.flags = d.flags /\ e.micro = d.micro /\ e.fut = d.fut
          /\ e.pending = d.pending /\ e.buffer = d.buffer /\ e.heard = d.heard
          /\ e.acked = d.acked + (IF "disarmed" \in d.flags THEN 0 ELSE 1)
      BY <1>1, <2>2, AcknowledgeKeeps
    <2>4. FlowOK(e) /\ BufferOK(e) /\ ChunksBounded(e)
      BY <1>1, <2>3 DEF FlowOK, Flows, BufferOK, ChunksBounded
    <2>5. AckOK(e, q, n)
      <3>1. e \in StateType /\ d.acked <= e.acked
            /\ e.acked + Len(e.pending) <= d.acked + Len(d.pending) + 1
        BY <1>1, <2>3 DEF Good
      <3> QED
        BY <1>1, <1>2, <2>3, <3>1, TakenKeeps DEF q
    <2>6. StreamOK(e, q, n)
      BY <2>1, <2>3, <2>5 DEF StreamOK
    <2> QED
      BY <2>3, <2>4, <2>6 DEF Sound, c, q, e
  <1>5. CASE {"cancelled", "nativeClosed"} \cap d.flags = {} /\ ~Flows(d)
    <2> DEFINE w == Append(d.pending, c)
               y == Len(d.pending)
    <2>1. /\ w \in Seq(Nat) /\ y \in Nat /\ Len(w) = y + 1
          /\ \A k \in Nat : Numbered(d.pending, k) /\ c = k + y + 1 => Numbered(w, k)
          /\ (\A i \in 1 .. Len(d.pending) : d.pending[i] \in 1 .. MaxOutput)
               => \A i \in 1 .. Len(w) : w[i] \in 1 .. MaxOutput
      BY <1>1, <1>3, AppendChunk DEF StateType
    <2>0. d.acked \in Nat /\ d.acked + (y + 1) = (d.acked + y) + 1 /\ d.acked <= d.acked
      <3>1. d.acked \in Nat /\ y \in Nat
        BY <1>1, <2>1
      <3> HIDE DEF y, w, e
      <3> QED
        BY <3>1
    <2> HIDE DEF w
    <2>2. e = [d EXCEPT !.pending = w]
      BY <1>5 DEF AddNativeOutput, w
    <2> HIDE DEF e
    <2>3. /\ e \in StateType /\ e.flags = d.flags /\ e.micro = d.micro /\ e.fut = d.fut
          /\ e.pending = w /\ e.buffer = d.buffer /\ e.heard = d.heard /\ e.acked = d.acked
      BY <1>1, <2>1, <2>2 DEF StateType
    <2>4. Good(e)
      BY <1>1, <1>5, <2>3 DEF Good, FlagsOK, MicroOK, DoneOK
    <2>5. FlowOK(e) /\ BufferOK(e)
      BY <1>1, <1>5, <2>3 DEF FlowOK, Flows, BufferOK
    <2>6. ChunksBounded(e)
      <3>1. \A i \in 1 .. Len(w) : w[i] \in 1 .. MaxOutput
        BY <1>1, <2>1 DEF ChunksBounded
      <3> QED
        BY <1>1, <2>3, <3>1 DEF ChunksBounded
    <2>7. AckOK(e, q, n)
      <3>1. /\ e.acked + Len(e.pending) = (d.acked + y) + 1 /\ e.acked = d.acked
            /\ d.acked + y \in Nat
        BY <2>1, <2>3, <2>0
      <3>2. /\ Len(e.buffer) <= Window /\ d.acked <= e.acked
            /\ e.acked + Len(e.pending) <= d.acked + Len(d.pending) + 1
        BY <1>2, <2>3, <2>0, <3>1
      <3> QED
        BY <1>1, <1>2, <2>3, <3>2, TakenKeeps DEF q
    <2>8. WholeOK(e, q, n) /\ "protocolFailed" \notin e.flags
      <3>1. WholeOK(d, p, n) /\ "protocolFailed" \notin d.flags
        BY <1>1, <1>5 DEF StreamOK
      <3> DEFINE x == d.acked + Len(d.pending)
      <3>2. /\ c = x + 1
            /\ \A k \in Nat : x + 1 < k /\ k <= n => \E i \in 1 .. Len(q) : IsOutput(q[i]) /\ q[i].chunk = k
        BY <1>1, <1>2, <3>1, HeadIsNext DEF c, q
      <3>3. e.acked + Len(e.pending) = x + 1
        BY <2>1, <2>3, <2>0
      <3>4. Numbered(e.pending, e.acked)
        <4>1. Numbered(d.pending, d.acked)
          BY <3>1 DEF WholeOK
        <4> QED
          BY <1>1, <2>1, <2>3, <3>2, <4>1
      <3> HIDE DEF x
      <3> QED
        BY <2>3, <3>1, <3>2, <3>3, <3>4 DEF WholeOK
    <2> QED
      BY <2>3, <2>4, <2>5, <2>6, <2>7, <2>8 DEF Sound, StreamOK, c, q, e
  <1>6. CASE {"cancelled", "nativeClosed"} \cap d.flags = {} /\ Flows(d)
    <2> DEFINE w == Append(d.heard, c)
               h == [d EXCEPT !.heard = Append(@, c)]
               a == Hears(d, c, r)
    <2>1. /\ w \in Seq(Nat) /\ Len(d.heard) \in Nat /\ Len(w) = Len(d.heard) + 1
          /\ \A k \in Nat : Numbered(d.heard, k) /\ c = k + Len(d.heard) + 1 => Numbered(w, k)
          /\ (\A i \in 1 .. Len(d.heard) : d.heard[i] \in 1 .. MaxOutput)
               => \A i \in 1 .. Len(w) : w[i] \in 1 .. MaxOutput
      <3>1. d.heard \in Seq(Nat) /\ c \in Nat
        BY <1>1, <1>3 DEF StateType
      <3> HIDE DEF a, e, h
      <3> QED
        BY <1>3, <3>1, AppendChunk
    <2> HIDE DEF w
    <2>2. h = [d EXCEPT !.heard = w]
      BY DEF w
    <2> DEFINE k == h
    <2>3. k = [d EXCEPT !.heard = w] /\ k = [d EXCEPT !.heard = Append(@, c)]
      BY <2>2
    <2> HIDE DEF k
    <2>4. /\ k \in StateType /\ k.flags = d.flags /\ k.micro = d.micro /\ k.fut = d.fut
          /\ k.pending = d.pending /\ k.buffer = d.buffer /\ k.heard = w /\ k.acked = d.acked
      BY <1>1, <2>1, <2>3 DEF StateType
    <2>5. Good(k) /\ FlowOK(k) /\ BufferOK(k) /\ AckOK(k, p, n)
      BY <1>1, <1>2, <2>4
      DEF Good, FlagsOK, MicroOK, DoneOK, FlowOK, Flows, BufferOK, AckOK
    <2>6. ChunksBounded(k)
      <3>1. \A i \in 1 .. Len(w) : w[i] \in 1 .. MaxOutput
        BY <1>1, <2>1 DEF ChunksBounded
      <3> QED
        BY <1>1, <2>4, <3>1 DEF ChunksBounded
    <2>7. /\ Good(a) /\ FlowOK(a) /\ BufferOK(a) /\ AckOK(a, p, n) /\ ChunksBounded(a)
          /\ "cancelled" \notin a.flags => SameOutput(k, a)
          /\ SameEnd(k, a)
      <3> HIDE DEF e, h
      <3>1. k = [d EXCEPT !.heard = Append(@, c)]
        BY <2>3
      <3>2. Good(k) /\ FlowOK(k) /\ BufferOK(k) /\ AckOK(k, p, n) /\ ChunksBounded(k)
        BY <2>5, <2>6
      <3> QED
        BY <3>1, <3>2, HearsKeeps
    <2> HIDE DEF a
    <2>8. e = Acknowledge(a, 1)
      BY <1>6 DEF AddNativeOutput, a
    <2> HIDE DEF e
    <2>9. "disarmed" \notin a.flags /\ "protocolFailed" \notin a.flags
      BY <1>1, <1>6, <2>4, <2>7 DEF FlagsOK, StreamOK, SameEnd
    <2>10. /\ Good(e) /\ e.flags = a.flags /\ e.micro = a.micro /\ e.fut = a.fut
           /\ e.pending = a.pending /\ e.buffer = a.buffer /\ e.heard = a.heard
           /\ e.acked = a.acked + 1
      BY <2>7, <2>8, <2>9, AcknowledgeKeeps
    <2>11. FlowOK(e) /\ BufferOK(e) /\ ChunksBounded(e)
      BY <2>7, <2>10 DEF FlowOK, Flows, BufferOK, ChunksBounded
    <2>12. AckOK(e, q, n)
      <3>1. /\ a \in StateType /\ e \in StateType /\ a.acked \in Nat /\ Len(a.pending) \in Nat
            /\ Len(a.buffer) <= Window
        BY <2>7, <2>10 DEF Good, StateType, AckOK
      <3>2. Len(e.buffer) <= Window /\ a.acked <= e.acked
            /\ e.acked + Len(e.pending) <= a.acked + Len(a.pending) + 1
        BY <2>10, <3>1
      <3> QED
        BY <2>7, <3>1, <3>2, TakenKeeps DEF q
    <2>13. ASSUME "cancelled" \notin e.flags PROVE WholeOK(e, q, n)
      <3>1. WholeOK(d, p, n)
        BY <1>1, <1>6 DEF StreamOK
      <3>2. d.pending = <<>> /\ Len(d.pending) = 0 /\ d.buffer = <<>> /\ Len(d.buffer) = 0
        BY <1>1, <1>6 DEF FlowOK, BufferOK, Flows, FlagsOK, Contains
      <3>3. /\ e.heard = w /\ e.pending = d.pending /\ e.buffer = d.buffer
            /\ e.acked = d.acked + 1
        BY <2>4, <2>7, <2>10, <2>13 DEF SameOutput
      <3> DEFINE x == d.acked + Len(d.pending)
      <3>4. /\ c = x + 1
            /\ \A j \in Nat : x + 1 < j /\ j <= n => \E i \in 1 .. Len(q) : IsOutput(q[i]) /\ q[i].chunk = j
        BY <1>1, <1>2, <3>1, HeadIsNext DEF c, q
      <3>5. e.acked + Len(e.pending) = x + 1 /\ x = Len(d.heard) /\ x = d.acked
        <4> DEFINE y == Len(d.heard)
                   z == d.acked
        <4>1. y \in Nat /\ z \in Nat /\ z = y + 0 /\ x = z + 0
          BY <1>1, <2>1, <3>1, <3>2 DEF WholeOK
        <4>2. e.acked + Len(e.pending) = (z + 1) + 0
          BY <3>2, <3>3
        <4> HIDE DEF x, y, z
        <4>3. z = y /\ x = z /\ (z + 1) + 0 = x + 1
          BY <4>1
        <4> QED
          BY <4>2, <4>3 DEF y, z
      <3>6. Numbered(e.heard, 0)
        <4>1. Numbered(d.heard, 0) /\ Len(d.heard) \in Nat
          BY <2>1, <3>1 DEF WholeOK
        <4> DEFINE y == Len(d.heard)
        <4>2. c = y + 1 /\ y \in Nat
          BY <3>4, <3>5, <4>1
        <4> HIDE DEF y
        <4>3. c = 0 + y + 1
          BY <4>2
        <4> QED
          BY <2>1, <3>3, <4>1, <4>3 DEF y
      <3>7. Numbered(e.buffer, Len(e.heard)) /\ Numbered(e.pending, e.acked)
        BY <3>2, <3>3 DEF Numbered
      <3>8. e.acked = Len(e.heard) + Len(e.buffer)
        BY <1>1, <2>1, <3>2, <3>3, <3>5
      <3> HIDE DEF x
      <3> QED
        BY <3>4, <3>5, <3>6, <3>7, <3>8 DEF WholeOK
    <2>14. StreamOK(e, q, n)
      BY <2>9, <2>10, <2>12, <2>13 DEF StreamOK
    <2>15. "outputClosed" \notin e.flags
      BY <2>4, <2>7, <2>10 DEF SameEnd
    <2> QED
      BY <2>10, <2>11, <2>14, <2>15 DEF Sound, c, q, e
  <1> QED
    BY <1>4, <1>5, <1>6

-----------------------------------------------------------------------------
(* The handlers of the pump and of the session state                       *)

\* Nor is a sound state spoiled by what it still has to run.
LEMMA AlikeSound ==
  ASSUME NEW d, NEW e, Good(e), Alike(d, e), NEW p, NEW n, Sound(d, p, n)
  PROVE  Sound(e, p, n) /\ ("outputClosed" \in e.flags <=> "outputClosed" \in d.flags)
  BY AlikeKeeps DEF Sound, Alike

\* The call of pty_session_begin_close.
LEMMA BeginCloseKeeps ==
  ASSUME NEW d, NEW p, NEW n, Sound(d, p, n), "released" \notin d.flags
  PROVE  LET e == BeginClose(d)
         IN  Sound(e, p, n) /\ e.flags = d.flags \union {"beginClose"}
  <1>1. BeginClose(d) = Raise(d, {"beginClose"})
    BY DEF BeginClose, Calls
  <1>2. {"beginClose"} \in SUBSET (Plain \union {"protocolFailed"})
    BY DEF Plain
  <1> QED
    BY <1>1, <1>2, PlainFlags DEF Sound

\* A fatal event fails the lifecycle's futures and begins the close, once.
LEMMA HandleFatalKeeps ==
  ASSUME NEW d, NEW p, NEW n, Sound(d, p, n), "released" \notin d.flags
  PROVE  LET e == HandleFatal(d)
         IN  Sound(e, p, n) /\ ("outputClosed" \in e.flags <=> "outputClosed" \in d.flags)
  <1> DEFINE a == Raise(d, {"fatalHandled"})
             b == FailLifecycle(a)
             c == BeginClose(b)
  <1>1. CASE "fatalHandled" \in d.flags
    BY <1>1 DEF HandleFatal
  <1>2. CASE "fatalHandled" \notin d.flags
    <2>1. HandleFatal(d) = c
      BY <1>2 DEF HandleFatal
    <2>2. {"fatalHandled"} \in SUBSET (Plain \union {"protocolFailed"})
      BY DEF Plain
    <2>3. Sound(a, p, n) /\ a.flags = d.flags \union {"fatalHandled"}
      BY <2>2, PlainFlags DEF Sound
    <2> HIDE DEF a
    <2>4. Good(b) /\ Alike(a, b) /\ b.flags = a.flags
      BY <2>3, FailLifecycleKeeps DEF Sound
    <2> HIDE DEF b
    <2>5. Sound(b, p, n) /\ "released" \notin b.flags
      BY <2>3, <2>4, AlikeSound
    <2>6. Sound(c, p, n) /\ c.flags = b.flags \union {"beginClose"}
      BY <2>5, BeginCloseKeeps
    <2> HIDE DEF c
    <2> QED
      BY <2>1, <2>3, <2>4, <2>6
  <1> QED
    BY <1>1, <1>2

\* A future other than done is completed.
LEMMA SettleSound ==
  ASSUME NEW d, NEW p, NEW n, Sound(d, p, n), NEW f \in {"spawn", "exit", "closed"},
         NEW as \in {"value", "error"}
  PROVE  LET e == Settle(d, f, as)
         IN  Sound(e, p, n) /\ e.flags = d.flags
  <1> DEFINE e == Settle(d, f, as)
  <1>1. Good(d) /\ f \in Futures /\ f # "done"
    BY DEF Sound, Futures
  <1>2. Good(e) /\ Alike(d, e) /\ e.flags = d.flags
    BY <1>1, SettleKeeps DEF Alike
  <1> QED
    BY <1>2, AlikeSound

\* handleProtocolError: whatever the message was, the output is given up.
LEMMA HandleProtocolErrorKeeps ==
  ASSUME NEW d, NEW p, NEW n \in Nat, Sound(d, p, n), "released" \notin d.flags, NEW k
  PROVE  LET e == HandleProtocolError(d, k)
         IN  /\ Sound(e, p, n) /\ "cancelled" \in e.flags
             /\ "outputClosed" \in e.flags <=> "outputClosed" \in d.flags
  <1>1. ASSUME NEW x, Sound(x, p, n)
        PROVE  Sound(SettleClosed(x, k), p, n) /\ SettleClosed(x, k).flags = x.flags
    BY <1>1, SettleSound DEF SettleClosed
  <1>2. CASE "protocolFailed" \in d.flags
    <2>1. HandleProtocolError(d, k) = SettleClosed(d, k)
      BY <1>2 DEF HandleProtocolError
    <2>2. "cancelled" \in d.flags
      BY <1>2 DEF Sound, StreamOK
    <2> QED
      BY <1>1, <2>1, <2>2
  <1>3. CASE "protocolFailed" \notin d.flags
    <2> DEFINE a == Raise(d, {"protocolFailed"})
               b == FailLifecycle(a)
               c == CloseAndDiscard(b)
               g == SettleClosed(c, k)
               e == BeginClose(g)
    <2>1. HandleProtocolError(d, k) = e
      BY <1>3 DEF HandleProtocolError
    <2>2. /\ Good(a) /\ a.flags = d.flags \union {"protocolFailed"}
          /\ AckOK(a, p, n) /\ ChunksBounded(a) /\ BufferOK(a)
      <3>1. {"protocolFailed"} \in SUBSET (Plain \union {"protocolFailed"})
        OBVIOUS
      <3>2. Good(d) /\ AckOK(d, p, n) /\ ChunksBounded(d) /\ BufferOK(d)
        BY DEF Sound, StreamOK
      <3> QED
        BY <3>1, <3>2, PlainFlags
    <2> HIDE DEF a
    <2>3. Good(b) /\ Alike(a, b) /\ b.flags = a.flags
      BY <2>2, FailLifecycleKeeps
    <2> HIDE DEF b
    <2>4. AckOK(b, p, n) /\ ChunksBounded(b) /\ BufferOK(b)
      BY <2>2, <2>3 DEF Alike, SameOutput, AckOK, ChunksBounded, BufferOK
    <2>5. Discards(b, c, p, n, {"disarmed", "nativeClosed"})
      BY <2>3, <2>4, CancelKeeps
    <2> HIDE DEF c
    <2>6. /\ Sound(c, p, n) /\ "cancelled" \in c.flags /\ "released" \notin c.flags
          /\ "outputClosed" \in c.flags <=> "outputClosed" \in d.flags
      BY <2>2, <2>3, <2>4, <2>5 DEF Discards, Sound
    <2>7. Sound(g, p, n) /\ g.flags = c.flags
      BY <1>1, <2>6
    <2> HIDE DEF g
    <2>8. Sound(e, p, n) /\ e.flags = g.flags \union {"beginClose"}
      BY <2>6, <2>7, BeginCloseKeeps
    <2> HIDE DEF e
    <2> QED
      BY <2>1, <2>6, <2>7, <2>8
  <1> QED
    BY <1>2, <1>3

\* OUTPUT_CLOSED, between two handlers: what is pending and can flow does.
LEMMA OutputClosedKeeps ==
  ASSUME NEW d, NEW p, NEW n \in Nat, Sound(d, p, n), d.micro = <<>>
  PROVE  Sound(MaybeCompleteDone(HandleNativeClosed(Raise(d, {"outputClosed"}))), p, n)
  <1> DEFINE a == Raise(d, {"outputClosed"})
             b == Raise(a, {"nativeClosed"})
             c == Drain(b)
             e == MaybeCompleteDone(c)
  <1>1. d \in StateType /\ FlagsOK(d) /\ MicroOK(d) /\ DoneOK(d) /\ BufferOK(d)
    BY DEF Sound, Good
  <1>2. /\ a \in StateType /\ SameOutput(d, a) /\ a.micro = d.micro /\ a.fut = d.fut
        /\ a.flags = d.flags \union {"outputClosed"}
    <2>1. {"outputClosed"} \in SUBSET Flags /\ "drained" \in Flags
      BY DEF Flags
    <2> QED
      BY <1>1, <2>1, FlagSteps
  <1> HIDE DEF a
  <1>3. /\ b \in StateType /\ SameOutput(a, b) /\ b.micro = a.micro /\ b.fut = a.fut
        /\ b.flags = a.flags \union {"nativeClosed"}
    <2>1. {"nativeClosed"} \in SUBSET Flags /\ "drained" \in Flags
      BY DEF Flags
    <2> QED
      BY <1>2, <2>1, FlagSteps
  <1>4. HandleNativeClosed(a) = c
    BY DEF HandleNativeClosed
  <1> HIDE DEF b
  <1>5. SameOutput(d, b) /\ b.micro = d.micro /\ b.fut = d.fut
        /\ b.flags = d.flags \union {"outputClosed", "nativeClosed"}
    BY <1>2, <1>3 DEF SameOutput
  <1>6. Good(b)
    BY <1>1, <1>3, <1>5 DEF Good, FlagsOK, MicroOK, DoneOK, SameOutput
  <1>7. BufferOK(b) /\ ChunksBounded(b)
    BY <1>5 DEF Sound, BufferOK, ChunksBounded, SameOutput
  <1>8. Flows(b) => b.buffer = <<>>
    <2>1. ~Contains(d.micro, "deliver")
      BY DEF Contains
    <2> QED
      BY <1>1, <1>5, <2>1 DEF Flows, BufferOK, FlagsOK, SameOutput
  <1>9. StreamOK(b, p, n)
    BY <1>5 DEF Sound, StreamOK, AckOK, WholeOK, SameOutput
  <1>10. Sound(c, p, n)
    BY <1>6, <1>7, <1>8, <1>9, DrainKeeps DEF Sound
  <1> HIDE DEF c
  <1>11. Good(e) /\ Alike(c, e)
    BY <1>10, MaybeCompleteDoneKeeps DEF Sound
  <1>12. Sound(e, p, n)
    BY <1>10, <1>11, AlikeSound
  <1> QED
    BY <1>4, <1>12 DEF a

\* A message without a chunk to be heard leaves the port.
LEMMA SoundSkip ==
  ASSUME NEW d, NEW p \in Seq(Message), p # <<>>, NEW n \in Nat, Sound(d, p, n),
         ~IsOutput(Head(p)) \/ "cancelled" \in d.flags
  PROVE  Sound(d, Tail(p), n)
  BY SkipKeeps DEF Sound

\* HandleMessage: a well-formed message, and any other.
LEMMA EventKeeps ==
  ASSUME NEW d, NEW p \in Seq(Message), p # <<>>, NEW n \in Nat, Sound(d, p, n),
         Head(p).chunk <= MaxOutput, d.micro = <<>>, "released" \notin d.flags,
         IsOutput(Head(p)) => "outputClosed" \notin d.flags, NEW r
  PROVE  LET e == HandleNativeEvent(d, Head(p), r)
         IN  /\ Sound(e, Tail(p), n)
             /\ "outputClosed" \in e.flags =>
                  "outputClosed" \in d.flags \/ Head(p).kind = "OUTPUT_CLOSED"
  <1> DEFINE m == Head(p)
             e == HandleNativeEvent(d, m, r)
  <1>1. m \in Message
    BY TailOf
  <1> HIDE DEF m
  <1>2. CASE m.kind = "SPAWNED"
    <2>1. e = Settle(d, "spawn", "value")
      BY <1>2 DEF HandleNativeEvent
    <2>2. Sound(e, p, n) /\ e.flags = d.flags
      BY <2>1, SettleSound
    <2> QED
      BY <1>2, <2>2, SoundSkip DEF m, IsOutput
  <1>3. CASE m.kind \in {"SPAWN_FAILED", "ASYNC_ERROR"}
    <2>1. e = HandleFatal(d)
      BY <1>3 DEF HandleNativeEvent
    <2>2. Sound(e, p, n) /\ ("outputClosed" \in e.flags <=> "outputClosed" \in d.flags)
      BY <2>1, HandleFatalKeeps
    <2> QED
      BY <1>3, <2>2, SoundSkip DEF m, IsOutput
  <1>4. CASE m.kind = "OUTPUT"
    <2>1. e = AddNativeOutput(d, m.chunk, r)
      BY <1>4 DEF HandleNativeEvent
    <2> QED
      BY <1>4, <2>1, OutputKeeps DEF m, IsOutput
  <1>5. CASE m.kind = "OUTPUT_CLOSED"
    <2>1. e = d \/ e = MaybeCompleteDone(HandleNativeClosed(Raise(d, {"outputClosed"})))
      BY <1>5 DEF HandleNativeEvent
    <2>2. Sound(e, p, n)
      BY <2>1, OutputClosedKeeps
    <2> QED
      BY <1>5, <2>2, SoundSkip DEF m, IsOutput
  <1>6. CASE m.kind = "PROCESS_EXIT"
    <2> DEFINE a == Settle(d, "exit", "value")
    <2>1. e = MaybeCompleteDone(a)
      BY <1>6 DEF HandleNativeEvent
    <2>2. Sound(a, p, n) /\ a.flags = d.flags
      BY SettleSound
    <2> HIDE DEF a
    <2>3. Good(e) /\ Alike(a, e)
      BY <2>1, <2>2, MaybeCompleteDoneKeeps DEF Sound
    <2>4. Sound(e, p, n) /\ ("outputClosed" \in e.flags <=> "outputClosed" \in d.flags)
      BY <2>2, <2>3, AlikeSound
    <2> QED
      BY <1>6, <2>4, SoundSkip DEF m, IsOutput
  <1>7. CASE m.kind = "SESSION_CLOSED"
    <2> DEFINE a == Settle(d, "closed", "value")
    <2>1. e = Raise(a, {"pumpClosed"})
      BY <1>7 DEF HandleNativeEvent
    <2>2. Sound(a, p, n) /\ a.flags = d.flags
      BY SettleSound
    <2> HIDE DEF a
    <2>3. {"pumpClosed"} \in SUBSET (Plain \union {"protocolFailed"})
      BY DEF Plain
    <2>4. Sound(e, p, n) /\ e.flags = a.flags \union {"pumpClosed"}
      BY <2>1, <2>2, <2>3, PlainFlags DEF Sound
    <2> QED
      BY <1>7, <2>2, <2>4, SoundSkip DEF m, IsOutput
  <1> QED
    BY <1>1, <1>2, <1>3, <1>4, <1>5, <1>6, <1>7 DEF Message, Kinds, m

-----------------------------------------------------------------------------
(* The steps of the isolate                                                *)

\* The variables together are the record the handlers work on.
LEMMA BecomesIs ==
  ASSUME NEW d \in StateType, Becomes(d)
  PROVE  State' = d
  BY DEF StateType, Becomes, State

\* A handler that takes no message.
LEMMA TurnKeeps ==
  ASSUME IInv, NEW e, Becomes(e), Sound(e, port, posted),
         "outputClosed" \in e.flags <=> "outputClosed" \in flags,
         UNCHANGED <<port, posted, native>>
  PROVE  IInv'
  <1>1. State' = e /\ flags' = e.flags
    BY BecomesIs DEF Sound, Good, Becomes
  <1>2. Sound(State', port', posted')
    BY <1>1
  <1>3. PortOK'
    BY DEF IInv, PortOK
  <1>4. EndOK'
    BY <1>1 DEF IInv, EndOK
  <1> QED
    BY <1>2, <1>3, <1>4 DEF IInv

\* The session starts with nothing posted, nothing heard and nothing pending.
LEMMA InitOK ==
  Init => IInv
  <1> SUFFICES ASSUME Init PROVE IInv
    OBVIOUS
  <1>1. /\ State.flags = {} /\ State.pending = <<>> /\ State.buffer = <<>> /\ State.heard = <<>>
        /\ State.acked = 0 /\ State.micro = <<>> /\ State.fut = [f \in Futures |-> "pending"]
    BY DEF Init, State
  <1>2. State \in StateType
    BY DEF Init, State, StateType, FutureStates, Tasks
  <1>3. PortOK
    BY DartSessionAssumption DEF Init, PortOK
  <1>4. Good(State)
    BY <1>1, <1>2 DEF Good, FlagsOK, MicroOK, DoneOK, Contains, Futures
  <1>5. FlowOK(State) /\ BufferOK(State) /\ ChunksBounded(State)
    BY <1>1 DEF FlowOK, Flows, BufferOK, ChunksBounded
  <1>6. StreamOK(State, port, posted)
    <2>1. Len(State.pending) = 0 /\ Len(State.buffer) = 0 /\ Len(State.heard) = 0
          /\ port = <<>> /\ Len(port) = 0 /\ posted = 0 /\ Window \in Nat
      BY <1>1, DartSessionAssumption DEF Init
    <2>2. AckOK(State, port, posted)
      BY <1>1, <2>1 DEF AckOK
    <2>3. WholeOK(State, port, posted)
      BY <1>1, <2>1 DEF WholeOK, Numbered
    <2> QED
      BY <1>1, <2>2, <2>3 DEF StreamOK
  <1>7. EndOK
    BY DEF Init, EndOK
  <1> QED
    BY <1>3, <1>4, <1>5, <1>6, <1>7 DEF IInv, Sound

\* The listener's steps.
LEMMA ListenerKeeps ==
  ASSUME IInv, Listen \/ Pause \/ Resume \/ Cancel \/ Deliver
  PROVE  IInv'
  <1> DEFINE d == State
  <1>1. d.flags = flags /\ d.micro = micro /\ d.buffer = buffer
    BY DEF State
  <1>2. /\ Sound(d, port, posted) /\ Good(d) /\ d \in StateType /\ FlagsOK(d) /\ FlowOK(d) /\ BufferOK(d)
        /\ StreamOK(d, port, posted) /\ AckOK(d, port, posted) /\ ChunksBounded(d) /\ posted \in Nat
    BY DEF IInv, Sound, Good, StreamOK, PortOK
  <1> HIDE DEF d
  <1>3. ASSUME Listen PROVE IInv'
    <2> DEFINE l == Raise(d, {"listener"})
               e == Drain(l)
    <2>1. /\ l \in StateType /\ SameOutput(d, l) /\ l.micro = d.micro /\ l.fut = d.fut
          /\ l.flags = d.flags \union {"listener"}
      <3>1. {"listener"} \in SUBSET Flags /\ "drained" \in Flags
        BY DEF Flags
      <3> QED
        BY <1>2, <3>1, FlagSteps
    <2>2. Becomes(e) /\ UNCHANGED <<port, posted, native>>
      BY <1>3 DEF Listen, d
    <2> HIDE DEF l
    <2>3. d.buffer = <<>> /\ "listener" \notin d.flags
      BY <1>1, <1>2, <1>3 DEF Listen, FlagsOK
    <2>4. Good(l)
      BY <1>2, <2>1 DEF Good, FlagsOK, MicroOK, DoneOK, SameOutput
    <2>5. BufferOK(l) /\ ChunksBounded(l) /\ l.buffer = <<>>
      BY <1>2, <2>1, <2>3 DEF BufferOK, ChunksBounded, SameOutput
    <2>6. StreamOK(l, port, posted)
      BY <1>2, <2>1 DEF StreamOK, AckOK, WholeOK, SameOutput
    <2>7. Sound(e, port, posted) /\ e.flags \ {"drained"} = l.flags \ {"drained"}
      BY <1>2, <2>4, <2>5, <2>6, DrainKeeps DEF Sound
    <2> HIDE DEF e
    <2>8. "outputClosed" \in e.flags <=> "outputClosed" \in flags
      BY <1>1, <2>1, <2>7
    <2> QED
      BY <2>2, <2>7, <2>8, TurnKeeps
  <1>4. ASSUME Pause PROVE IInv'
    <2> DEFINE e == Raise(d, {"holding", "paused"})
    <2>1. Becomes(e) /\ UNCHANGED <<port, posted, native>>
      BY <1>4 DEF Pause, d
    <2>2. /\ Good(e) /\ FlowOK(e) /\ SameOutput(d, e) /\ SameEnd(d, e) /\ BufferOK(e)
          /\ StreamOK(e, port, posted)
      BY <1>2, PauseKeeps
    <2> HIDE DEF e
    <2>3. Sound(e, port, posted)
      BY <1>2, <2>2 DEF Sound, ChunksBounded, SameOutput
    <2> QED
      BY <1>1, <2>1, <2>2, <2>3, TurnKeeps DEF SameEnd
  <1>5. ASSUME Resume PROVE IInv'
    <2> DEFINE l == Lower(d, "holding")
               e == Schedule(InputResumes(l))
    <2>1. Becomes(e) /\ UNCHANGED <<port, posted, native>>
      BY <1>5 DEF Resume, d
    <2>2. /\ l \in StateType /\ SameOutput(d, l) /\ l.micro = d.micro /\ l.fut = d.fut
          /\ l.flags = d.flags \ {"holding"}
      <3>1. {} \in SUBSET Flags /\ "holding" \in Flags
        BY DEF Flags
      <3> QED
        BY <1>2, <3>1, FlagSteps
    <2> HIDE DEF l
    <2>3. Good(l)
      BY <1>2, <2>2 DEF Good, FlagsOK, MicroOK, DoneOK, SameOutput
    <2>4. FlowOK(l) /\ ChunksBounded(l)
      BY <1>2, <2>2 DEF FlowOK, Flows, ChunksBounded, SameOutput
    <2>5. StreamOK(l, port, posted)
      BY <1>2, <2>2 DEF StreamOK, AckOK, WholeOK, SameOutput
    <2>6. Sound(e, port, posted) /\ ("outputClosed" \in e.flags <=> "outputClosed" \in l.flags)
      BY <1>2, <2>3, <2>4, <2>5, ResumesKeeps
    <2> HIDE DEF e
    <2> QED
      BY <1>1, <2>1, <2>2, <2>6, TurnKeeps
  <1>6. ASSUME Cancel PROVE IInv'
    <2> DEFINE e == Unsubscribe(d)
    <2>1. Becomes(e) /\ UNCHANGED <<port, posted, native>>
      BY <1>6 DEF Cancel, d
    <2>2. /\ Sound(e, port, posted)
          /\ e.flags \ {"drained"} =
               (d.flags \union {"unsubscribed", "cancelled", "discard"}) \ {"drained"}
      BY <1>2, UnsubscribeKeeps
    <2> HIDE DEF e
    <2>3. "outputClosed" \in e.flags <=> "outputClosed" \in flags
      BY <1>1, <2>2
    <2> QED
      BY <2>1, <2>2, <2>3, TurnKeeps
  <1>7. ASSUME Deliver PROVE IInv'
    <2> DEFINE g == [d EXCEPT !.micro = Tail(@), !.buffer = Tail(@)]
               e(r) == Schedule(InputResumes(Hears(g, Head(d.buffer), r)))
    <2>1. /\ \E r \in Reactions : Becomes(e(r))
          /\ d.micro # <<>> /\ Head(d.micro) = "deliver" /\ UNCHANGED <<port, posted, native>>
      BY <1>1, <1>7 DEF Deliver, d
    <2>2. PICK r \in Reactions : Becomes(e(r))
      BY <2>1
    <2>3. Sound(e(r), port, posted) /\ ("outputClosed" \in e(r).flags <=> "outputClosed" \in d.flags)
      BY <1>2, <2>1, DeliverKeeps
    <2> HIDE DEF e
    <2> QED
      BY <1>1, <2>1, <2>2, <2>3, TurnKeeps
  <1> QED
    BY <1>3, <1>4, <1>5, <1>6, <1>7

\* Who waits for done is told.
LEMMA TellDoneKeeps ==
  ASSUME IInv, TellDone
  PROVE  IInv'
  <1> DEFINE d == State
             a == Raise(d, {"told"})
             e == [a EXCEPT !.micro = Tail(@)]
             m == Tail(d.micro)
  <1>1. Becomes(e) /\ UNCHANGED <<port, posted, native>> /\ d.micro # <<>> /\ Head(d.micro) = "done"
    BY DEF TellDone, State
  <1>2. Sound(d, port, posted) /\ d.flags = flags
    BY DEF IInv, State
  <1> HIDE DEF d
  <1>3. {"told"} \in SUBSET (Plain \union {"protocolFailed"})
    BY DEF Plain
  <1>4. /\ Sound(a, port, posted) /\ a.flags = d.flags \union {"told"} /\ a.micro = d.micro
        /\ a.fut = d.fut /\ SameOutput(d, a)
    BY <1>2, <1>3, PlainFlags DEF Sound
  <1> HIDE DEF a
  <1>5. a \in StateType /\ d.micro \in Seq(Tasks) /\ Len(d.micro) \in Nat
    BY <1>2, <1>4 DEF Sound, Good, StateType
  <1>6. /\ m \in Seq(Tasks) /\ Len(m) = Len(d.micro) - 1 /\ d.micro[1] = "done"
        /\ \A i \in 1 .. Len(m) : m[i] = d.micro[i + 1]
    BY <1>1, <1>5, HeadTailProperties
  <1>7. e = [a EXCEPT !.micro = m]
    BY <1>4
  <1> HIDE DEF m, e
  <1>8. /\ e \in StateType /\ SameOutput(a, e) /\ e.micro = m /\ e.fut = a.fut /\ e.flags = a.flags
    BY <1>5, <1>6, <1>7 DEF StateType, SameOutput
  <1>9. Contains(m, "deliver") <=> Contains(d.micro, "deliver")
    <2>1. ASSUME Contains(d.micro, "deliver") PROVE Contains(m, "deliver")
      <3>1. PICK i \in 1 .. Len(d.micro) : d.micro[i] = "deliver"
        BY <2>1 DEF Contains
      <3>2. i # 1
        BY <1>6, <3>1
      <3>3. i - 1 \in 1 .. Len(m) /\ (i - 1) + 1 = i
        BY <1>5, <1>6, <3>1, <3>2
      <3> QED
        BY <1>6, <3>1, <3>3 DEF Contains
    <2>2. ASSUME Contains(m, "deliver") PROVE Contains(d.micro, "deliver")
      BY <1>5, <1>6, <2>2 DEF Contains
    <2> QED
      BY <2>1, <2>2
  <1>10. MicroOK(e)
    <2>1. MicroOK(a)
      BY <1>4 DEF Sound, Good
    <2>2. \A i, j \in 1 .. Len(m) : m[i] = m[j] => i = j
      BY <1>4, <1>5, <1>6, <2>1 DEF MicroOK
    <2>3. Contains(m, "done") => Contains(d.micro, "done")
      BY <1>5, <1>6 DEF Contains
    <2> QED
      BY <1>4, <1>8, <1>9, <2>1, <2>2, <2>3 DEF MicroOK, SameOutput
  <1>11. Good(e)
    BY <1>4, <1>8, <1>10 DEF Sound, Good, FlagsOK, DoneOK, SameOutput
  <1>12. Alike(a, e)
    BY <1>4, <1>8, <1>9 DEF Alike
  <1>13. Sound(e, port, posted) /\ ("outputClosed" \in e.flags <=> "outputClosed" \in a.flags)
    BY <1>4, <1>11, <1>12, AlikeSound
  <1> QED
    BY <1>1, <1>2, <1>4, <1>13, TurnKeeps

\* close(), up to its await and after it.
LEMMA CloseKeeps ==
  ASSUME IInv, Close \/ CloseFinishes
  PROVE  IInv'
  <1> DEFINE d == State
  <1>1. /\ Sound(d, port, posted) /\ d.flags = flags /\ posted \in Nat
        /\ Good(d) /\ FlagsOK(d) /\ AckOK(d, port, posted) /\ BufferOK(d) /\ ChunksBounded(d)
    BY DEF IInv, State, PortOK, Sound, Good, StreamOK
  <1> HIDE DEF d
  <1>2. ASSUME Close PROVE IInv'
    <2> DEFINE a == Raise(d, {"closing"})
               e == BeginClose(a)
    <2>1. Becomes(e) /\ UNCHANGED <<port, posted, native>> /\ "closing" \notin d.flags
      BY <1>1, <1>2 DEF Close, d
    <2>2. {"closing"} \in SUBSET (Plain \union {"protocolFailed"})
      BY DEF Plain
    <2>3. Sound(a, port, posted) /\ a.flags = d.flags \union {"closing"}
      BY <1>1, <2>2, PlainFlags
    <2> HIDE DEF a
    <2>4. "released" \notin a.flags
      BY <1>1, <2>1, <2>3 DEF FlagsOK
    <2>5. Sound(e, port, posted) /\ e.flags = a.flags \union {"beginClose"}
      BY <2>3, <2>4, BeginCloseKeeps
    <2> HIDE DEF e
    <2>6. "outputClosed" \in e.flags <=> "outputClosed" \in flags
      BY <1>1, <2>3, <2>5
    <2> QED
      BY <2>1, <2>5, <2>6, TurnKeeps
  <1>3. ASSUME CloseFinishes PROVE IInv'
    <2> DEFINE a == CloseAndDiscard(d)
               e == Raise(a, {"released", "pumpClosed"})
    <2>1. Becomes(e) /\ UNCHANGED <<port, posted, native>> /\ "closing" \in d.flags
      BY <1>1, <1>3 DEF CloseFinishes, d
    <2>2. Discards(d, a, port, posted, {"disarmed", "nativeClosed"})
      BY <1>1, CancelKeeps
    <2> HIDE DEF a
    <2>3. /\ Sound(a, port, posted) /\ {"closing", "disarmed"} \subseteq a.flags
          /\ "outputClosed" \in a.flags <=> "outputClosed" \in flags
      BY <1>1, <2>1, <2>2 DEF Discards, Sound
    <2>4. /\ e \in StateType /\ SameOutput(a, e) /\ e.micro = a.micro /\ e.fut = a.fut
          /\ e.flags = a.flags \union {"released", "pumpClosed"}
      <3>1. {"released", "pumpClosed"} \in SUBSET Flags /\ "drained" \in Flags
        BY DEF Flags
      <3> QED
        BY <2>3, <3>1, FlagSteps DEF Sound, Good
    <2> HIDE DEF e
    <2>5. Good(e)
      BY <2>3, <2>4 DEF Sound, Good, FlagsOK, MicroOK, DoneOK, SameOutput
    <2>6. FlowOK(e) /\ BufferOK(e) /\ ChunksBounded(e)
      BY <2>3, <2>4 DEF Sound, FlowOK, Flows, BufferOK, ChunksBounded, SameOutput
    <2>7. StreamOK(e, port, posted)
      BY <2>3, <2>4 DEF Sound, StreamOK, AckOK, WholeOK, SameOutput
    <2>8. Sound(e, port, posted) /\ ("outputClosed" \in e.flags <=> "outputClosed" \in flags)
      BY <2>3, <2>4, <2>5, <2>6, <2>7 DEF Sound
    <2> QED
      BY <2>1, <2>8, TurnKeeps
  <1> QED
    BY <1>2, <1>3

\* The pump takes the next message.
LEMMA MessageKeeps ==
  ASSUME IInv, HandleMessage
  PROVE  IInv'
  <1> DEFINE d == State
             p == port
             q == Tail(port)
             m == Head(port)
             f(r) == IF m.ok THEN HandleNativeEvent(d, m, r) ELSE HandleProtocolError(d, m.kind)
  <1>1. /\ Sound(d, p, posted) /\ d.flags = flags /\ d.micro = <<>> /\ posted \in Nat
        /\ "released" \notin d.flags /\ p \in Seq(Message) /\ p # <<>>
    BY DEF IInv, State, PortOK, HandleMessage, Sound, Good, FlagsOK
  <1>2. PICK r : Becomes(f(r))
    BY DEF HandleMessage
  <1> DEFINE e == f(r)
  <1>3. port' = q /\ UNCHANGED <<posted, native>>
    BY DEF HandleMessage
  <1>4. /\ q \in Seq(Message) /\ Len(p) \in Nat \ {0} /\ Len(q) = Len(p) - 1
        /\ m = p[1] /\ m \in Message
        /\ \A i \in 1 .. Len(q) : i + 1 \in 1 .. Len(p) /\ q[i] = p[i + 1]
    BY <1>1, TailOf
  <1>5. m.chunk <= MaxOutput /\ (IsOutput(m) => "outputClosed" \notin d.flags)
    <2>1. 1 \in 1 .. Len(p)
      BY <1>4
    <2> QED
      BY <1>1, <1>4, <2>1 DEF IInv, PortOK, EndOK
  <1> HIDE DEF d
  <1>6. /\ Sound(e, q, posted)
        /\ "outputClosed" \in e.flags => "outputClosed" \in d.flags \/ m.kind = "OUTPUT_CLOSED"
    <2>1. CASE m.ok
      BY <1>1, <1>5, <2>1, EventKeeps
    <2>2. CASE ~m.ok
      <3> DEFINE x == HandleProtocolError(d, m.kind)
      <3>1. /\ Sound(x, p, posted) /\ "cancelled" \in x.flags
            /\ "outputClosed" \in x.flags <=> "outputClosed" \in d.flags
        BY <1>1, HandleProtocolErrorKeeps
      <3> HIDE DEF x
      <3>2. Sound(x, q, posted)
        BY <1>1, <3>1, SoundSkip
      <3>3. e = x
        BY <2>2 DEF x
      <3> QED
        BY <3>1, <3>2, <3>3
    <2> QED
      BY <2>1, <2>2
  <1>7. Becomes(e)
    BY <1>2
  <1> HIDE DEF e, f
  <1>8. State' = e /\ flags' = e.flags
    BY <1>6, <1>7, BecomesIs DEF Sound, Good, Becomes
  <1>9. Sound(State', port', posted')
    BY <1>3, <1>6, <1>8
  <1> HIDE DEF q, m
  <1>10. PortOK'
    BY <1>3, <1>4 DEF IInv, PortOK
  <1>11. EndOK'
    <2>1. EndOK /\ flags = d.flags
      BY <1>1 DEF IInv
    <2>2. 1 \in 1 .. Len(p)
      BY <1>4
    <2>3. "outputClosed" \notin native =>
            (\A i \in 1 .. Len(q) : q[i].kind # "OUTPUT_CLOSED") /\ "outputClosed" \notin e.flags
      BY <1>4, <1>6, <2>1, <2>2 DEF EndOK
    <2>4. \A i, j \in 1 .. Len(q) : i < j /\ q[i].kind = "OUTPUT_CLOSED" => ~IsOutput(q[j])
      <3>1. \A i, j \in 1 .. Len(p) : i < j /\ p[i].kind = "OUTPUT_CLOSED" => ~IsOutput(p[j])
        BY <2>1 DEF EndOK
      <3>2. ASSUME NEW i \in 1 .. Len(q), NEW j \in 1 .. Len(q), i < j, q[i].kind = "OUTPUT_CLOSED"
            PROVE  ~IsOutput(q[j])
        <4>1. i + 1 \in 1 .. Len(p) /\ q[i] = p[i + 1]
          BY <1>4
        <4>2. j + 1 \in 1 .. Len(p) /\ q[j] = p[j + 1]
          BY <1>4
        <4>3. i + 1 < j + 1
          BY <3>2
        <4>4. ~IsOutput(p[j + 1])
          BY <3>1, <3>2, <4>1, <4>2, <4>3
        <4> QED
          BY <4>2, <4>4
      <3> QED
        BY <3>2
    <2>5. "outputClosed" \in e.flags => \A i \in 1 .. Len(q) : ~IsOutput(q[i])
      <3>1. ASSUME NEW i \in 1 .. Len(q), "outputClosed" \in e.flags PROVE ~IsOutput(q[i])
        <4>1. i + 1 \in 1 .. Len(p) /\ q[i] = p[i + 1] /\ 1 < i + 1
          BY <1>4
        <4> QED
          BY <1>4, <1>6, <2>1, <2>2, <3>1, <4>1 DEF EndOK
      <3> QED
        BY <3>1
    <2> QED
      BY <1>3, <1>8, <2>3, <2>4, <2>5 DEF EndOK
  <1> QED
    BY <1>9, <1>10, <1>11 DEF IInv

-----------------------------------------------------------------------------
(* The native session posts                                                *)

\* The port after one more message.
LEMMA PostedMessage ==
  ASSUME PortOK, NEW k \in Kinds, NEW c \in 0 .. MaxOutput, Post(k, c)
  PROVE  /\ port' \in Seq(Message) /\ Len(port) \in Nat /\ Len(port') = Len(port) + 1
         /\ port'[Len(port) + 1].kind = k /\ port'[Len(port) + 1].chunk = c
         /\ \A i \in 1 .. Len(port) : port'[i] = port[i]
         /\ \A i \in 1 .. Len(port') : i \in 1 .. Len(port) \/ i = Len(port) + 1
         /\ \A i \in 1 .. Len(port') : port'[i].chunk <= MaxOutput
  <1>1. PICK ok \in BOOLEAN : port' = Append(port, [kind |-> k, chunk |-> c, ok |-> ok])
    BY DEF Post
  <1> DEFINE m == [kind |-> k, chunk |-> c, ok |-> ok]
             l == Len(port)
  <1>2. m \in Message /\ m.kind = k /\ m.chunk = c /\ c <= MaxOutput
    BY DartSessionAssumption DEF Message
  <1> HIDE DEF m
  <1>3. /\ port' \in Seq(Message) /\ l \in Nat /\ Len(port') = l + 1
        /\ port'[l + 1] = m /\ \A i \in 1 .. l : port'[i] = port[i]
    BY <1>1, <1>2, AppendProperties DEF PortOK, m
  <1> HIDE DEF l
  <1>4. \A i \in 1 .. Len(port') : i \in 1 .. l \/ i = l + 1
    BY <1>3
  <1>5. \A i \in 1 .. l : port[i].chunk <= MaxOutput
    BY DEF PortOK, l
  <1>6. \A i \in 1 .. Len(port') : port'[i].chunk <= MaxOutput
    BY <1>2, <1>3, <1>4, <1>5
  <1> QED
    BY <1>2, <1>3, <1>4, <1>6 DEF l

\* A message that carries no chunk.
LEMMA NativeKeeps ==
  ASSUME IInv, NEW k \in Kinds \ {"OUTPUT"}, NEW s \in Steps, Native(k, s),
         k = "OUTPUT_CLOSED" <=> s = "outputClosed"
  PROVE  IInv'
  <1> DEFINE d == State
             l == Len(port)
  <1>1. /\ Post(k, 0) /\ s \notin native /\ native' = native \union {s}
        /\ posted' = posted /\ State' = d /\ flags' = flags
    BY DEF Native, dart, State
  <1>2. /\ port' \in Seq(Message) /\ l \in Nat /\ Len(port') = l + 1
        /\ port'[l + 1].kind = k
        /\ \A i \in 1 .. l : port'[i] = port[i]
        /\ \A i \in 1 .. Len(port') : i \in 1 .. l \/ i = l + 1
        /\ \A i \in 1 .. Len(port') : port'[i].chunk <= MaxOutput
    BY <1>1, DartSessionAssumption, PostedMessage DEF IInv
  <1>3. Sound(d, port, posted) /\ PortOK /\ EndOK
    BY DEF IInv
  <1> HIDE DEF d, l
  <1>4. PortOK'
    BY <1>1, <1>2, <1>3 DEF PortOK
  <1>5. EndOK'
    <2>1. "outputClosed" \notin native' =>
            (\A i \in 1 .. Len(port') : port'[i].kind # "OUTPUT_CLOSED") /\ "outputClosed" \notin flags'
      BY <1>1, <1>2, <1>3 DEF EndOK, l
    <2>2. \A i, j \in 1 .. Len(port') :
            i < j /\ port'[i].kind = "OUTPUT_CLOSED" => ~IsOutput(port'[j])
      <3> SUFFICES ASSUME NEW i \in 1 .. Len(port'), NEW j \in 1 .. Len(port'), i < j,
                          port'[i].kind = "OUTPUT_CLOSED"
                   PROVE  ~IsOutput(port'[j])
        OBVIOUS
      <3>1. i \in 1 .. l
        BY <1>2
      <3>2. CASE j = l + 1
        BY <1>2, <3>2 DEF IsOutput
      <3>3. CASE j \in 1 .. l
        BY <1>2, <1>3, <3>1, <3>3 DEF EndOK, l
      <3> QED
        BY <1>2, <3>2, <3>3
    <2>3. "outputClosed" \in flags' => \A i \in 1 .. Len(port') : ~IsOutput(port'[i])
      BY <1>1, <1>2, <1>3 DEF EndOK, IsOutput, l
    <2> QED
      BY <2>1, <2>2, <2>3 DEF EndOK
  <1>6. StreamOK(d, port', posted)
    <2>1. StreamOK(d, port, posted) /\ AckOK(d, port, posted)
      BY <1>3 DEF Sound, StreamOK
    <2>2. \A i \in 1 .. Len(port') : IsOutput(port'[i]) => i \in 1 .. l
      BY <1>2 DEF IsOutput
    <2>3. AckOK(d, port', posted)
      BY <1>2, <2>1, <2>2 DEF AckOK, l
    <2>4. ASSUME "cancelled" \notin d.flags PROVE WholeOK(d, port', posted)
      <3>1. WholeOK(d, port, posted)
        BY <2>1, <2>4 DEF StreamOK
      <3>2. \A c \in Nat : d.acked + Len(d.pending) < c /\ c <= posted =>
              \E i \in 1 .. Len(port') : IsOutput(port'[i]) /\ port'[i].chunk = c
        <4> SUFFICES ASSUME NEW c \in Nat, d.acked + Len(d.pending) < c, c <= posted
                     PROVE  \E i \in 1 .. Len(port') : IsOutput(port'[i]) /\ port'[i].chunk = c
          OBVIOUS
        <4>1. PICK i \in 1 .. l : IsOutput(port[i]) /\ port[i].chunk = c
          BY <3>1 DEF WholeOK, l
        <4>2. i \in 1 .. Len(port') /\ port'[i] = port[i]
          BY <1>2
        <4> QED
          BY <4>1, <4>2
      <3> QED
        BY <3>1, <3>2 DEF WholeOK
    <2> QED
      BY <2>1, <2>3, <2>4 DEF StreamOK
  <1>7. Sound(State', port', posted')
    BY <1>1, <1>3, <1>6 DEF Sound
  <1> QED
    BY <1>4, <1>5, <1>7 DEF IInv

\* The native session posts the next chunk while the window lets it.
LEMMA PrintsKeeps ==
  ASSUME IInv, Prints
  PROVE  IInv'
  <1> DEFINE d == State
             l == Len(port)
             c == posted + 1
             p == port'
  <1>1. /\ Post("OUTPUT", c) /\ posted' = c /\ native' = native /\ "outputClosed" \notin native
        /\ posted < MaxOutput /\ posted - d.acked < Window /\ State' = d /\ flags' = flags
    BY DEF Prints, Reading, dart, State
  <1>2. /\ Sound(d, port, posted) /\ PortOK /\ EndOK /\ d \in StateType /\ d.acked \in Nat
        /\ posted \in Nat /\ MaxOutput \in Nat /\ Window \in Nat /\ Len(d.pending) \in Nat
    BY DartSessionAssumption DEF IInv, Sound, Good, StateType, PortOK
  <1> HIDE DEF d
  <1>3. c \in 0 .. MaxOutput /\ "OUTPUT" \in Kinds
    BY <1>1, <1>2 DEF Kinds
  <1>4. /\ p \in Seq(Message) /\ l \in Nat /\ Len(p) = l + 1
        /\ p[l + 1].kind = "OUTPUT" /\ p[l + 1].chunk = c
        /\ \A i \in 1 .. l : p[i] = port[i]
        /\ \A i \in 1 .. Len(p) : i \in 1 .. l \/ i = l + 1
        /\ \A i \in 1 .. Len(p) : p[i].chunk <= MaxOutput
    BY <1>1, <1>2, <1>3, PostedMessage
  <1> HIDE DEF c, l, p
  <1>5. PortOK'
    BY <1>1, <1>2, <1>3, <1>4 DEF PortOK, p
  <1>6. EndOK'
    BY <1>1, <1>2, <1>4 DEF EndOK, l, p
  <1>7. AckOK(d, p, c)
    <2>1. AckOK(d, port, posted) /\ c = posted + 1
      BY <1>2 DEF Sound, StreamOK, c
    <2> DEFINE x == d.acked + Len(d.pending)
    <2>2. x \in Nat /\ x <= posted
      BY <1>2, <2>1 DEF AckOK
    <2>3. ASSUME NEW i \in 1 .. l PROVE IsOutput(p[i]) => x < p[i].chunk /\ p[i].chunk <= posted
      BY <1>4, <2>1 DEF AckOK, l
    <2>4. c - d.acked <= Window
      BY <1>1, <1>2, <2>1
    <2>5. Len(d.buffer) <= Window
      BY <2>1 DEF AckOK
    <2>6. \A i \in 1 .. l : p[i].chunk \in Nat
      <3>1. \A i \in 1 .. l : port[i] \in Message
        BY <1>2, ElementOfSeq DEF PortOK, l
      <3> QED
        BY <1>4, <3>1 DEF Message
    <2> HIDE DEF x
    <2>7. \A i \in 1 .. Len(p) : IsOutput(p[i]) => x < p[i].chunk /\ p[i].chunk <= c
      <3> SUFFICES ASSUME NEW i \in 1 .. Len(p), IsOutput(p[i]) PROVE x < p[i].chunk /\ p[i].chunk <= c
        OBVIOUS
      <3>1. CASE i \in 1 .. l
        BY <1>2, <2>1, <2>3, <2>6, <3>1
      <3>2. CASE i = l + 1
        BY <1>2, <1>4, <2>1, <2>2, <3>2
      <3> QED
        BY <1>4, <3>1, <3>2
    <2>8. \A i, j \in 1 .. Len(p) :
            i < j /\ IsOutput(p[i]) /\ IsOutput(p[j]) => p[i].chunk < p[j].chunk
      <3> SUFFICES ASSUME NEW i \in 1 .. Len(p), NEW j \in 1 .. Len(p), i < j,
                          IsOutput(p[i]), IsOutput(p[j])
                   PROVE  p[i].chunk < p[j].chunk
        OBVIOUS
      <3>1. i \in 1 .. l
        BY <1>4
      <3>2. CASE j \in 1 .. l
        BY <1>4, <2>1, <3>1, <3>2 DEF AckOK, l
      <3>3. CASE j = l + 1
        BY <1>2, <1>4, <2>1, <2>3, <2>6, <3>1, <3>3
      <3> QED
        BY <1>4, <3>2, <3>3
    <2>9. x <= c
      BY <1>2, <2>1, <2>2
    <2> QED
      BY <2>4, <2>5, <2>7, <2>8, <2>9 DEF AckOK, x
  <1>8. ASSUME "cancelled" \notin d.flags PROVE WholeOK(d, p, c)
    <2>1. WholeOK(d, port, posted) /\ c = posted + 1
      BY <1>2, <1>8 DEF Sound, StreamOK, c
    <2>2. ASSUME NEW k \in Nat, d.acked + Len(d.pending) < k, k <= c
          PROVE  \E i \in 1 .. Len(p) : IsOutput(p[i]) /\ p[i].chunk = k
      <3>1. CASE k = c
        <4>1. l + 1 \in 1 .. Len(p)
          BY <1>4
        <4> QED
          BY <1>4, <3>1, <4>1 DEF IsOutput
      <3>2. CASE k # c
        <4>1. k <= posted
          BY <1>2, <2>1, <2>2, <3>2
        <4>2. PICK i \in 1 .. l : IsOutput(port[i]) /\ port[i].chunk = k
          BY <2>1, <2>2, <4>1 DEF WholeOK, l
        <4>3. i \in 1 .. Len(p) /\ p[i] = port[i]
          BY <1>4
        <4> QED
          BY <4>2, <4>3
      <3> QED
        BY <3>1, <3>2
    <2> QED
      BY <2>1, <2>2 DEF WholeOK
  <1>9. Sound(d, p, c)
    BY <1>2, <1>7, <1>8 DEF Sound, StreamOK
  <1> QED
    BY <1>1, <1>5, <1>6, <1>9 DEF IInv, p

-----------------------------------------------------------------------------
\* Every step keeps the inductive invariant.
LEMMA NextKeeps ==
  IInv /\ [Next]_vars => IInv'
  <1> SUFFICES ASSUME IInv, [Next]_vars PROVE IInv'
    OBVIOUS
  <1>1. CASE Listen \/ Pause \/ Resume \/ Cancel \/ Deliver
    BY <1>1, ListenerKeeps
  <1>2. CASE TellDone
    BY <1>2, TellDoneKeeps
  <1>3. CASE HandleMessage
    BY <1>3, MessageKeeps
  <1>4. CASE Close \/ CloseFinishes
    BY <1>4, CloseKeeps
  <1>5. CASE Boots
    <2>1. \/ Native("SPAWNED", "up")
          \/ Native("SPAWN_FAILED", "failed")
      BY <1>5 DEF Boots
    <2>2. /\ {"SPAWNED", "SPAWN_FAILED"} \subseteq Kinds \ {"OUTPUT"} /\ {"up", "failed"} \subseteq Steps
      BY DEF Kinds, Steps
    <2> QED
      BY <2>1, <2>2, NativeKeeps
  <1>6. CASE Prints
    BY <1>6, PrintsKeeps
  <1>7. CASE ClosesOutput
    BY <1>7, NativeKeeps DEF ClosesOutput, Kinds, Steps
  <1>8. CASE Exits
    BY <1>8, NativeKeeps DEF Exits, Kinds, Steps
  <1>9. CASE Errs
    BY <1>9, NativeKeeps DEF Errs, Kinds, Steps
  <1>10. CASE Loses
    BY <1>10, NativeKeeps DEF Loses, Kinds, Steps
  <1>11. CASE ClosesSession
    BY <1>11, NativeKeeps DEF ClosesSession, Kinds, Steps
  <1>12. CASE UNCHANGED vars
    <2>1. UNCHANGED <<fut, flags, pending, buffer, heard, acked, micro, port, posted, native>>
      BY <1>12 DEF vars, dart
    <2>2. State' = State
      BY <2>1 DEF State
    <2>3. PortOK' /\ EndOK'
      BY <2>1 DEF IInv, PortOK, EndOK
    <2> QED
      BY <2>1, <2>2, <2>3 DEF IInv
  <1> QED
    BY <1>1, <1>2, <1>3, <1>4, <1>5, <1>6, <1>7, <1>8, <1>9, <1>10, <1>11, <1>12 DEF Next

\* What holds between two handlers of the isolate, whatever the listener, the
\* program and the native threads do.
THEOREM Invariant ==
  Spec => []IInv
  BY InitOK, NextKeeps, PTL DEF Spec

-----------------------------------------------------------------------------
(* What the invariant says                                                 *)

\* A sequence whose elements all lie in a smaller set is a sequence over it.
LEMMA Retype ==
  ASSUME NEW S, NEW T, NEW q \in Seq(S), \A i \in 1 .. Len(q) : q[i] \in T
  PROVE  q \in Seq(T)
  <1>1. Len(q) \in Nat /\ q \in [1 .. Len(q) -> S]
    BY LenProperties
  <1>2. q \in [1 .. Len(q) -> T]
    BY <1>1
  <1> QED
    BY <1>1, <1>2, SeqDef

\* The inductive invariant implies the type invariant.
LEMMA TypesFollow ==
  IInv => TypeOK
  <1> SUFFICES ASSUME IInv PROVE TypeOK
    OBVIOUS
  <1>1. /\ State \in StateType /\ AckOK(State, port, posted) /\ ChunksBounded(State)
        /\ MicroOK(State) /\ PortOK
    BY DEF IInv, Sound, Good, StreamOK
  <1>2. /\ fut \in [Futures -> FutureStates] /\ flags \subseteq Flags /\ pending \in Seq(Nat)
        /\ buffer \in Seq(Nat) /\ heard \in Seq(Nat) /\ acked \in Nat /\ micro \in Seq(Tasks)
        /\ posted \in 0 .. MaxOutput /\ native \subseteq Steps
        /\ port \in Seq(Message) /\ MaxOutput \in Nat /\ Window \in Nat
    BY <1>1, DartSessionAssumption DEF StateType, State, PortOK
  <1>3. /\ acked + Len(pending) <= posted /\ posted - acked <= Window /\ Len(buffer) <= Window
    BY <1>1 DEF AckOK, State
  <1>4. /\ pending \in Seq(1 .. MaxOutput) /\ buffer \in Seq(1 .. MaxOutput)
        /\ heard \in Seq(1 .. MaxOutput)
    BY <1>1, <1>2, Retype DEF ChunksBounded, State
  <1>5. Len(pending) <= Window /\ acked \in 0 .. MaxOutput
    BY <1>2, <1>3
  <1>6. Len(micro) <= 2
    <2>1. Len(micro) \in Nat /\ \A i \in 1 .. Len(micro) : micro[i] \in Tasks
      BY <1>2, ElementOfSeq
    <2>2. \A i, j \in 1 .. Len(micro) : micro[i] = micro[j] => i = j
      BY <1>1 DEF MicroOK, State
    <2>3. ASSUME Len(micro) > 2 PROVE FALSE
      <3>1. 1 \in 1 .. Len(micro) /\ 2 \in 1 .. Len(micro) /\ 3 \in 1 .. Len(micro)
        BY <2>1, <2>3
      <3>2. micro[1] # micro[2] /\ micro[1] # micro[3] /\ micro[2] # micro[3]
        BY <2>2, <3>1
      <3>3. micro[1] \in Tasks /\ micro[2] \in Tasks /\ micro[3] \in Tasks
        BY <2>1, <3>1
      <3> QED
        BY <3>2, <3>3 DEF Tasks
    <2> QED
      BY <2>1, <2>3
  <1>7. port \in Seq([kind : Kinds, chunk : 0 .. MaxOutput, ok : BOOLEAN])
    <2>1. ASSUME NEW i \in 1 .. Len(port)
          PROVE  port[i] \in [kind : Kinds, chunk : 0 .. MaxOutput, ok : BOOLEAN]
      <3>1. port[i] \in Message /\ port[i].chunk <= MaxOutput
        BY <1>1, <1>2, ElementOfSeq DEF PortOK
      <3>2. port[i].chunk \in 0 .. MaxOutput
        BY <1>2, <3>1 DEF Message
      <3> QED
        BY <3>1, <3>2 DEF Message
    <2> QED
      BY <1>2, <2>1, Retype
  <1> QED
    BY <1>2, <1>3, <1>4, <1>5, <1>6, <1>7 DEF TypeOK, FutureStates, Tasks

\* Two runs of consecutive chunks, one after the other, are one run.
LEMMA ConcatNumbered ==
  ASSUME NEW s \in Seq(Nat), NEW t \in Seq(Nat), NEW k \in Nat,
         Numbered(s, k), Numbered(t, k + Len(s))
  PROVE  s \o t \in Seq(Nat) /\ Len(s \o t) = Len(s) + Len(t) /\ Numbered(s \o t, k)
  <1> DEFINE w == s \o t
             a == Len(s)
             b == Len(t)
  <1>1. /\ w \in Seq(Nat) /\ Len(w) = a + b /\ a \in Nat /\ b \in Nat
        /\ \A i \in 1 .. a + b : w[i] = IF i <= a THEN s[i] ELSE t[i - a]
    BY ConcatProperties
  <1>2. (\A i \in 1 .. a : s[i] = k + i) /\ (\A i \in 1 .. b : t[i] = (k + a) + i)
    BY DEF Numbered
  <1> HIDE DEF w, a, b
  <1>3. ASSUME NEW i \in 1 .. a + b PROVE w[i] = k + i
    <2>1. CASE i <= a
      <3>1. i \in 1 .. a /\ w[i] = s[i]
        BY <1>1, <2>1
      <3> QED
        BY <1>2, <3>1
    <2>2. CASE ~(i <= a)
      <3>1. i - a \in 1 .. b /\ (k + a) + (i - a) = k + i /\ w[i] = t[i - a]
        BY <1>1, <2>2
      <3> QED
        BY <1>2, <3>1
    <2> QED
      BY <2>1, <2>2
  <1> QED
    BY <1>1, <1>3 DEF Numbered, w, a, b

\* Of an output that was not cancelled the isolate has the first chunks, and
\* the port the rest.
LEMMA WholeOutput ==
  ASSUME IInv, "cancelled" \notin flags
  PROVE  /\ Got = [i \in 1 .. Len(Got) |-> i]
         /\ Len(Got) = acked + Len(pending) /\ acked = Len(heard) + Len(buffer)
         /\ {port[i].chunk : i \in Outputs} = Len(Got) + 1 .. posted
         /\ \A i, j \in Outputs : i < j => port[i].chunk < port[j].chunk
  <1> DEFINE a == Len(heard)
             b == Len(buffer)
             c == Len(pending)
             hb == heard \o buffer
  <1>1. /\ heard \in Seq(Nat) /\ buffer \in Seq(Nat) /\ pending \in Seq(Nat)
        /\ acked \in Nat /\ posted \in Nat /\ port \in Seq(Message)
        /\ a \in Nat /\ b \in Nat /\ c \in Nat
    BY DEF IInv, Sound, Good, PortOK, StateType, State
  <1>2. WholeOK(State, port, posted) /\ AckOK(State, port, posted)
    BY DEF IInv, Sound, StreamOK, State
  <1>3. /\ Numbered(heard, 0) /\ Numbered(buffer, a) /\ Numbered(pending, acked)
        /\ acked = a + b
    BY <1>2 DEF WholeOK, State
  <1>4. hb \in Seq(Nat) /\ Len(hb) = a + b /\ Numbered(hb, 0)
    <2>1. 0 + a = a /\ 0 \in Nat
      BY <1>1
    <2> QED
      BY <1>1, <1>3, <2>1, ConcatNumbered
  <1> HIDE DEF a, b, c, hb
  <1>5. Got = hb \o pending
    BY DEF Got, hb
  <1>6. Got \in Seq(Nat) /\ Len(Got) = (a + b) + c /\ Numbered(Got, 0)
    <2>1. 0 + Len(hb) = acked /\ 0 \in Nat
      BY <1>1, <1>3, <1>4
    <2> QED
      BY <1>1, <1>3, <1>4, <1>5, <2>1, ConcatNumbered DEF c
  <1>7. \A i \in 1 .. Len(Got) : Got[i] = i
    <2>1. Len(Got) \in Nat
      BY <1>1, <1>6
    <2> QED
      BY <1>6, <2>1 DEF Numbered
  <1>8. Got = [i \in 1 .. Len(Got) |-> i]
    <2>1. Got \in [1 .. Len(Got) -> Nat]
      BY <1>6, LenProperties
    <2> QED
      BY <1>7, <2>1
  <1>9. Len(Got) = acked + Len(pending) /\ acked = Len(heard) + Len(buffer)
    BY <1>3, <1>6 DEF a, b, c
  <1>10. DOMAIN port = 1 .. Len(port)
    BY <1>1, LenProperties
  <1>11. {port[i].chunk : i \in Outputs} = Len(Got) + 1 .. posted
    <2> DEFINE x == acked + Len(pending)
    <2>1. x \in Nat /\ Len(Got) = x
      BY <1>1, <1>9 DEF c
    <2>2. ASSUME NEW i \in Outputs PROVE port[i].chunk \in x + 1 .. posted
      <3>1. i \in 1 .. Len(port) /\ IsOutput(port[i]) /\ port[i] \in Message
        BY <1>1, <1>10, ElementOfSeq DEF Outputs, IsOutput
      <3>2. x < port[i].chunk /\ port[i].chunk <= posted /\ port[i].chunk \in Nat
        BY <1>2, <3>1 DEF AckOK, State, Message
      <3> HIDE DEF x
      <3> QED
        BY <1>1, <2>1, <3>2
    <2>3. ASSUME NEW k \in x + 1 .. posted PROVE \E i \in Outputs : port[i].chunk = k
      <3>1. k \in Nat /\ x < k /\ k <= posted
        <4> HIDE DEF x
        <4> QED
          BY <1>1, <2>1
      <3>2. PICK i \in 1 .. Len(port) : IsOutput(port[i]) /\ port[i].chunk = k
        BY <1>2, <3>1 DEF WholeOK, State
      <3> QED
        BY <1>10, <3>2 DEF Outputs, IsOutput
    <2> HIDE DEF x
    <2> QED
      BY <2>1, <2>2, <2>3
  <1>12. \A i, j \in Outputs : i < j => port[i].chunk < port[j].chunk
    BY <1>2, <1>10 DEF AckOK, Outputs, IsOutput
  <1> QED
    BY <1>8, <1>9, <1>11, <1>12

\* NothingLost: no chunk is lost, doubled or out of order on its way from the
\* port to the listener, whatever pauses and resumes come (addNativeOutput,
\* _drain, _handleResume), for every window and number of chunks.
THEOREM NothingIsLost ==
  Spec => []NothingLost
  <1>1. IInv => NothingLost
    BY WholeOutput DEF NothingLost
  <1> QED
    BY <1>1, Invariant, PTL

\* EveryChunkAcked: a chunk is acknowledged exactly once, or the output was
\* discarded (_acknowledge at each of its calls).
THEOREM AckedOnce ==
  Spec => []EveryChunkAcked
  <1>1. IInv => EveryChunkAcked
    <2> SUFFICES ASSUME IInv PROVE EveryChunkAcked
      OBVIOUS
    <2>1. TypeOK
      BY TypesFollow
    <2>2. CASE "cancelled" \in flags
      <3>1. "discard" \in flags
        BY <2>2 DEF IInv, Sound, Good, FlagsOK, State
      <3> QED
        BY <2>1, <3>1 DEF EveryChunkAcked
    <2>3. CASE "cancelled" \notin flags
      <3> DEFINE x == acked + Len(pending)
                 T == x + 1 .. posted
                 f == [i \in Outputs |-> port[i].chunk]
      <3>1. /\ {port[i].chunk : i \in Outputs} = T
            /\ \A i, j \in Outputs : i < j => port[i].chunk < port[j].chunk
        BY <2>3, WholeOutput
      <3>2. x \in Nat /\ posted \in Nat /\ x <= posted /\ Len(port) \in Nat
            /\ DOMAIN port = 1 .. Len(port)
        <4>1. /\ pending \in Seq(Nat) /\ port \in Seq(Message) /\ acked \in Nat /\ posted \in Nat
              /\ AckOK(State, port, posted)
          BY DEF IInv, Sound, Good, StreamOK, StateType, State, PortOK
        <4> QED
          BY <4>1, LenProperties DEF AckOK, State
      <3>3. Outputs \subseteq 1 .. Len(port)
        BY <3>2 DEF Outputs
      <3>4. IsFiniteSet(Outputs)
        <4>1. 1 \in Int /\ Len(port) \in Int
          BY <3>2
        <4>2. IsFiniteSet(1 .. Len(port))
          BY <4>1, FS_Interval
        <4> QED
          BY <3>3, <4>2, FS_Subset
      <3>5. f \in [Outputs -> T] /\ \A t \in T : \E i \in Outputs : f[i] = t
        <4> HIDE DEF T
        <4> QED
          BY <3>1
      <3>6. ASSUME NEW i \in Outputs, NEW j \in Outputs, f[i] = f[j] PROVE i = j
        <4>1. f[i] \in Nat /\ f[j] \in Nat /\ f[i] = port[i].chunk /\ f[j] = port[j].chunk
          <5>1. T \subseteq Nat
            BY <3>2
          <5> HIDE DEF T
          <5> QED
            BY <3>5, <5>1
        <4>2. i \in Int /\ j \in Int
          BY <3>2, <3>3
        <4> QED
          BY <3>1, <3>6, <4>1, <4>2
      <3> HIDE DEF f, T
      <3>7. f \in Surjection(Outputs, T) /\ f \in Injection(Outputs, T)
        BY <3>5, <3>6 DEF Surjection, Injection, IsInjective
      <3>8. Cardinality(T) = Cardinality(Outputs)
        BY <3>4, <3>7, FS_Surjection
      <3>9. Cardinality(T) = posted - x
        <4> HIDE DEF x
        <4>1. x + 1 \in Int /\ posted \in Int
          BY <3>2
        <4>2. Cardinality(T) = IF x + 1 > posted THEN 0 ELSE posted - (x + 1) + 1
          BY <4>1, FS_Interval DEF T
        <4> QED
          BY <3>2, <4>2
      <3>10. posted = acked + Cardinality(Outputs) + Len(pending)
        <4>1. acked \in Nat /\ Len(pending) \in Nat
          BY DEF IInv, Sound, Good, StateType, State
        <4> QED
          BY <3>2, <3>8, <3>9, <4>1
      <3> QED
        BY <2>1, <3>10 DEF EveryChunkAcked
    <2> QED
      BY <2>2, <2>3
  <1> QED
    BY <1>1, Invariant, PTL

\* DoneMeansOver: done completes with the exit only when the output has ended
\* and all of it is with the listener's subscription, or was discarded
\* (_maybeCompleteDone).
THEOREM DoneIsOver ==
  Spec => []DoneMeansOver
  <1>1. IInv => DoneMeansOver
    <2> SUFFICES ASSUME IInv, fut["done"] = "value"
                 PROVE  /\ fut["exit"] = "value" /\ "nativeClosed" \in flags /\ pending = <<>>
                        /\ "cancelled" \in flags \/ Len(heard \o buffer) = posted
      BY DEF DoneMeansOver
    <2>1. /\ fut["exit"] = "value" /\ {"outputClosed", "drained"} \subseteq flags
          /\ "nativeClosed" \in flags /\ pending = <<>>
      BY DEF IInv, Sound, Good, DoneOK, FlagsOK, State
    <2>2. ASSUME "cancelled" \notin flags PROVE Len(heard \o buffer) = posted
      <3>1. /\ heard \in Seq(Nat) /\ buffer \in Seq(Nat) /\ acked \in Nat /\ posted \in Nat
            /\ Len(pending) = 0
        BY <2>1 DEF IInv, Sound, Good, StateType, State, PortOK
      <3>2. Len(heard \o buffer) = acked
        BY <2>2, <3>1, ConcatProperties, WholeOutput
      <3>3. acked <= posted
        BY <3>1 DEF IInv, Sound, StreamOK, AckOK, State
      <3>4. ASSUME acked < posted PROVE FALSE
        <4>1. PICK i \in 1 .. Len(port) : IsOutput(port[i])
          BY <2>2, <3>1, <3>4 DEF IInv, Sound, StreamOK, WholeOK, State
        <4> QED
          BY <2>1, <4>1 DEF IInv, EndOK
      <3> QED
        BY <3>1, <3>2, <3>3, <3>4
    <2> QED
      BY <2>1, <2>2
  <1> QED
    BY <1>1, Invariant, PTL

\* NoStrayCall: no call reaches the native session after its release, whatever
\* the user does with the output and whatever is still in the port (_close,
\* closeAndDiscard).
THEOREM NoCallStrays ==
  Spec => []NoStrayCall
  <1>1. IInv => NoStrayCall
    BY DEF IInv, Sound, Good, FlagsOK, State, NoStrayCall
  <1> QED
    BY <1>1, Invariant, PTL
=============================================================================
