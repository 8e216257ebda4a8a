--------------------------- MODULE InputFlowProofs ---------------------------
(***************************************************************************)
(* A program's input gets to the terminal in order and whole, for every    *)
(* limit, chunk size, number of submissions and their lengths, and set of  *)
(* failures: the byte counters of both sides are what they count, a future *)
(* completes when its bytes are written, what is pending keeps the session *)
(* and backpressure ends.                                                  *)
(*                                                                         *)
(* The invariant is built around bytes, a byte of submission s being a     *)
(* position below size[s].  Those up to written[s] are in the terminal,    *)
(* those from there up to offset[s] are each in exactly one chunk of the   *)
(* queue or of the reactor's hand (CoverOK, LineOK) and each in a chunk    *)
(* that Dart has in flight (ReportOK), until the input fails or closes.    *)
(* The parts that speak of the isolate come first, then those of the       *)
(* native session, then the events and the backpressure that tie the two.  *)
(***************************************************************************)
EXTENDS InputFlow, FiniteSetTheorems, SequenceTheorems, TLAPS

-----------------------------------------------------------------------------
\* The invariant, part by part.

Kinds == {"complete", "writable", "closed"}
Ids   == {<<>>} \union (Nat \X Nat)
Event == [kind : Kinds, id : Ids]
Fates == {"pending", "done", "error", "rejected"}
Stages == {"idle", "dequeue", "write", "yield", "fail", "discard", "post", "complete", "notify",
           "announce", "announceLast", "ended"}

IsolateTypes ==
    /\ size \in Seq(Nat \ {0}) /\ Len(size) <= Submissions
    /\ fate \in Seq(Fates) /\ Len(fate) = Len(size)
    /\ offset \in Seq(Nat) /\ Len(offset) = Len(size)
    /\ written \in Seq(Nat) /\ Len(written) = Len(size)
    /\ admissions \in Seq(Nat) /\ waiting \in Seq(Nat) /\ Len(waiting) <= 1
    /\ inflight \subseteq Chunk /\ owned \in 0..MaxPendingBytes
    /\ writableDue \in BOOLEAN /\ closed \in BOOLEAN /\ owner \in BOOLEAN
    /\ dart \in {"idle", "pump", "try", "flag"}
NativeTypes ==
    /\ events \in Seq(Event)
    /\ queue \in Seq(Chunk) /\ hand \in Seq(Chunk) /\ Len(hand) <= 1
    /\ queued \in Nat /\ taken \in Nat /\ queued + taken <= MaxPendingBytes
    /\ flagged \in BOOLEAN /\ stopping \in BOOLEAN /\ inputClosed \in BOOLEAN
    /\ reactor \in Stages
    /\ tty \in 0..TtyCap

\* What the controller lists, a the admissions and w the request being cut.
In(s, a, w)  == \/ \E i \in 1..Len(a) : a[i] = s
                \/ \E i \in 1..Len(w) : w[i] = s
Sorted(a, w) == /\ \A i, j \in 1..Len(a) : i < j => a[i] < a[j]
                /\ \A i \in 1..Len(a), j \in 1..Len(w) : w[j] < a[i]
Listed(s)    == In(s, admissions, waiting)
Flying(s)    == \E c \in inflight : c.try /\ c.sub = s
Trying       == dart = "try" \/ (dart = "flag" /\ waiting = <<>>)
Underway(s)  == Trying /\ s = Len(size)

\* Writes wait in the order they were made, and those not admitted have handed over nothing.
ListOK ==
    /\ Sorted(admissions, waiting)
    /\ \A i \in 1..Len(admissions) : admissions[i] \in 1..Len(size) /\ offset[admissions[i]] = 0
    /\ \A i \in 1..Len(waiting) : waiting[i] \in 1..Len(size)
\* A closed controller does nothing any more; a tryWrite is called only past an empty list.
HandlerOK ==
    /\ closed => dart = "idle" /\ admissions = <<>> /\ waiting = <<>> /\ inflight = {}
    /\ Trying => /\ admissions = <<>> /\ waiting = <<>> /\ Len(size) > 0
                 /\ offset[Len(size)] = 0 /\ size[Len(size)] <= MaxPendingBytes - owned
\* A submission is pending while it is listed, in flight or in a call, and then the owner is kept.
PendingOK ==
    /\ \A s \in 1..Len(size) : fate[s] = "pending" <=> Listed(s) \/ Flying(s) \/ Underway(s)
    /\ (\E s \in 1..Len(size) : fate[s] = "pending") => owner
\* Submissions are handed over one after the other, and none is forgotten half way.
SubsOK ==
    /\ \A s \in 1..Len(size) : offset[s] <= size[s] /\ (fate[s] = "rejected" => offset[s] = 0)
    /\ \A r, s \in 1..Len(size) :
          r < s /\ offset[s] > 0 => offset[r] = size[r] \/ fate[r] = "rejected"
    /\ ~closed => \A s \in 1..Len(size) :
          offset[s] = size[s] \/ fate[s] = "rejected" \/ Listed(s) \/ Underway(s)

\* All bytes of c come before those of d.
Precedes(c, d) == c.sub < d.sub \/ (c.sub = d.sub /\ c.to <= d.from)
\* Chunks in flight are parts of what was handed over, and no two have a byte in common.
FlyingOK ==
    /\ \A c \in inflight :
          /\ c.sub \in 1..Len(size) /\ c.off = 0 /\ c.from < c.to /\ c.to <= offset[c.sub]
          /\ ~c.try => waiting = <<c.sub>>
          /\ c.try => c.from = 0 /\ c.to = size[c.sub] /\ ~Listed(c.sub)
    /\ \A c, d \in inflight : c # d => Precedes(c, d) \/ Precedes(d, c)

InFlight == UNION {Bytes(c) : c \in inflight}
InQueue  == UNION {Bytes(queue[i]) : i \in 1..Len(queue)}
OwnedOK  == IsFiniteSet(InFlight) /\ owned = Cardinality(InFlight)

IsolateInv == ListOK /\ HandlerOK /\ PendingOK /\ SubsOK /\ FlyingOK /\ OwnedOK

\* The input failed or is closed: what is queued will be discarded.
Broken == reactor = "fail" \/ inputClosed
\* Byte p of submission s is still to be written from the chunk c.
Covers(c, s, p) == c.sub = s /\ c.from + c.off <= p /\ p < c.to

\* The queue is in order, and nothing in it is written yet.
LineOK ==
    /\ \A i \in 1..Len(queue) :
          /\ queue[i].sub \in 1..Len(size)
          /\ queue[i].from + queue[i].off < queue[i].to
          /\ queue[i].to <= offset[queue[i].sub]
          /\ written[queue[i].sub] <= queue[i].from + queue[i].off
    /\ \A i, j \in 1..Len(queue) : i < j => Precedes(queue[i], queue[j])
\* The chunk in hand comes before the queue and begins where the terminal's bytes end.
HandOK ==
    \A i \in 1..Len(hand) :
       /\ hand[i].sub \in 1..Len(size)
       /\ hand[i].from < hand[i].to /\ hand[i].from + hand[i].off <= hand[i].to
       /\ hand[i].to <= offset[hand[i].sub]
       /\ written[hand[i].sub] = hand[i].from + hand[i].off
       /\ hand[i].acc = taken /\ Remaining(hand[i]) <= hand[i].acc
       /\ reactor = "write" <=> Remaining(hand[i]) > 0
       /\ \A j \in 1..Len(queue) : Precedes(hand[i], queue[j])
\* What the reactor's place says of its hand, and of a terminal that failed.
StageOK ==
    /\ hand # <<>> <=> reactor \in {"write", "post", "complete"}
    /\ hand = <<>> => taken = 0
    /\ reactor \in {"discard", "ended"} => inputClosed
    /\ Broken => reactor \in {"fail", "discard", "ended"} \/ (reactor = "idle" /\ queued = 0)
QueuedOK == IsFiniteSet(InQueue) /\ queued = Cardinality(InQueue)
\* Every byte handed over and not written is in hand or queued, unless the input failed.
CoverOK ==
    Broken \/ \A s \in 1..Len(size) : \A p \in written[s]..(offset[s] - 1) :
                 \/ \E i \in 1..Len(hand) : Covers(hand[i], s, p)
                 \/ \E i \in 1..Len(queue) : Covers(queue[i], s, p)
\* What the terminal has: a prefix of each submission, and of the earlier ones everything.
WrittenOK ==
    /\ \A s \in 1..Len(size) : written[s] <= offset[s] /\ (fate[s] = "done" => written[s] = size[s])
    /\ \A r, s \in 1..Len(size) :
          r < s /\ written[s] > 0 /\ fate[r] # "rejected" => written[r] = size[r]

QueueInv == LineOK /\ HandOK /\ StageOK /\ QueuedOK /\ CoverOK /\ WrittenOK

\* Dart has every unwritten byte in flight, and a completion means a chunk that is written.
ReportOK ==
    /\ closed \/ \A s \in 1..Len(size) : \A p \in written[s]..(offset[s] - 1) :
                    \E c \in inflight : Covers(c, s, p)
    /\ \A c \in inflight :
          /\ \A i \in 1..Len(hand) : Id(c) = Id(hand[i]) => c.to = hand[i].to
          /\ \A i \in 1..Len(queue) : Id(c) = Id(queue[i]) => c.to = queue[i].to
          /\ \A i \in 1..Len(events) :
                events[i].kind = "complete" /\ events[i].id = Id(c) => c.to <= written[c.sub]
    /\ \A i \in 1..Len(events) : events[i].kind = "complete" =>
          \E s \in 1..Len(size) : \E f \in 0..(offset[s] - 1) : events[i].id = <<s, f>>

\* Backpressure, with what a handler or a reactor about to act already knows.
FlagOK ==
    /\ closed => stopping \/ inputClosed
    /\ (\E i \in 1..Len(events) : events[i].kind = "closed") => inputClosed
    /\ dart = "flag" => queued + taken > 0 \/ reactor \in {"notify", "fail"} \/ inputClosed
    /\ BackpressureRemembered

IInv == IsolateTypes /\ NativeTypes /\ IsolateInv /\ QueueInv /\ ReportOK /\ FlagOK

-----------------------------------------------------------------------------
\* Lemmas about the data: sets of bytes, sequences, and the smallest of three.

\* The bytes a chunk still has to write are as many as its remainder says.
LEMMA BytesCount ==
    ASSUME NEW c, c.sub \in Nat, c.from \in Nat, c.off \in Nat, c.to \in Nat, c.from + c.off <= c.to
    PROVE  IsFiniteSet(Bytes(c)) /\ Cardinality(Bytes(c)) = Remaining(c)
<1> DEFINE lo == c.from + c.off
           hi == c.to - 1
<1>1. lo \in Int /\ hi \in Int
    OBVIOUS
<1>2. IsFiniteSet(lo..hi) /\ Cardinality(lo..hi) = Remaining(c)
    <2>1. IsFiniteSet(lo..hi) /\ Cardinality(lo..hi) = IF lo > hi THEN 0 ELSE hi - lo + 1
        BY <1>1, FS_Interval
    <2> QED BY <2>1 DEF Remaining, Length
<1>3. IsFiniteSet({c.sub}) /\ Cardinality({c.sub}) = 1
    BY FS_Singleton
<1>4. IsFiniteSet({c.sub} \X (lo..hi))
      /\ Cardinality({c.sub} \X (lo..hi)) = 1 * Cardinality(lo..hi)
    BY <1>2, <1>3, FS_Product
<1>5. Remaining(c) \in Int
    BY DEF Remaining, Length
<1> QED BY <1>2, <1>4, <1>5 DEF Bytes

\* Two sets of bytes without a byte in common count as many as both together.
LEMMA DisjointCount ==
    ASSUME NEW S, NEW T, IsFiniteSet(S), IsFiniteSet(T), \A x \in S : x \notin T
    PROVE  IsFiniteSet(S \union T) /\ Cardinality(S \union T) = Cardinality(S) + Cardinality(T)
<1>1. S \cap T = {}
    OBVIOUS
<1>2. Cardinality(S) \in Nat /\ Cardinality(T) \in Nat /\ Cardinality({}) = 0
    BY FS_CardinalityType, FS_EmptySet
<1>3. Cardinality(S \union T) = Cardinality(S) + Cardinality(T) - Cardinality({})
    BY <1>1, FS_Union
<1> QED BY <1>2, <1>3, FS_Union

\* Chunks one of which precedes the other have no byte in common.
LEMMA PrecedesDisjoint ==
    ASSUME NEW c \in Chunk, NEW d \in Chunk, Precedes(c, d) \/ Precedes(d, c)
    PROVE  \A x \in Bytes(c) : x \notin Bytes(d)
BY DEF Precedes, Bytes, Chunk

\* The chunk next to be handed over ends where the smallest of the limits says.
LEMMA MinOfThree ==
    ASSUME NEW a \in Nat, NEW b \in Nat, NEW c \in Nat
    PROVE  /\ Min({a, b, c}) \in {a, b, c}
           /\ Min({a, b, c}) <= a /\ Min({a, b, c}) <= b /\ Min({a, b, c}) <= c
<1>1. \E x \in {a, b, c} : \A y \in {a, b, c} : x <= y
    OBVIOUS
<1> QED BY <1>1 DEF Min

\* The bytes the terminal accepts are at most those of both limits.
LEMMA MinOfTwo ==
    ASSUME NEW a \in Nat, NEW b \in Nat
    PROVE  Min({a, b}) \in Nat /\ Min({a, b}) <= a /\ Min({a, b}) <= b
<1>1. \E x \in {a, b} : \A y \in {a, b} : x <= y
    OBVIOUS
<1> QED BY <1>1 DEF Min

\* A sequence without its first element, index by index.
LEMMA TailIs ==
    ASSUME NEW S, NEW q \in Seq(S), q # <<>>
    PROVE  /\ Tail(q) \in Seq(S) /\ Head(q) = q[1] /\ q[1] \in S /\ Len(q) >= 1
           /\ Len(Tail(q)) = Len(q) - 1
           /\ \A i \in 1..(Len(q) - 1) : Tail(q)[i] = q[i + 1]
OBVIOUS

\* A sequence with an element put before it, index by index.
LEMMA ConsIs ==
    ASSUME NEW S, NEW q \in Seq(S), NEW x \in S
    PROVE  /\ <<x>> \o q \in Seq(S) /\ Len(<<x>> \o q) = Len(q) + 1
           /\ (<<x>> \o q)[1] = x
           /\ \A i \in 1..Len(q) : (<<x>> \o q)[i + 1] = q[i]
<1>1. <<x>> \in Seq(S) /\ Len(<<x>>) = 1 /\ <<x>>[1] = x
    OBVIOUS
<1> QED BY <1>1, ConcatProperties

\* A sequence with an element put after it, index by index.
LEMMA AppendIs ==
    ASSUME NEW S, NEW q \in Seq(S), NEW x \in S
    PROVE  /\ Append(q, x) \in Seq(S) /\ Len(Append(q, x)) = Len(q) + 1
           /\ Append(q, x)[Len(q) + 1] = x
           /\ \A i \in 1..Len(q) : Append(q, x)[i] = q[i]
BY AppendProperties

\* What PumpAdmissions leaves listed is what was listed, in the same order.
LEMMA PumpAdmissionsKeeps ==
    ASSUME NEW a \in Seq(Nat), NEW w \in Seq(Nat), Len(w) <= 1, NEW o, Sorted(a, w),
           PumpAdmissions(a, w, o)
    PROVE  /\ admissions' \in Seq(Nat) /\ waiting' \in Seq(Nat) /\ Len(waiting') <= 1
           /\ Sorted(admissions', waiting')
           /\ \A s : In(s, admissions', waiting') <=> In(s, a, w)
           /\ \A i \in 1..Len(admissions') : \E j \in 1..Len(a) : admissions'[i] = a[j]
           /\ w # <<>> => waiting' = w
<1>1. CASE Admissible(a, w, o)
    <2>1. a # <<>> /\ w = <<>> /\ admissions' = Tail(a) /\ waiting' = <<a[1]>>
        BY <1>1 DEF PumpAdmissions, Admissible
    <2>2. /\ Tail(a) \in Seq(Nat) /\ Len(a) >= 1 /\ a[1] \in Nat /\ Len(Tail(a)) = Len(a) - 1
          /\ \A i \in 1..(Len(a) - 1) : Tail(a)[i] = a[i + 1]
        BY <2>1, TailIs
    <2>3. Len(w) = 0 /\ Len(a) \in Nat
        BY <2>1, LenProperties, EmptySeq
    <2> HIDE <1>1
    <2>4. waiting' \in Seq(Nat) /\ Len(waiting') = 1 /\ waiting'[1] = a[1]
        BY <2>1, <2>2
    <2>5. Sorted(admissions', waiting')
        BY <2>1, <2>2, <2>3, <2>4 DEF Sorted
    <2>6. \A s : In(s, admissions', waiting') <=> In(s, a, w)
        <3> TAKE s
        <3>1. ASSUME NEW i \in 1..Len(a), a[i] = s PROVE In(s, admissions', waiting')
            <4>1. CASE i = 1
                BY <3>1, <4>1, <2>4 DEF In
            <4>2. CASE i # 1
                <5>1. i - 1 \in 1..(Len(a) - 1) /\ Tail(a)[i - 1] = a[i]
                    BY <4>2, <2>2, <2>3
                <5> QED BY <3>1, <5>1, <2>1, <2>2 DEF In
            <4> QED BY <4>1, <4>2
        <3>2. ASSUME NEW i \in 1..Len(admissions'), admissions'[i] = s PROVE In(s, a, w)
            <4>1. i + 1 \in 1..Len(a) /\ a[i + 1] = s
                BY <3>2, <2>1, <2>2, <2>3
            <4> QED BY <4>1 DEF In
        <3>3. ASSUME NEW i \in 1..Len(waiting'), waiting'[i] = s PROVE In(s, a, w)
            BY <3>3, <2>2, <2>3, <2>4 DEF In
        <3> QED BY <3>1, <3>2, <3>3, <2>3 DEF In
    <2>7. \A i \in 1..Len(admissions') : \E j \in 1..Len(a) : admissions'[i] = a[j]
        BY <2>1, <2>2, <2>3
    <2> QED BY <2>1, <2>2, <2>4, <2>5, <2>6, <2>7
<1>2. CASE ~Admissible(a, w, o)
    BY <1>2 DEF PumpAdmissions
<1> QED BY <1>1, <1>2

\* The submissions of the model are the numbers up to their count.
LEMMA SubsIs == IsolateTypes => Subs = 1..Len(size) /\ Cardinality(Subs) = Len(size)
<1> SUFFICES ASSUME IsolateTypes PROVE Subs = 1..Len(size) /\ Cardinality(Subs) = Len(size)
    OBVIOUS
<1>1. Len(size) \in Nat /\ DOMAIN size = 1..Len(size)
    BY LenProperties DEF IsolateTypes
<1>2. Cardinality(1..Len(size)) = IF 1 > Len(size) THEN 0 ELSE Len(size) - 1 + 1
    BY <1>1, FS_Interval
<1> QED BY <1>1, <1>2 DEF Subs

\* What the isolate records of each submission are numbers.
LEMMA RecordsAre ==
    IsolateTypes => /\ Len(size) \in Nat
                    /\ \A s \in 1..Len(size) : size[s] \in Nat \ {0}
                    /\ \A s \in 1..Len(size) : offset[s] \in Nat
                    /\ \A s \in 1..Len(size) : written[s] \in Nat
<1> SUFFICES ASSUME IsolateTypes
             PROVE  /\ Len(size) \in Nat
                    /\ \A s \in 1..Len(size) : size[s] \in Nat \ {0}
                    /\ \A s \in 1..Len(size) : offset[s] \in Nat
                    /\ \A s \in 1..Len(size) : written[s] \in Nat
    OBVIOUS
<1>1. /\ size \in Seq(Nat \ {0}) /\ offset \in Seq(Nat) /\ written \in Seq(Nat)
      /\ Len(offset) = Len(size) /\ Len(written) = Len(size)
    BY DEF IsolateTypes
<1> QED BY <1>1, ElementOfSeq, LenProperties

\* A chunk's fields are numbers, and so is what is left of it once it is not overrun.
LEMMA ChunkIs ==
    ASSUME NEW c \in Chunk
    PROVE  /\ c.sub \in Nat /\ c.from \in Nat /\ c.to \in Nat /\ c.off \in Nat /\ c.acc \in Nat
           /\ Remaining(c) = c.to - c.from - c.off
           /\ c.from + c.off <= c.to => Remaining(c) \in Nat
           /\ c.from + c.off < c.to => Remaining(c) > 0
<1>1. c.sub \in Nat /\ c.from \in Nat /\ c.to \in Nat /\ c.off \in Nat /\ c.acc \in Nat
    BY DEF Chunk
<1>2. Remaining(c) = c.to - c.from - c.off
    BY DEF Remaining, Length
<1> QED BY <1>1, <1>2

\* What flush() waits for, element by element.
LEMMA OutstandingIs ==
    IsolateTypes => \A s : s \in Outstanding <=> Listed(s) \/ Flying(s)
<1> SUFFICES ASSUME IsolateTypes, NEW s PROVE s \in Outstanding <=> Listed(s) \/ Flying(s)
    OBVIOUS
<1>1. /\ Range(admissions) = {admissions[i] : i \in 1..Len(admissions)}
      /\ Range(waiting) = {waiting[i] : i \in 1..Len(waiting)}
    BY RangeEquality DEF IsolateTypes
<1> QED BY <1>1 DEF Outstanding, Listed, Flying, In

\* Settle changes what is pending and nothing else.
LEMMA SettleIs ==
    ASSUME NEW ss, NEW f \in Fates, IsolateTypes, Settle(ss, f)
    PROVE  /\ fate' \in Seq(Fates) /\ Len(fate') = Len(size)
           /\ \A s \in 1..Len(size) :
                 fate'[s] = IF s \in ss /\ fate[s] = "pending" THEN f ELSE fate[s]
<1>1. Subs = 1..Len(size) /\ Len(size) \in Nat
    BY SubsIs, LenProperties DEF IsolateTypes
<1>2. \A s \in 1..Len(size) : fate[s] \in Fates
    BY ElementOfSeq DEF IsolateTypes
<1>3. fate' \in [1..Len(size) -> Fates]
    BY <1>1, <1>2 DEF Settle
<1>4. fate' \in Seq(Fates)
    BY <1>1, <1>3, SeqDef
<1>5. Len(fate') = Len(size)
    <2>1. Len(fate') \in Nat /\ 1..Len(fate') = 1..Len(size)
        BY <1>3, <1>4, LenProperties
    <2>2. \A m, n \in Nat : 1..m = 1..n => m = n
        OBVIOUS
    <2> QED BY <2>1, <2>2, <1>1
<1>6. \A s \in 1..Len(size) :
          fate'[s] = IF s \in ss /\ fate[s] = "pending" THEN f ELSE fate[s]
    BY <1>1 DEF Settle
<1> QED BY <1>4, <1>5, <1>6

-----------------------------------------------------------------------------
\* The isolate's own bookkeeping, handler by handler.

\* With the chunks in flight and their count unchanged the count stays right.
LEMMA OwnedSame == OwnedOK /\ UNCHANGED <<inflight, owned>> => OwnedOK'
BY DEF OwnedOK, InFlight

\* What is recorded of a new submission, and that the earlier ones keep their records.
LEMMA SubmitIs ==
    ASSUME NEW n \in Nat \ {0}, NEW f \in Fates, IsolateTypes, Submit(n, f)
    PROVE  /\ Len(size) \in Nat /\ Len(size) + 1 <= Submissions
           /\ size' \in Seq(Nat \ {0}) /\ Len(size') = Len(size) + 1 /\ size'[Len(size) + 1] = n
           /\ fate' \in Seq(Fates) /\ Len(fate') = Len(size) + 1 /\ fate'[Len(size) + 1] = f
           /\ offset' \in Seq(Nat) /\ Len(offset') = Len(size) + 1 /\ offset'[Len(size) + 1] = 0
           /\ written' \in Seq(Nat) /\ Len(written') = Len(size) + 1 /\ written'[Len(size) + 1] = 0
           /\ \A s \in 1..Len(size) : /\ size'[s] = size[s] /\ fate'[s] = fate[s]
                                      /\ offset'[s] = offset[s] /\ written'[s] = written[s]
<1>1. Len(size) \in Nat /\ Len(size) < Submissions /\ Submissions \in Nat
    BY SubsIs, LenProperties, InputFlowAssumption DEF IsolateTypes, Submit
<1>2. /\ size' \in Seq(Nat \ {0}) /\ Len(size') = Len(size) + 1 /\ size'[Len(size) + 1] = n
      /\ \A s \in 1..Len(size) : size'[s] = size[s]
    BY AppendProperties DEF Submit, IsolateTypes
<1>3. /\ fate' \in Seq(Fates) /\ Len(fate') = Len(size) + 1 /\ fate'[Len(size) + 1] = f
      /\ \A s \in 1..Len(size) : fate'[s] = fate[s]
    <2>1. fate \in Seq(Fates) /\ Len(fate) = Len(size) /\ fate' = Append(fate, f)
        BY DEF Submit, IsolateTypes
    <2> HIDE DEF Fates
    <2>2. fate' \in Seq(Fates)
        BY <2>1, AppendProperties
    <2>3. Len(fate') = Len(size) + 1
        BY <2>1, AppendProperties
    <2>4. fate'[Len(size) + 1] = f
        BY <2>1, AppendProperties
    <2>5. \A s \in 1..Len(size) : fate'[s] = fate[s]
        BY <2>1, AppendProperties
    <2> QED BY <2>2, <2>3, <2>4, <2>5
<1>4. /\ offset' \in Seq(Nat) /\ Len(offset') = Len(size) + 1 /\ offset'[Len(size) + 1] = 0
      /\ \A s \in 1..Len(size) : offset'[s] = offset[s]
    <2>1. offset \in Seq(Nat) /\ Len(offset) = Len(size) /\ offset' = Append(offset, 0)
        BY DEF Submit, IsolateTypes
    <2> QED BY <2>1, AppendIs
<1>5. /\ written' \in Seq(Nat) /\ Len(written') = Len(size) + 1 /\ written'[Len(size) + 1] = 0
      /\ \A s \in 1..Len(size) : written'[s] = written[s]
    <2>1. written \in Seq(Nat) /\ Len(written) = Len(size) /\ written' = Append(written, 0)
        BY DEF Submit, IsolateTypes
    <2> QED BY <2>1, AppendIs
<1>6. \A s \in 1..Len(size) : /\ size'[s] = size[s] /\ fate'[s] = fate[s]
                               /\ offset'[s] = offset[s] /\ written'[s] = written[s]
    BY <1>2, <1>3, <1>4, <1>5
<1> QED BY <1>1, <1>2, <1>3, <1>4, <1>5, <1>6

\* A new submission changes nothing of the earlier ones.
LEMMA SubmitKeepsSubs ==
    ASSUME NEW n \in Nat \ {0}, NEW f \in Fates, IsolateTypes, SubsOK, Submit(n, f),
           ~Trying, closed' = closed,
           \A s : Listed(s) => Listed(s)',
           f = "rejected" \/ In(Len(size) + 1, admissions', waiting') \/ Trying'
    PROVE  SubsOK'
<1> DEFINE N == Len(size) + 1
<1>1. /\ Len(size) \in Nat /\ Len(size') = N /\ size'[N] = n /\ fate'[N] = f /\ offset'[N] = 0
      /\ \A s \in 1..Len(size) : size'[s] = size[s] /\ fate'[s] = fate[s] /\ offset'[s] = offset[s]
    BY SubmitIs
<1>2. /\ \A s \in 1..N : s \in 1..Len(size) \/ s = N
      /\ \A s \in 1..Len(size) : s # N /\ s < N
      /\ \A r \in 1..N, s \in 1..Len(size) : r < s => r \in 1..Len(size)
    BY <1>1
<1>3. ASSUME NEW s \in 1..N
      PROVE  offset'[s] <= size'[s] /\ (fate'[s] = "rejected" => offset'[s] = 0)
    <2>1. CASE s \in 1..Len(size)
        <3>1. offset[s] <= size[s] /\ (fate[s] = "rejected" => offset[s] = 0)
            BY <2>1 DEF SubsOK
        <3> QED BY <2>1, <3>1, <1>1
    <2>2. CASE s = N
        BY <2>2, <1>1
    <2> QED BY <2>1, <2>2, <1>2
<1>4. ASSUME NEW r \in 1..N, NEW s \in 1..N, r < s, offset'[s] > 0
      PROVE  offset'[r] = size'[r] \/ fate'[r] = "rejected"
    <2>1. s \in 1..Len(size) /\ r \in 1..Len(size)
        BY <1>1, <1>2, <1>4
    <2>2. offset[s] > 0 => offset[r] = size[r] \/ fate[r] = "rejected"
        BY <2>1, <1>4 DEF SubsOK
    <2> QED BY <2>1, <2>2, <1>1, <1>4
<1>5. ASSUME ~closed', NEW s \in 1..N
      PROVE  offset'[s] = size'[s] \/ fate'[s] = "rejected" \/ Listed(s)' \/ Underway(s)'
    <2>1. CASE s \in 1..Len(size)
        <3>1. offset[s] = size[s] \/ fate[s] = "rejected" \/ Listed(s)
            BY <1>5, <2>1 DEF SubsOK, Underway
        <3> QED BY <2>1, <3>1, <1>1
    <2>2. CASE s = N
        BY <2>2, <1>1 DEF Underway, Listed
    <2> QED BY <2>1, <2>2, <1>2
<1> QED BY <1>1, <1>3, <1>4, <1>5 DEF SubsOK

\* A new submission leaves the chunks in flight where they were.
LEMMA SubmitKeepsFlying ==
    ASSUME NEW n \in Nat \ {0}, NEW f \in Fates, IsolateTypes, FlyingOK, Submit(n, f),
           inflight' = inflight, waiting # <<>> => waiting' = waiting,
           \A s \in 1..Len(size) : Listed(s)' <=> Listed(s)
    PROVE  FlyingOK'
<1>1. /\ Len(size) \in Nat /\ Len(size') = Len(size) + 1
      /\ \A s \in 1..Len(size) : size'[s] = size[s] /\ offset'[s] = offset[s]
    BY SubmitIs
<1>2. ASSUME NEW c \in inflight
      PROVE  /\ c.sub \in 1..Len(size') /\ c.off = 0 /\ c.from < c.to /\ c.to <= offset'[c.sub]
             /\ ~c.try => waiting' = <<c.sub>>
             /\ c.try => c.from = 0 /\ c.to = size'[c.sub] /\ ~Listed(c.sub)'
    <2>1. /\ c.sub \in 1..Len(size) /\ c.off = 0 /\ c.from < c.to /\ c.to <= offset[c.sub]
          /\ ~c.try => waiting = <<c.sub>>
          /\ c.try => c.from = 0 /\ c.to = size[c.sub] /\ ~Listed(c.sub)
        BY DEF FlyingOK
    <2>2. c.sub \in 1..Len(size') /\ <<c.sub>> # <<>>
        BY <2>1, <1>1
    <2> QED BY <1>1, <2>1, <2>2
<1> QED BY <1>1, <1>2 DEF FlyingOK

\* A write is listed behind all that was listed.
LEMMA WriteKeeps ==
    ASSUME IsolateTypes, IsolateInv, NEW n \in WriteSizes, Write(n)
    PROVE  IsolateTypes' /\ IsolateInv'
<1> DEFINE N == Len(size) + 1
           a == Append(admissions, N)
<1>1. /\ dart = "idle" /\ ~closed /\ Submit(n, "pending") /\ owner' = TRUE
      /\ PumpAdmissions(a, waiting, owned) /\ dart' = "pump"
      /\ UNCHANGED <<inflight, owned, writableDue, closed>>
    BY DEF Write
<1>2. n \in Nat \ {0} /\ "pending" \in Fates
    BY InputFlowAssumption DEF Fates
<1>3. /\ Len(size) \in Nat /\ N <= Submissions
      /\ size' \in Seq(Nat \ {0}) /\ Len(size') = N /\ size'[N] = n
      /\ fate' \in Seq(Fates) /\ Len(fate') = N /\ fate'[N] = "pending"
      /\ offset' \in Seq(Nat) /\ Len(offset') = N /\ offset'[N] = 0
      /\ written' \in Seq(Nat) /\ Len(written') = N
      /\ \A s \in 1..Len(size) : size'[s] = size[s] /\ fate'[s] = fate[s] /\ offset'[s] = offset[s]
    BY <1>1, <1>2, SubmitIs
<1>4. /\ a \in Seq(Nat) /\ Len(a) = Len(admissions) + 1 /\ a[Len(admissions) + 1] = N
      /\ \A i \in 1..Len(admissions) : a[i] = admissions[i]
      /\ Len(admissions) \in Nat /\ waiting \in Seq(Nat) /\ Len(waiting) <= 1 /\ Len(waiting) \in Nat
    BY <1>3, AppendProperties, LenProperties DEF IsolateTypes
<1>5. PICK L \in Nat : L = Len(size)
    BY <1>3
<1> HIDE DEF a
<1>17. \A i \in 1..Len(a) : i \in 1..Len(admissions) \/ (i = Len(admissions) + 1 /\ a[i] = N)
    BY <1>4
<1>19. \A s \in 1..Len(size) : s \in Nat /\ s # N /\ s < N /\ s \in 1..N
    <2>1. Len(size) \in Nat
        BY <1>3
    <2> QED BY <2>1
<1>18. /\ \A i \in 1..Len(admissions) : admissions[i] \in Nat /\ admissions[i] < N
       /\ \A i \in 1..Len(waiting) : waiting[i] \in Nat /\ waiting[i] < N
    <2>1. /\ \A i \in 1..Len(admissions) : admissions[i] \in 1..Len(size)
          /\ \A i \in 1..Len(waiting) : waiting[i] \in 1..Len(size)
        BY DEF IsolateInv, ListOK
    <2> HIDE DEF N
    <2> QED BY <2>1, <1>19
<1>6. Sorted(a, waiting)
    <2>1. \A i, j \in 1..Len(a) : i < j => a[i] < a[j]
        <3>1. \A i, j \in 1..Len(admissions) : i < j => admissions[i] < admissions[j]
            BY DEF IsolateInv, ListOK, Sorted
        <3> SUFFICES ASSUME NEW i \in 1..Len(a), NEW j \in 1..Len(a), i < j PROVE a[i] < a[j]
            OBVIOUS
        <3>2. i \in 1..Len(admissions) /\ a[i] = admissions[i]
            BY <1>4
        <3>3. CASE j \in 1..Len(admissions)
            BY <3>1, <3>2, <3>3, <1>4
        <3>4. CASE a[j] = N
            BY <3>2, <3>4, <1>18
        <3> QED BY <3>3, <3>4, <1>17
    <2>2. \A i \in 1..Len(a), j \in 1..Len(waiting) : waiting[j] < a[i]
        BY <1>3, <1>4, <1>17, <1>18 DEF IsolateInv, ListOK, Sorted
    <2> QED BY <2>1, <2>2 DEF Sorted
<1>7. /\ admissions' \in Seq(Nat) /\ waiting' \in Seq(Nat) /\ Len(waiting') <= 1
      /\ Sorted(admissions', waiting')
      /\ \A s : In(s, admissions', waiting') <=> In(s, a, waiting)
      /\ \A i \in 1..Len(admissions') : \E j \in 1..Len(a) : admissions'[i] = a[j]
      /\ waiting # <<>> => waiting' = waiting
    BY <1>1, <1>4, <1>6, PumpAdmissionsKeeps
<1>8. \A s : Listed(s)' <=> Listed(s) \/ s = N
    <2> TAKE s
    <2>1. (\E i \in 1..Len(a) : a[i] = s) <=> (\E i \in 1..Len(admissions) : admissions[i] = s) \/ s = N
        <3>1. 1..Len(admissions) \subseteq 1..Len(a) /\ Len(admissions) + 1 \in 1..Len(a)
            BY <1>4
        <3> QED BY <1>4, <1>17, <3>1
    <2>2. In(s, a, waiting) <=> In(s, admissions, waiting) \/ s = N
        BY <2>1 DEF In
    <2> QED BY <2>2, <1>7 DEF Listed
<1>9. ~Trying /\ ~Trying'
    BY <1>1 DEF Trying
<1>10. IsolateTypes'
    BY <1>1, <1>3, <1>7 DEF IsolateTypes
<1>11. ListOK'
    <2>1. \A j \in 1..Len(a) : a[j] \in 1..N /\ offset'[a[j]] = 0
        <3>1. \A j \in 1..Len(admissions) :
                 admissions[j] \in 1..Len(size) /\ offset[admissions[j]] = 0
            BY DEF IsolateInv, ListOK
        <3>2. N \in 1..N /\ 1..Len(size) \subseteq 1..N
            BY <1>3
        <3> SUFFICES ASSUME NEW j \in 1..Len(a) PROVE a[j] \in 1..N /\ offset'[a[j]] = 0
            OBVIOUS
        <3>3. CASE j \in 1..Len(admissions)
            <4>1. a[j] = admissions[j] /\ admissions[j] \in 1..Len(size) /\ offset[admissions[j]] = 0
                BY <3>1, <3>3, <1>4
            <4> QED BY <4>1, <3>2, <1>3
        <3> QED BY <3>2, <3>3, <1>3, <1>17
    <2>2. \A i \in 1..Len(waiting') : waiting'[i] \in 1..N
        <3>1. \A i \in 1..Len(waiting') : In(waiting'[i], a, waiting)
            BY <1>7 DEF In
        <3>2. \A i \in 1..Len(waiting) : waiting[i] \in 1..N
            BY <1>3 DEF IsolateInv, ListOK
        <3> QED BY <2>1, <3>1, <3>2 DEF In
    <2> QED BY <1>3, <1>7, <2>1, <2>2 DEF ListOK
<1>12. HandlerOK'
    BY <1>1, <1>9 DEF HandlerOK
<1>13. PendingOK'
    <2>1. \A s \in 1..Len(size) : Flying(s)' = Flying(s)
        BY <1>1 DEF Flying
    <2>2. \A s \in 1..N : s \in 1..Len(size) \/ s = N
        BY <1>3
    <2>3. ASSUME NEW s \in 1..Len(size)
          PROVE  fate[s] = "pending" <=> Listed(s) \/ Flying(s) \/ Underway(s)
        BY DEF IsolateInv, PendingOK
    <2>5. /\ \A s \in 1..Len(size) : fate'[s] = fate[s]
          /\ fate'[N] = "pending"
        BY <1>3
    <2> HIDE DEF N
    <2>4. \A s \in 1..N : fate'[s] = "pending" <=> Listed(s)' \/ Flying(s)' \/ Underway(s)'
        BY <1>8, <1>9, <1>19, <2>1, <2>2, <2>3, <2>5 DEF Underway
    <2> QED BY <1>1, <1>3, <2>4 DEF PendingOK, N
<1>14. SubsOK'
    <2>1. In(N, admissions', waiting')
        BY <1>8 DEF Listed
    <2> QED BY <1>1, <1>2, <1>8, <1>9, <2>1, SubmitKeepsSubs DEF IsolateInv
<1>15. FlyingOK'
    <2>1. \A s \in 1..Len(size) : Listed(s)' <=> Listed(s)
        BY <1>8, <1>19
    <2> QED BY <1>1, <1>2, <1>7, <2>1, SubmitKeepsFlying DEF IsolateInv
<1>16. OwnedOK'
    BY <1>1, OwnedSame DEF IsolateInv
<1> QED BY <1>10, <1>11, <1>12, <1>13, <1>14, <1>15, <1>16 DEF IsolateInv

\* A tryWrite is refused at once, or goes on to its native call with nothing listed.
LEMMA TryWriteKeeps ==
    ASSUME IsolateTypes, IsolateInv, NEW n \in TrySizes, TryWrite(n)
    PROVE  IsolateTypes' /\ IsolateInv'
<1> DEFINE N == Len(size) + 1
<1>1. /\ dart = "idle" /\ ~closed
      /\ UNCHANGED <<admissions, waiting, inflight, owned, writableDue, closed>>
      /\ ~Trying
    BY DEF TryWrite, Trying
<1>2. n \in Nat \ {0} /\ "pending" \in Fates /\ "rejected" \in Fates
    BY InputFlowAssumption DEF Fates
<1>3. PICK f \in Fates :
         /\ Submit(n, f)
         /\ \/ f = "rejected" /\ UNCHANGED <<owner, dart>>
            \/ f = "pending" /\ owner' = TRUE /\ dart' = "try" /\ ~MustWait(n)
    BY <1>2 DEF TryWrite
<1>4. /\ Len(size) \in Nat /\ N <= Submissions
      /\ size' \in Seq(Nat \ {0}) /\ Len(size') = N /\ size'[N] = n
      /\ fate' \in Seq(Fates) /\ Len(fate') = N /\ fate'[N] = f
      /\ offset' \in Seq(Nat) /\ Len(offset') = N /\ offset'[N] = 0
      /\ written' \in Seq(Nat) /\ Len(written') = N
      /\ \A s \in 1..Len(size) : size'[s] = size[s] /\ fate'[s] = fate[s] /\ offset'[s] = offset[s]
    BY <1>2, <1>3, SubmitIs
<1>5. \A s : (Listed(s)' <=> Listed(s)) /\ (Flying(s)' <=> Flying(s))
    BY <1>1 DEF Listed, In, Flying
<1>6. ~Listed(N) /\ ~Flying(N)
    <2>1. \A s : Listed(s) => s \in 1..Len(size)
        BY DEF IsolateInv, ListOK, Listed, In
    <2>2. \A s : Flying(s) => s \in 1..Len(size)
        BY DEF IsolateInv, FlyingOK, Flying
    <2> QED BY <1>4, <2>1, <2>2
<1>7. Trying' <=> f = "pending"
    <2>1. CASE f = "rejected"
        BY <1>1, <1>3, <2>1 DEF Trying
    <2>2. CASE f = "pending"
        BY <1>3, <2>2 DEF Trying
    <2> QED BY <1>3, <2>1, <2>2
<1>8. IsolateTypes'
    BY <1>1, <1>3, <1>4 DEF IsolateTypes
<1>9. ListOK'
    <2>1. Sorted(admissions', waiting')
        BY <1>1 DEF IsolateInv, ListOK
    <2>2. ASSUME NEW s \in 1..Len(size) PROVE s \in 1..N /\ offset'[s] = offset[s]
        BY <1>4
    <2>3. /\ \A i \in 1..Len(admissions) :
                admissions[i] \in 1..Len(size) /\ offset[admissions[i]] = 0
          /\ \A i \in 1..Len(waiting) : waiting[i] \in 1..Len(size)
        BY DEF IsolateInv, ListOK
    <2>4. \A i \in 1..Len(admissions) : admissions[i] \in 1..N /\ offset'[admissions[i]] = 0
        BY <2>2, <2>3
    <2>5. \A i \in 1..Len(waiting) : waiting[i] \in 1..N
        BY <2>2, <2>3
    <2> QED BY <1>1, <1>4, <2>1, <2>4, <2>5 DEF ListOK
<1>10. HandlerOK'
    <2>1. f = "pending" => admissions = <<>> /\ waiting = <<>> /\ n <= MaxPendingBytes - owned
        <3>1. f = "pending" => ~MustWait(n)
            BY <1>3
        <3>2. n \in Nat /\ MaxPendingBytes \in Nat /\ owned \in Nat
            BY <1>2, InputFlowAssumption DEF IsolateTypes
        <3> QED BY <3>1, <3>2 DEF MustWait
    <2> QED BY <1>1, <1>4, <1>7, <2>1 DEF HandlerOK
<1>11. PendingOK'
    <2>1. \A s \in 1..N : s = N \/ s \in 1..Len(size)
        BY <1>4
    <2>2. ASSUME NEW s \in 1..Len(size)
          PROVE  (fate[s] = "pending" <=> Listed(s) \/ Flying(s)) /\ s # N
        BY <1>1, <1>4 DEF IsolateInv, PendingOK, Underway
    <2>3. \A s \in 1..N : fate'[s] = "pending" <=> Listed(s)' \/ Flying(s)' \/ Underway(s)'
        BY <1>3, <1>4, <1>5, <1>6, <1>7, <2>1, <2>2 DEF Underway
    <2>4. (\E s \in 1..N : fate'[s] = "pending") => owner'
        <3>1. (\E s \in 1..Len(size) : fate[s] = "pending") => owner
            BY DEF IsolateInv, PendingOK
        <3>2. fate'[N] = f /\ \A s \in 1..Len(size) : fate'[s] = fate[s]
            BY <1>4
        <3>3. (f = "rejected" /\ owner' = owner) \/ owner' = TRUE
            BY <1>3
        <3> HIDE DEF N
        <3> QED BY <2>1, <3>1, <3>2, <3>3
    <2> QED BY <1>4, <2>3, <2>4 DEF PendingOK
<1>12. SubsOK'
    BY <1>1, <1>2, <1>3, <1>5, <1>7, SubmitKeepsSubs DEF IsolateInv
<1>13. FlyingOK'
    BY <1>1, <1>2, <1>3, <1>5, SubmitKeepsFlying DEF IsolateInv
<1>14. OwnedOK'
    BY <1>1, OwnedSame DEF IsolateInv
<1> QED BY <1>8, <1>9, <1>10, <1>11, <1>12, <1>13, <1>14 DEF IsolateInv

\* With nothing changed but the handler's place, and no call of tryWrite begun or
\* ended, the bookkeeping is what it was.
LEMMA PlaceKeeps ==
    ASSUME IsolateTypes, IsolateInv, dart' \in {"idle", "pump", "try", "flag"},
           UNCHANGED <<size, fate, admissions, waiting, offset, inflight, owned, closed, written>>,
           writableDue' \in BOOLEAN,
           owner' \in BOOLEAN, (\E s \in 1..Len(size) : fate[s] = "pending") /\ owner => owner',
           Trying' <=> Trying, closed => dart' = "idle"
    PROVE  IsolateTypes' /\ IsolateInv'
<1>1. \A s : /\ Listed(s)' <=> Listed(s)
             /\ Flying(s)' <=> Flying(s)
             /\ Underway(s)' <=> Underway(s)
    BY DEF Listed, In, Flying, Underway
<1>2. IsolateTypes'
    BY DEF IsolateTypes
<1>3. ListOK'
    BY DEF IsolateInv, ListOK, Sorted
<1>4. HandlerOK'
    BY DEF IsolateInv, HandlerOK
<1>5. PendingOK'
    BY <1>1 DEF IsolateInv, PendingOK
<1>6. SubsOK'
    BY <1>1 DEF IsolateInv, SubsOK
<1>7. FlyingOK'
    BY <1>1 DEF IsolateInv, FlyingOK
<1>8. OwnedOK'
    BY OwnedSame DEF IsolateInv
<1> QED BY <1>2, <1>3, <1>4, <1>5, <1>6, <1>7, <1>8 DEF IsolateInv

\* closeWithError leaves nothing pending and nothing in flight, whatever it finds,
\* as long as every submission whose call is under way is among those it is told of.
LEMMA CloseKeeps ==
    ASSUME IsolateTypes, IsolateInv, NEW ss, \A s : Underway(s) => s \in ss,
           CloseWithError(ss), dart' = "idle",
           UNCHANGED <<size, offset, written, writableDue>>
    PROVE  IsolateTypes' /\ IsolateInv'
<1>1. /\ closed' = TRUE /\ Settle(Outstanding \union ss, "error")
      /\ admissions' = <<>> /\ waiting' = <<>> /\ inflight' = {}
      /\ owned' = 0 /\ owner' = FALSE
    BY DEF CloseWithError
<1>2. /\ fate' \in Seq(Fates) /\ Len(fate') = Len(size)
      /\ \A s \in 1..Len(size) :
            fate'[s] = IF s \in Outstanding \union ss /\ fate[s] = "pending" THEN "error" ELSE fate[s]
    <2>1. "error" \in Fates
        BY DEF Fates
    <2> HIDE DEF Fates
    <2> QED BY <1>1, <2>1, SettleIs
<1>3. \A s \in 1..Len(size) : /\ fate'[s] # "pending"
                              /\ fate'[s] = "rejected" <=> fate[s] = "rejected"
    <2> TAKE s \in 1..Len(size)
    <2>1. fate[s] = "pending" => s \in Outstanding \union ss
        BY OutstandingIs DEF IsolateInv, PendingOK
    <2> QED BY <1>2, <2>1
<1>4. <<>> \in Seq(Nat) /\ Len(<<>>) = 0
    OBVIOUS
<1>5. ~Trying'
    BY DEF Trying
<1>6. IsolateTypes'
    <2>1. owned' \in 0..MaxPendingBytes
        BY <1>1, InputFlowAssumption
    <2>2. inflight' \subseteq Chunk /\ closed' \in BOOLEAN /\ owner' \in BOOLEAN
        BY <1>1
    <2>3. admissions' \in Seq(Nat) /\ waiting' \in Seq(Nat) /\ Len(waiting') <= 1
        BY <1>1, <1>4
    <2> HIDE DEF Fates
    <2> QED BY <1>2, <2>1, <2>2, <2>3 DEF IsolateTypes
<1>7. ListOK'
    BY <1>1, <1>4 DEF ListOK, Sorted
<1>8. HandlerOK'
    BY <1>1, <1>5 DEF HandlerOK
<1>9. PendingOK'
    <2>1. \A s : ~Listed(s)' /\ ~Flying(s)' /\ ~Underway(s)'
        BY <1>1, <1>4, <1>5 DEF Listed, In, Flying, Underway
    <2> QED BY <1>3, <2>1 DEF PendingOK
<1>10. SubsOK'
    BY <1>1, <1>3 DEF IsolateInv, SubsOK
<1>11. FlyingOK'
    BY <1>1 DEF FlyingOK
<1>12. OwnedOK'
    <2>1. InFlight' = {}
        BY <1>1 DEF InFlight
    <2> QED BY <1>1, <2>1, FS_EmptySet DEF OwnedOK
<1> QED BY <1>6, <1>7, <1>8, <1>9, <1>10, <1>11, <1>12 DEF IsolateInv

\* A chunk the controller may hand over: the next bytes of the submission whose turn
\* it is, as many as the window has room for.
MayHand(c) ==
    /\ c \in Chunk /\ c.off = 0 /\ c.sub \in 1..Len(size) /\ ~closed
    /\ c.from = offset[c.sub] /\ c.from < c.to /\ c.to <= size[c.sub]
    /\ c.to - c.from <= MaxPendingBytes - owned
    /\ fate[c.sub] = "pending"
    /\ \A r \in 1..Len(size) : r < c.sub => offset[r] = size[r] \/ fate[r] = "rejected"
    /\ c.try <=> Trying
    /\ c.try => c.sub = Len(size) /\ c.from = 0 /\ c.to = size[c.sub]
    /\ ~c.try => waiting = <<c.sub>>

\* The chunk _pump cuts is one it may hand over.
LEMMA NextChunkIs ==
    ASSUME IsolateTypes, IsolateInv, dart = "pump", ~PumpDone
    PROVE  MayHand(NextChunk) /\ NextChunk.try = FALSE
<1>1. /\ ~closed /\ owned # MaxPendingBytes /\ waiting # <<>>
      /\ offset[Head(waiting)] # size[Head(waiting)] /\ ~Trying
    BY DEF PumpDone, Trying
<1>2. PICK s : s = waiting[1]
    OBVIOUS
<1>3. /\ Head(waiting) = s /\ waiting = <<s>> /\ Len(waiting) = 1
    <2>1. waiting \in Seq(Nat) /\ Len(waiting) <= 1 /\ waiting # <<>>
        BY <1>1 DEF IsolateTypes
    <2>2. Len(waiting) = 1 /\ Head(waiting) = waiting[1]
        <3>1. Len(waiting) \in Nat /\ Len(waiting) >= 1
            BY <2>1, LenProperties, TailIs
        <3>2. Len(waiting) = 1
            <4>1. Len(waiting) <= 1
                BY <2>1
            <4>2. \A k \in Nat : k >= 1 /\ k <= 1 => k = 1
                OBVIOUS
            <4> QED BY <3>1, <4>1, <4>2
        <3>3. Head(waiting) = waiting[1]
            BY <2>1, TailIs
        <3> QED BY <3>2, <3>3
    <2>3. <<s>> \in Seq(Nat) /\ Len(<<s>>) = 1 /\ <<s>>[1] = s
        BY <1>2, <2>1, <2>2
    <2>4. waiting = <<s>>
        BY <1>2, <2>1, <2>2, <2>3, SeqEqual
    <2> QED BY <1>2, <2>2, <2>4
<1>4. /\ s \in 1..Len(size) /\ Listed(s) /\ Len(size) \in Nat /\ Len(size) <= Submissions
    BY <1>2, <1>3, LenProperties DEF IsolateInv, ListOK, Listed, In, IsolateTypes
<1>5. /\ offset[s] \in Nat /\ size[s] \in Nat /\ offset[s] < size[s]
      /\ owned \in Nat /\ owned < MaxPendingBytes /\ MaxPendingBytes \in Nat /\ MaxChunkSize \in Nat
      /\ MaxChunkSize > 0
    BY <1>1, <1>3, <1>4, InputFlowAssumption DEF IsolateTypes, IsolateInv, SubsOK
<1> DEFINE A == offset[s] + MaxChunkSize
           B == size[s]
           C == offset[s] + Available
           to == Min({A, B, C})
<1>6. A \in Nat /\ B \in Nat /\ C \in Nat /\ A > offset[s] /\ B > offset[s] /\ C > offset[s]
      /\ C = offset[s] + (MaxPendingBytes - owned)
    BY <1>5 DEF Available
<1>7. to \in {A, B, C} /\ to <= B /\ to <= C
    BY <1>6, MinOfThree
<1>8. to \in Nat /\ to > offset[s] /\ to <= size[s] /\ to - offset[s] <= MaxPendingBytes - owned
    <2> HIDE DEF to, C
    <2> QED BY <1>5, <1>6, <1>7
<1>9. NextChunk = [sub |-> s, from |-> offset[s], to |-> to, try |-> FALSE, off |-> 0, acc |-> 0]
    BY <1>3 DEF NextChunk
<1>10. fate[s] = "pending"
    BY <1>4 DEF IsolateInv, PendingOK
<1>11. ASSUME NEW r \in 1..Len(size), r < s PROVE offset[r] = size[r] \/ fate[r] = "rejected"
    <2>1. ~Listed(r)
        <3>1. \A i \in 1..Len(waiting) : waiting[i] # r
            BY <1>3, <1>11, <1>4
        <3>2. \A i \in 1..Len(admissions) : admissions[i] # r
            BY <1>2, <1>3, <1>4, <1>11 DEF IsolateInv, ListOK, Sorted
        <3> QED BY <3>1, <3>2 DEF Listed, In
    <2> QED BY <1>1, <2>1 DEF IsolateInv, SubsOK, Underway
<1> HIDE DEF to
<1>12. NextChunk \in Chunk
    <2>1. s \in 1..Submissions
        BY <1>4, InputFlowAssumption
    <2> QED BY <1>5, <1>8, <1>9, <2>1 DEF Chunk
<1>13. /\ NextChunk.sub = s /\ NextChunk.from = offset[s] /\ NextChunk.to = to
       /\ NextChunk.try = FALSE /\ NextChunk.off = 0
    BY <1>9
<1>14. waiting = <<NextChunk.sub>>
    BY <1>3, <1>13
<1>15. NextChunk.try <=> Trying
    BY <1>1, <1>13
<1> HIDE DEF NextChunk
<1> QED BY <1>1, <1>4, <1>8, <1>10, <1>11, <1>12, <1>13, <1>14, <1>15 DEF MayHand

\* So is the chunk of a tryWrite, which is all of its submission.
LEMMA TryChunkIs ==
    ASSUME IsolateTypes, IsolateInv, dart = "try"
    PROVE  MayHand(TryChunk) /\ TryChunk.try = TRUE
<1>1. Trying
    BY DEF Trying
<1>2. /\ admissions = <<>> /\ waiting = <<>> /\ Len(size) > 0
      /\ offset[Len(size)] = 0 /\ size[Len(size)] <= MaxPendingBytes - owned /\ ~closed
    BY <1>1 DEF IsolateInv, HandlerOK
<1>3. PICK s : s = Len(size)
    OBVIOUS
<1>4. s \in Nat /\ s \in 1..Len(size) /\ s <= Submissions /\ size[s] \in Nat \ {0}
    BY <1>2, <1>3, LenProperties DEF IsolateTypes
<1>5. TryChunk = [sub |-> s, from |-> 0, to |-> size[s], try |-> TRUE, off |-> 0, acc |-> 0]
    BY <1>3 DEF TryChunk
<1>6. fate[s] = "pending"
    BY <1>1, <1>3, <1>4 DEF IsolateInv, PendingOK, Underway
<1>7. ASSUME NEW r \in 1..Len(size), r < s PROVE offset[r] = size[r] \/ fate[r] = "rejected"
    <2>1. ~Listed(r) /\ r # Len(size)
        BY <1>2, <1>3, <1>4, <1>7 DEF Listed, In
    <2> QED BY <1>2, <2>1 DEF IsolateInv, SubsOK, Underway
<1>8. TryChunk \in Chunk
    BY <1>4, <1>5, InputFlowAssumption DEF Chunk
<1>9. /\ TryChunk.sub = s /\ TryChunk.from = 0 /\ TryChunk.to = size[s]
      /\ TryChunk.try = TRUE /\ TryChunk.off = 0
    BY <1>5
<1> QED BY <1>1, <1>2, <1>3, <1>4, <1>6, <1>7, <1>8, <1>9 DEF MayHand

\* An accepted chunk: its submission's offset moves on, and the chunk is in flight.
LEMMA AcceptKeeps ==
    ASSUME IsolateTypes, IsolateInv, NEW c, MayHand(c), Accepted(c),
           UNCHANGED <<size, writableDue, written>>
    PROVE  IsolateTypes' /\ IsolateInv'
<1> DEFINE s == c.sub
<1>1. /\ c \in Chunk /\ c.off = 0 /\ s \in 1..Len(size) /\ ~closed
      /\ c.from = offset[s] /\ c.from < c.to /\ c.to <= size[s]
      /\ c.to - c.from <= MaxPendingBytes - owned
      /\ fate[s] = "pending"
      /\ \A r \in 1..Len(size) : r < s => offset[r] = size[r] \/ fate[r] = "rejected"
      /\ c.try <=> Trying
      /\ c.try => s = Len(size) /\ c.from = 0 /\ c.to = size[s]
      /\ ~c.try => waiting = <<s>>
    BY DEF MayHand
<1>2. /\ owned' = owned + Length(c) /\ inflight' = inflight \union {c}
      /\ offset' = [offset EXCEPT ![s] = c.to]
      /\ dart' \in {"idle", "pump"} /\ ~Trying'
      /\ UNCHANGED <<fate, admissions, waiting, closed, owner>>
    BY DEF Accepted, Trying
<1>3. /\ s \in Nat /\ c.from \in Nat /\ c.to \in Nat /\ c.off \in Nat /\ owned \in Nat
      /\ Len(size) \in Nat /\ MaxPendingBytes \in Nat
    <2>1. Len(size) \in Nat
        BY RecordsAre
    <2>2. c.from \in Nat /\ c.to \in Nat /\ c.off \in Nat
        BY <1>1 DEF Chunk
    <2>3. owned \in Nat /\ MaxPendingBytes \in Nat
        BY InputFlowAssumption DEF IsolateTypes
    <2> QED BY <1>1, <2>1, <2>2, <2>3
<1>4. /\ offset' \in Seq(Nat) /\ Len(offset') = Len(size)
      /\ \A r \in 1..Len(size) : offset'[r] = IF r = s THEN c.to ELSE offset[r]
    <2>1. offset \in Seq(Nat) /\ Len(offset) = Len(size) /\ s \in 1..Len(offset)
        BY <1>1 DEF IsolateTypes
    <2>2. /\ [offset EXCEPT ![s] = c.to] \in Seq(Nat)
          /\ Len([offset EXCEPT ![s] = c.to]) = Len(offset)
          /\ \A r \in 1..Len(offset) :
                [offset EXCEPT ![s] = c.to][r] = IF r = s THEN c.to ELSE offset[r]
        BY <1>3, <2>1, ExceptSeq
    <2> QED BY <1>2, <2>1, <2>2
<1>5. \A r \in 1..Len(size) : /\ offset[r] \in Nat /\ size[r] \in Nat /\ offset[r] <= offset'[r]
                              /\ offset[r] <= size[r]
    <2>1. \A r \in 1..Len(size) : offset[r] \in Nat /\ size[r] \in Nat
        BY RecordsAre
    <2>2. \A r \in 1..Len(size) : offset[r] <= size[r]
        BY DEF IsolateInv, SubsOK
    <2>3. offset[s] <= c.to
        BY <1>1, <1>3
    <2>4. \A r \in 1..Len(size) : offset'[r] = IF r = s THEN c.to ELSE offset[r]
        BY <1>4
    <2>5. \A r \in 1..Len(size) : offset[r] <= offset'[r]
        BY <2>1, <2>3, <2>4
    <2> QED BY <2>1, <2>2, <2>5
<1>6. \A r : Listed(r)' <=> Listed(r)
    BY <1>2 DEF Listed, In
<1>7. \A r : Flying(r)' <=> Flying(r) \/ (c.try /\ r = s)
    BY <1>2 DEF Flying
<1>8. c.try => \A r : ~Listed(r)
    <2>1. c.try => admissions = <<>> /\ waiting = <<>>
        BY <1>1 DEF IsolateInv, HandlerOK
    <2> QED BY <2>1 DEF Listed, In
<1>9. ~c.try => Listed(s)
    BY <1>1 DEF Listed, In
<1>10. IsolateTypes'
    <2>1. owned' \in 0..MaxPendingBytes
        BY <1>1, <1>2, <1>3 DEF Length
    <2>2. inflight' \subseteq Chunk
        BY <1>1, <1>2 DEF IsolateTypes
    <2> QED BY <1>2, <1>4, <2>1, <2>2 DEF IsolateTypes
<1>11. ListOK'
    <2>1. ASSUME NEW i \in 1..Len(admissions)
          PROVE  admissions[i] \in 1..Len(size) /\ offset'[admissions[i]] = 0
        <3>1. admissions[i] \in 1..Len(size) /\ offset[admissions[i]] = 0
            BY DEF IsolateInv, ListOK
        <3>2. ~c.try
            BY <1>8 DEF Listed, In
        <3>3. waiting[1] = s /\ 1 \in 1..Len(waiting)
            <4>1. waiting = <<s>>
                BY <1>1, <3>2
            <4> HIDE DEF s
            <4> QED BY <4>1
        <3>4. s < admissions[i]
            BY <3>3 DEF IsolateInv, ListOK, Sorted
        <3>5. admissions[i] # s
            <4>1. admissions[i] \in Nat
                BY <3>1, <1>3
            <4> QED BY <4>1, <3>4, <1>3
        <3> QED BY <1>4, <3>1, <3>5
    <2>2. Sorted(admissions', waiting')
        BY <1>2 DEF IsolateInv, ListOK
    <2> QED BY <1>2, <2>1, <2>2 DEF IsolateInv, ListOK
<1>12. HandlerOK'
    BY <1>1, <1>2 DEF HandlerOK
<1>13. PendingOK'
    <2>1. ASSUME NEW r \in 1..Len(size)
          PROVE  fate'[r] = "pending" <=> Listed(r)' \/ Flying(r)' \/ Underway(r)'
        <3>1. fate[r] = "pending" <=> Listed(r) \/ Flying(r) \/ Underway(r)
            BY DEF IsolateInv, PendingOK
        <3>2. Underway(r) <=> c.try /\ r = s
            BY <1>1 DEF Underway
        <3> QED BY <1>2, <1>6, <1>7, <3>1, <3>2 DEF Underway
    <2> QED BY <1>2, <2>1 DEF IsolateInv, PendingOK
<1>14. SubsOK'
    <2>1. \A r \in 1..Len(size) : offset'[r] <= size[r] /\ (fate[r] = "rejected" => offset'[r] = 0)
        BY <1>1, <1>3, <1>4 DEF IsolateInv, SubsOK
    <2>2. ASSUME NEW r \in 1..Len(size), NEW t \in 1..Len(size), r < t, offset'[t] > 0
          PROVE  offset'[r] = size[r] \/ fate[r] = "rejected"
        <3>1. CASE t = s
            BY <1>1, <1>3, <1>4, <2>2, <3>1
        <3>2. CASE t # s
            <4>1. offset[r] = size[r] \/ fate[r] = "rejected"
                BY <1>4, <2>2, <3>2 DEF IsolateInv, SubsOK
            <4>2. r # s
                BY <1>1, <1>3, <1>5, <4>1
            <4> QED BY <1>4, <4>1, <4>2
        <3> QED BY <3>1, <3>2
    <2>3. ASSUME NEW r \in 1..Len(size)
          PROVE  offset'[r] = size[r] \/ fate[r] = "rejected" \/ Listed(r)'
        <3>1. CASE r = s
            BY <1>1, <1>4, <1>6, <1>9, <3>1
        <3>2. CASE r # s
            <4>1. offset[r] = size[r] \/ fate[r] = "rejected" \/ Listed(r) \/ Underway(r)
                BY <1>1 DEF IsolateInv, SubsOK
            <4>2. ~Underway(r)
                BY <1>1, <3>2 DEF Underway
            <4> QED BY <1>4, <1>6, <3>2, <4>1, <4>2
        <3> QED BY <3>1, <3>2
    <2> QED BY <1>2, <2>1, <2>2, <2>3 DEF SubsOK
<1>15. ASSUME NEW d \in inflight
       PROVE  /\ d.sub \in 1..Len(size) /\ d.off = 0 /\ d.from < d.to /\ d.to <= offset[d.sub]
              /\ d.to <= offset'[d.sub]
              /\ ~d.try => waiting = <<d.sub>>
              /\ d.try => d.from = 0 /\ d.to = size[d.sub] /\ ~Listed(d.sub)
              /\ Precedes(d, c) \/ Precedes(c, d)
              /\ d \in Chunk
              /\ d.from \in Nat /\ d.to \in Nat
    <2>1. /\ d.sub \in 1..Len(size) /\ d.off = 0 /\ d.from < d.to /\ d.to <= offset[d.sub]
          /\ ~d.try => waiting = <<d.sub>>
          /\ d.try => d.from = 0 /\ d.to = size[d.sub] /\ ~Listed(d.sub)
        BY DEF IsolateInv, FlyingOK
    <2>2. d \in Chunk /\ d.from \in Nat /\ d.to \in Nat /\ d.sub \in Nat
        BY DEF IsolateTypes, Chunk
    <2>3. d.to <= offset'[d.sub]
        BY <1>5, <1>4, <2>1, <2>2
    <2>4. Precedes(d, c) \/ Precedes(c, d)
        BY <1>1, <1>3, <2>1, <2>2 DEF Precedes
    <2> QED BY <2>1, <2>2, <2>3, <2>4
<1>16. FlyingOK'
    <2>1. /\ c.to <= offset'[s]
          /\ ~c.try => waiting' = <<s>>
          /\ c.try => c.from = 0 /\ c.to = size[s] /\ ~Listed(s)'
        BY <1>1, <1>2, <1>3, <1>4, <1>6, <1>8
    <2>2. ASSUME NEW d \in inflight'
          PROVE  /\ d.sub \in 1..Len(size) /\ d.off = 0 /\ d.from < d.to /\ d.to <= offset'[d.sub]
                 /\ ~d.try => waiting' = <<d.sub>>
                 /\ d.try => d.from = 0 /\ d.to = size[d.sub] /\ ~Listed(d.sub)'
        BY <1>1, <1>2, <1>6, <1>15, <2>1
    <2>3. ASSUME NEW d \in inflight', NEW e \in inflight', d # e
          PROVE  Precedes(d, e) \/ Precedes(e, d)
        BY <1>2, <1>15, <2>3 DEF IsolateInv, FlyingOK
    <2> QED BY <2>2, <2>3 DEF FlyingOK
<1>17. OwnedOK'
    <2>1. InFlight' = InFlight \union Bytes(c)
        BY <1>2 DEF InFlight
    <2>2. \A x \in InFlight : x \notin Bytes(c)
        <3> SUFFICES ASSUME NEW d \in inflight, NEW x \in Bytes(d) PROVE x \notin Bytes(c)
            BY DEF InFlight
        <3> QED BY <1>1, <1>15, PrecedesDisjoint DEF IsolateTypes
    <2>3. IsFiniteSet(Bytes(c)) /\ Cardinality(Bytes(c)) = Length(c)
        BY <1>1, <1>3, BytesCount DEF Remaining, Length
    <2>4. IsFiniteSet(InFlight) /\ owned = Cardinality(InFlight)
        BY DEF IsolateInv, OwnedOK
    <2>5. IsFiniteSet(InFlight') /\ Cardinality(InFlight') = owned + Length(c)
        BY <2>1, <2>2, <2>3, <2>4, DisjointCount
    <2> QED BY <1>2, <2>5 DEF OwnedOK
<1> QED BY <1>10, <1>11, <1>12, <1>13, <1>14, <1>16, <1>17 DEF IsolateInv

\* A completed chunk leaves the flight, with its request when it was the last of it,
\* and the next admission takes the request's place.
LEMMA CompleteKeeps ==
    ASSUME IsolateTypes, IsolateInv, dart = "idle", NEW c \in inflight,
           inflight' = inflight \ {c}, owned' = owned - Length(c), dart' = "pump",
           IF Finished(c.sub, inflight') THEN Settle({c.sub}, "done") ELSE UNCHANGED fate,
           IF ~c.try /\ Finished(c.sub, inflight')
           THEN PumpAdmissions(admissions, <<>>, owned')
           ELSE UNCHANGED <<admissions, waiting>>,
           UNCHANGED <<size, offset, written, writableDue, closed, owner>>
    PROVE  IsolateTypes' /\ IsolateInv'
<1> DEFINE s == c.sub
           fin == Finished(s, inflight')
<1>1. /\ s \in 1..Len(size) /\ c.off = 0 /\ c.from < c.to /\ c.to <= offset[s]
      /\ ~c.try => waiting = <<s>>
      /\ c.try => c.from = 0 /\ c.to = size[s] /\ ~Listed(s)
      /\ c \in Chunk /\ c.from \in Nat /\ c.to \in Nat /\ s \in Nat
    <2>1. c \in Chunk
        BY DEF IsolateTypes
    <2>2. c.from \in Nat /\ c.to \in Nat /\ s \in Nat
        BY <2>1 DEF Chunk
    <2>3. /\ s \in 1..Len(size) /\ c.off = 0 /\ c.from < c.to /\ c.to <= offset[s]
          /\ ~c.try => waiting = <<s>>
          /\ c.try => c.from = 0 /\ c.to = size[s] /\ ~Listed(s)
        BY DEF IsolateInv, FlyingOK
    <2> QED BY <2>1, <2>2, <2>3
<1>2. /\ ~closed /\ ~Trying /\ ~Trying' /\ Len(size) \in Nat
      /\ \A r \in 1..Len(size) : offset[r] \in Nat /\ size[r] \in Nat /\ offset[r] <= size[r]
    <2>1. ~closed /\ ~Trying /\ ~Trying'
        BY DEF IsolateInv, HandlerOK, Trying
    <2>2. Len(size) \in Nat /\ \A r \in 1..Len(size) : offset[r] \in Nat /\ size[r] \in Nat
        BY LenProperties DEF IsolateTypes
    <2>3. \A r \in 1..Len(size) : offset[r] <= size[r]
        BY DEF IsolateInv, SubsOK
    <2> QED BY <2>1, <2>2, <2>3
<1>3. fin <=> offset[s] = size[s] /\ \A d \in inflight' : d.sub # s
    BY DEF Finished
<1>4. ASSUME c.try PROVE fin
    <2>1. offset[s] = size[s]
        BY <1>1, <1>2, <1>4
    <2>2. ASSUME NEW d \in inflight, d # c, d.sub = s PROVE FALSE
        <3>1. Precedes(c, d) \/ Precedes(d, c)
            BY <2>2 DEF IsolateInv, FlyingOK
        <3>2. d.from < d.to /\ d.to <= offset[s] /\ d.from \in Nat /\ d.to \in Nat
            BY <2>2 DEF IsolateInv, FlyingOK, IsolateTypes, Chunk
        <3> QED BY <1>1, <1>2, <1>4, <2>1, <2>2, <3>1, <3>2 DEF Precedes
    <2> QED BY <1>3, <2>1, <2>2
<1>5. fate[s] = "pending"
    <2>1. Listed(s) \/ Flying(s)
        <3>1. CASE c.try
            BY <3>1 DEF Flying
        <3>2. CASE ~c.try
            BY <1>1, <3>2 DEF Listed, In
        <3> QED BY <3>1, <3>2
    <2> QED BY <1>1, <2>1 DEF IsolateInv, PendingOK
<1> HIDE DEF fin
<1>6. /\ fate' \in Seq(Fates) /\ Len(fate') = Len(size)
      /\ \A r \in 1..Len(size) : fate'[r] = IF fin /\ r = s THEN "done" ELSE fate[r]
    <2>1. CASE fin
        <3>1. Settle({s}, "done") /\ "done" \in Fates
            BY <2>1 DEF fin, Fates
        <3>2. /\ fate' \in Seq(Fates) /\ Len(fate') = Len(size)
              /\ \A r \in 1..Len(size) :
                    fate'[r] = IF r \in {s} /\ fate[r] = "pending" THEN "done" ELSE fate[r]
            <4> HIDE DEF Fates
            <4> QED BY <3>1, SettleIs
        <3> QED BY <1>5, <2>1, <3>2
    <2>2. CASE ~fin
        <3>1. fate' = fate
            BY <2>2 DEF fin
        <3> QED BY <2>2, <3>1 DEF IsolateTypes
    <2> QED BY <2>1, <2>2
<1> DEFINE last == ~c.try /\ fin
<1>7. /\ admissions' \in Seq(Nat) /\ waiting' \in Seq(Nat) /\ Len(waiting') <= 1
      /\ Sorted(admissions', waiting')
      /\ \A r : Listed(r)' <=> Listed(r) /\ ~(last /\ r = s)
      /\ \A i \in 1..Len(admissions') : \E j \in 1..Len(admissions) : admissions'[i] = admissions[j]
      /\ ~last => UNCHANGED <<admissions, waiting>>
    <2>1. CASE last
        <3>1. PumpAdmissions(admissions, <<>>, owned')
            BY <2>1 DEF fin
        <3>2. waiting = <<s>> /\ Len(waiting) = 1 /\ waiting[1] = s
            BY <1>1, <2>1
        <3>3. <<>> \in Seq(Nat) /\ Len(<<>>) = 0 /\ admissions \in Seq(Nat)
            BY DEF IsolateTypes
        <3>4. Sorted(admissions, <<>>)
            BY <3>3 DEF IsolateInv, ListOK, Sorted
        <3>5. /\ admissions' \in Seq(Nat) /\ waiting' \in Seq(Nat) /\ Len(waiting') <= 1
              /\ Sorted(admissions', waiting')
              /\ \A r : In(r, admissions', waiting') <=> In(r, admissions, <<>>)
              /\ \A i \in 1..Len(admissions') :
                    \E j \in 1..Len(admissions) : admissions'[i] = admissions[j]
            <4>1. PICK w, o : w = <<>> /\ o = owned'
                OBVIOUS
            <4>2. /\ w \in Seq(Nat) /\ Len(w) <= 1 /\ Sorted(admissions, w)
                  /\ PumpAdmissions(admissions, w, o)
                BY <4>1, <3>1, <3>3, <3>4
            <4>3. /\ admissions' \in Seq(Nat) /\ waiting' \in Seq(Nat) /\ Len(waiting') <= 1
                  /\ Sorted(admissions', waiting')
                  /\ \A r : In(r, admissions', waiting') <=> In(r, admissions, w)
                  /\ \A i \in 1..Len(admissions') :
                        \E j \in 1..Len(admissions) : admissions'[i] = admissions[j]
                BY <3>3, <4>2, PumpAdmissionsKeeps
            <4> QED BY <4>1, <4>3
        <3>6. \A r : In(r, admissions, <<>>) <=> \E i \in 1..Len(admissions) : admissions[i] = r
            BY <3>3 DEF In
        <3>7. \A i \in 1..Len(admissions) : s < admissions[i] /\ admissions[i] \in Nat
            BY <1>2, <3>2 DEF IsolateInv, ListOK, Sorted
        <3>8. \A r : Listed(r) <=> (\E i \in 1..Len(admissions) : admissions[i] = r) \/ r = s
            BY <3>2 DEF Listed, In
        <3>9. \A r : Listed(r)' <=> Listed(r) /\ r # s
            BY <1>1, <3>5, <3>6, <3>7, <3>8 DEF Listed
        <3> QED BY <2>1, <3>5, <3>9
    <2>2. CASE ~last
        <3>1. UNCHANGED <<admissions, waiting>>
            BY <2>2 DEF fin
        <3> QED BY <2>2, <3>1 DEF Listed, In, IsolateTypes, IsolateInv, ListOK
    <2> QED BY <2>1, <2>2
<1>8. \A r : Flying(r)' <=> Flying(r) /\ ~(c.try /\ r = s)
    <2>1. \A r : Flying(r)' <=> \E d \in inflight : d # c /\ d.try /\ d.sub = r
        BY DEF Flying
    <2>2. c.try => \A d \in inflight : d # c => d.sub # s
        BY <1>3, <1>4 DEF fin
    <2> QED BY <2>1, <2>2 DEF Flying
<1>9. ~c.try => ~Flying(s)
    <2>1. ~c.try => Listed(s)
        BY <1>1 DEF Listed, In
    <2> QED BY <2>1 DEF Flying, IsolateInv, FlyingOK
<1> HIDE DEF last
<1>10. OwnedOK' /\ owned' \in 0..MaxPendingBytes
    <2>1. InFlight = InFlight' \union Bytes(c)
        BY DEF InFlight
    <2>2. \A x \in InFlight' : x \notin Bytes(c)
        <3> SUFFICES ASSUME NEW d \in inflight, d # c, NEW x \in Bytes(d)
              PROVE  x \notin Bytes(c)
            BY DEF InFlight
        <3>1. Precedes(c, d) \/ Precedes(d, c)
            BY DEF IsolateInv, FlyingOK
        <3> QED BY <3>1, PrecedesDisjoint DEF IsolateTypes
    <2>3. IsFiniteSet(Bytes(c)) /\ Cardinality(Bytes(c)) = Length(c)
        BY <1>1, BytesCount DEF Remaining, Length
    <2>4. IsFiniteSet(InFlight) /\ owned = Cardinality(InFlight)
        BY DEF IsolateInv, OwnedOK
    <2>5. IsFiniteSet(InFlight')
        BY <2>1, <2>4, FS_Subset
    <2>6. owned = Cardinality(InFlight') + Length(c) /\ Cardinality(InFlight') \in Nat
        BY <2>1, <2>2, <2>3, <2>4, <2>5, DisjointCount, FS_CardinalityType
    <2>7. Length(c) \in Nat
        BY <1>1 DEF Length
    <2> QED BY <2>5, <2>6, <2>7, InputFlowAssumption DEF OwnedOK, IsolateTypes
<1>11. IsolateTypes'
    BY <1>6, <1>7, <1>10 DEF IsolateTypes
<1>12. ListOK'
    <2>1. ASSUME NEW i \in 1..Len(admissions')
          PROVE  admissions'[i] \in 1..Len(size) /\ offset[admissions'[i]] = 0
        BY <1>7 DEF IsolateInv, ListOK
    <2>2. ASSUME NEW i \in 1..Len(waiting') PROVE waiting'[i] \in 1..Len(size)
        <3>1. Listed(waiting'[i])
            <4>1. PICK r : r = waiting'[i]
                OBVIOUS
            <4>2. In(r, admissions', waiting')
                BY <4>1 DEF In
            <4> QED BY <1>7, <4>1, <4>2 DEF Listed
        <3> QED BY <3>1 DEF Listed, In, IsolateInv, ListOK
    <2> QED BY <1>7, <2>1, <2>2 DEF ListOK
<1>13. HandlerOK'
    BY <1>2 DEF HandlerOK
<1>14. PendingOK'
    <2>1. ASSUME NEW r \in 1..Len(size)
          PROVE  fate'[r] = "pending" <=> Listed(r)' \/ Flying(r)'
        <3>1. fate[r] = "pending" <=> Listed(r) \/ Flying(r)
            BY <1>2 DEF IsolateInv, PendingOK, Underway
        <3>2. CASE r # s
            BY <1>6, <1>7, <1>8, <3>1, <3>2
        <3>3. CASE r = s /\ c.try
            <4>1. ~Listed(s)
                BY <1>1, <3>3
            <4> QED BY <1>4, <1>6, <1>7, <1>8, <3>3, <4>1
        <3>4. CASE r = s /\ ~c.try
            BY <1>6, <1>7, <1>8, <1>9, <3>1, <3>4 DEF last
        <3> QED BY <3>2, <3>3, <3>4
    <2>2. ASSUME NEW r \in 1..Len(size), fate'[r] = "pending" PROVE owner
        BY <1>6, <2>2 DEF IsolateInv, PendingOK
    <2> QED BY <1>2, <2>1, <2>2 DEF PendingOK, Underway
<1>15. SubsOK'
    <2>1. \A r \in 1..Len(size) : fate'[r] = "rejected" <=> fate[r] = "rejected"
        BY <1>5, <1>6
    <2>2. ASSUME NEW r \in 1..Len(size)
          PROVE  offset[r] = size[r] \/ fate[r] = "rejected" \/ Listed(r)'
        <3>1. offset[r] = size[r] \/ fate[r] = "rejected" \/ Listed(r)
            BY <1>2 DEF IsolateInv, SubsOK, Underway
        <3>2. last /\ r = s => offset[r] = size[r]
            BY <1>3 DEF last
        <3> QED BY <1>7, <3>1, <3>2
    <2> QED BY <2>1, <2>2 DEF IsolateInv, SubsOK
<1>16. FlyingOK'
    <2>1. ASSUME NEW d \in inflight'
          PROVE  /\ d.sub \in 1..Len(size) /\ d.off = 0 /\ d.from < d.to /\ d.to <= offset[d.sub]
                 /\ ~d.try => waiting' = <<d.sub>>
                 /\ d.try => d.from = 0 /\ d.to = size[d.sub] /\ ~Listed(d.sub)'
        <3>1. /\ d.sub \in 1..Len(size) /\ d.off = 0 /\ d.from < d.to /\ d.to <= offset[d.sub]
              /\ ~d.try => waiting = <<d.sub>>
              /\ d.try => d.from = 0 /\ d.to = size[d.sub] /\ ~Listed(d.sub)
            BY DEF IsolateInv, FlyingOK
        <3>2. ~d.try => waiting' = waiting
            <4>1. ASSUME last, ~d.try PROVE FALSE
                <5>1. d.sub # s
                    BY <1>3, <4>1 DEF last
                <5> QED BY <1>1, <3>1, <4>1, <5>1 DEF last
            <4> QED BY <1>7, <4>1
        <3> QED BY <1>7, <3>1, <3>2
    <2> QED BY <2>1 DEF IsolateInv, FlyingOK
<1> QED BY <1>10, <1>12, <1>13, <1>14, <1>15, <1>16, <1>11 DEF IsolateInv

-----------------------------------------------------------------------------
\* The queue of the native session and the chunk the reactor holds.

\* A step that moves no byte: it may move the reactor, and settle submissions.
LEMMA QueueSame ==
    ASSUME IsolateTypes, NativeTypes, QueueInv, StageOK', Broken => Broken',
           UNCHANGED <<size, offset, written, queue, queued, hand, taken>>,
           hand # <<>> => (reactor' = "write" <=> reactor = "write"),
           \A s \in 1..Len(size) : /\ fate[s] = "rejected" => fate'[s] = "rejected"
                                   /\ fate'[s] = "done" => fate[s] = "done" \/ written[s] = size[s]
    PROVE  QueueInv'
<1>1. LineOK'
    BY DEF QueueInv, LineOK
<1>2. HandOK'
    <2>1. ASSUME NEW i \in 1..Len(hand) PROVE hand # <<>>
        BY <2>1
    <2> QED BY <2>1 DEF QueueInv, HandOK
<1>3. QueuedOK'
    BY DEF QueueInv, QueuedOK, InQueue
<1>4. CoverOK'
    BY DEF QueueInv, CoverOK
<1>5. WrittenOK'
    BY DEF QueueInv, WrittenOK
<1> QED BY <1>1, <1>2, <1>3, <1>4, <1>5 DEF QueueInv

\* A new submission has no byte anywhere yet.
LEMMA SubmitKeepsQueue ==
    ASSUME IsolateTypes, NativeTypes, QueueInv, NEW n \in Nat \ {0}, NEW f \in {"pending", "rejected"},
           Submit(n, f), UNCHANGED <<queue, queued, taken, hand, reactor, inputClosed>>
    PROVE  QueueInv'
<1> DEFINE N == Len(size) + 1
<1>1. /\ Len(size) \in Nat /\ Len(size') = N
      /\ size'[N] = n /\ fate'[N] = f /\ offset'[N] = 0 /\ written'[N] = 0
      /\ \A s \in 1..Len(size) : /\ size'[s] = size[s] /\ fate'[s] = fate[s]
                                 /\ offset'[s] = offset[s] /\ written'[s] = written[s]
    <2>1. f \in Fates
        BY DEF Fates
    <2> HIDE DEF Fates
    <2> QED BY <2>1, SubmitIs
<1>2. /\ \A s \in 1..N : s \in 1..Len(size) \/ s = N
      /\ \A s \in 1..Len(size) : s \in 1..N /\ s # N /\ s < N
    BY <1>1
<1>3. LineOK'
    <2>1. ASSUME NEW i \in 1..Len(queue)
          PROVE  /\ queue[i].sub \in 1..N /\ queue[i].from + queue[i].off < queue[i].to
                 /\ queue[i].to <= offset'[queue[i].sub]
                 /\ written'[queue[i].sub] <= queue[i].from + queue[i].off
        <3>1. /\ queue[i].sub \in 1..Len(size) /\ queue[i].from + queue[i].off < queue[i].to
              /\ queue[i].to <= offset[queue[i].sub]
              /\ written[queue[i].sub] <= queue[i].from + queue[i].off
            BY DEF QueueInv, LineOK
        <3> QED BY <1>1, <1>2, <3>1
    <2> QED BY <1>1, <2>1 DEF QueueInv, LineOK
<1>4. HandOK'
    <2>1. ASSUME NEW i \in 1..Len(hand)
          PROVE  /\ hand[i].sub \in 1..N /\ hand[i].to <= offset'[hand[i].sub]
                 /\ written'[hand[i].sub] = hand[i].from + hand[i].off
        <3>1. /\ hand[i].sub \in 1..Len(size) /\ hand[i].to <= offset[hand[i].sub]
              /\ written[hand[i].sub] = hand[i].from + hand[i].off
            BY DEF QueueInv, HandOK
        <3> QED BY <1>1, <1>2, <3>1
    <2> QED BY <1>1, <2>1 DEF QueueInv, HandOK
<1>5. StageOK' /\ QueuedOK'
    BY DEF QueueInv, StageOK, Broken, QueuedOK, InQueue
<1>6. CoverOK'
    <2>1. ASSUME ~Broken, NEW s \in 1..N, NEW p \in written'[s]..(offset'[s] - 1)
          PROVE  \/ \E i \in 1..Len(hand) : Covers(hand[i], s, p)
                 \/ \E i \in 1..Len(queue) : Covers(queue[i], s, p)
        <3>1. s # N
            BY <1>1, <2>1
        <3>2. s \in 1..Len(size) /\ p \in written[s]..(offset[s] - 1)
            BY <1>1, <1>2, <3>1
        <3> QED BY <2>1, <3>2 DEF QueueInv, CoverOK
    <2> QED BY <1>1, <2>1 DEF CoverOK, Broken
<1>7. WrittenOK'
    <2>1. ASSUME NEW s \in 1..N
          PROVE  written'[s] <= offset'[s] /\ (fate'[s] = "done" => written'[s] = size'[s])
        BY <1>1, <1>2 DEF QueueInv, WrittenOK
    <2>2. ASSUME NEW r \in 1..N, NEW s \in 1..N, r < s, written'[s] > 0, fate'[r] # "rejected"
          PROVE  written'[r] = size'[r]
        <3>1. s \in 1..Len(size)
            BY <1>1, <1>2, <2>2
        <3>2. r \in 1..Len(size)
            BY <1>1, <1>2, <2>2, <3>1
        <3>3. written[s] > 0 /\ fate[r] # "rejected"
            BY <1>1, <2>2, <3>1, <3>2
        <3>4. written[r] = size[r]
            BY <2>2, <3>1, <3>2, <3>3 DEF QueueInv, WrittenOK
        <3> QED BY <1>1, <3>2, <3>4
    <2> QED BY <1>1, <2>1, <2>2 DEF WrittenOK
<1> QED BY <1>3, <1>4, <1>5, <1>6, <1>7 DEF QueueInv

\* An accepted chunk goes behind everything that is queued or in hand.
LEMMA AcceptKeepsQueue ==
    ASSUME IsolateTypes, IsolateInv, NativeTypes, QueueInv, NEW c, MayHand(c), Accepted(c),
           UNCHANGED <<size, hand, reactor, inputClosed, written>>
    PROVE  QueueInv' /\ queue' \in Seq(Chunk) /\ queued' \in Nat /\ queued' + taken <= MaxPendingBytes
<1> DEFINE s == c.sub
           L == Len(queue)
<1>1. /\ c \in Chunk /\ c.off = 0 /\ s \in 1..Len(size)
      /\ c.from = offset[s] /\ c.from < c.to /\ c.to <= size[s]
      /\ fate[s] = "pending"
      /\ \A r \in 1..Len(size) : r < s => offset[r] = size[r] \/ fate[r] = "rejected"
      /\ s \in Nat /\ c.from \in Nat /\ c.to \in Nat
    BY DEF MayHand, Chunk
<1>2. /\ ~inputClosed /\ ~Full(c)
      /\ queue' = Append(queue, c) /\ queued' = queued + Length(c)
      /\ offset' = [offset EXCEPT ![s] = c.to]
      /\ UNCHANGED <<fate, taken>>
    BY DEF Accepted, NativeClosed
<1>3. /\ queue' \in Seq(Chunk) /\ Len(queue') = L + 1 /\ queue'[L + 1] = c
      /\ \A i \in 1..L : queue'[i] = queue[i]
      /\ L \in Nat
    BY <1>1, <1>2, AppendProperties, LenProperties DEF NativeTypes
<1>4. \A i \in 1..(L + 1) : i \in 1..L \/ i = L + 1
    BY <1>3
<1>5. /\ \A r \in 1..Len(size) : offset'[r] = IF r = s THEN c.to ELSE offset[r]
      /\ \A r \in 1..Len(size) : /\ offset[r] \in Nat /\ size[r] \in Nat /\ written[r] \in Nat
                                 /\ written[r] <= offset[r]
      /\ \A r \in 1..Len(size) : offset[r] <= offset'[r] /\ offset'[r] \in Nat
    <2>1. \A r \in 1..Len(size) : offset[r] \in Nat /\ size[r] \in Nat /\ written[r] \in Nat
        BY RecordsAre
    <2>2. \A r \in 1..Len(size) : written[r] <= offset[r]
        BY DEF QueueInv, WrittenOK
    <2>3. \A r \in 1..Len(size) : offset'[r] = IF r = s THEN c.to ELSE offset[r]
        <3>1. offset \in Seq(Nat) /\ Len(offset) = Len(size)
            BY DEF IsolateTypes
        <3>2. s \in 1..Len(offset) /\ c.to \in Nat /\ offset' = [offset EXCEPT ![s] = c.to]
            BY <1>1, <1>2, <3>1
        <3> QED BY <3>1, <3>2, ExceptSeq
    <2> QED BY <1>1, <2>1, <2>2, <2>3
\* What is queued or in hand was handed over before c.
<1>6. ASSUME NEW d \in Chunk, d.sub \in 1..Len(size), d.from + d.off <= d.to, d.to <= offset[d.sub],
             0 < d.to
      PROVE  Precedes(d, c) /\ d.to <= offset'[d.sub]
    <2>1. d.to \in Nat /\ d.sub \in Nat
        BY DEF Chunk
    <2>2. ~(s < d.sub)
        <3> SUFFICES ASSUME s < d.sub PROVE FALSE
            OBVIOUS
        <3>1. offset[s] = size[s] \/ fate[s] = "rejected"
            BY <1>1, <1>5, <1>6, <2>1 DEF IsolateInv, SubsOK
        <3> QED BY <1>1, <1>5, <3>1
    <2>3. d.to <= offset'[d.sub]
        BY <1>5, <1>6, <2>1
    <2> QED BY <1>1, <1>6, <2>1, <2>2, <2>3 DEF Precedes
<1>7. ASSUME NEW i \in 1..L
      PROVE  Precedes(queue[i], c) /\ queue[i].to <= offset'[queue[i].sub]
    <2>1. /\ queue[i].sub \in 1..Len(size) /\ queue[i].from + queue[i].off < queue[i].to
          /\ queue[i].to <= offset[queue[i].sub]
        BY DEF QueueInv, LineOK
    <2>2. queue[i] \in Chunk
        BY ElementOfSeq DEF NativeTypes
    <2>3. queue[i].from \in Nat /\ queue[i].off \in Nat /\ queue[i].to \in Nat
        BY <2>2 DEF Chunk
    <2>4. queue[i].from + queue[i].off <= queue[i].to /\ 0 < queue[i].to
        BY <2>1, <2>3
    <2> QED BY <1>6, <2>1, <2>2, <2>4
<1>8. ASSUME NEW i \in 1..Len(hand)
      PROVE  Precedes(hand[i], c) /\ hand[i].to <= offset'[hand[i].sub]
    <2>1. /\ hand[i].sub \in 1..Len(size) /\ hand[i].from + hand[i].off <= hand[i].to
          /\ hand[i].to <= offset[hand[i].sub] /\ hand[i].from < hand[i].to
        BY DEF QueueInv, HandOK
    <2>2. hand[i] \in Chunk
        BY ElementOfSeq DEF NativeTypes
    <2>3. hand[i].from \in Nat /\ hand[i].to \in Nat
        BY <2>2 DEF Chunk
    <2>4. 0 < hand[i].to
        BY <2>1, <2>3
    <2> QED BY <1>6, <2>1, <2>2, <2>4
<1>9. LineOK'
    <2>1. ASSUME NEW i \in 1..(L + 1)
          PROVE  /\ queue'[i].sub \in 1..Len(size)
                 /\ queue'[i].from + queue'[i].off < queue'[i].to
                 /\ queue'[i].to <= offset'[queue'[i].sub]
                 /\ written[queue'[i].sub] <= queue'[i].from + queue'[i].off
        <3>1. CASE i \in 1..L
            BY <1>3, <1>7, <3>1 DEF QueueInv, LineOK
        <3>2. CASE i = L + 1
            BY <1>1, <1>3, <1>5, <3>2
        <3> QED BY <1>4, <3>1, <3>2
    <2>2. ASSUME NEW i \in 1..(L + 1), NEW j \in 1..(L + 1), i < j
          PROVE  Precedes(queue'[i], queue'[j])
        <3>1. i \in 1..L
            BY <1>3, <2>2
        <3>2. CASE j \in 1..L
            BY <1>3, <2>2, <3>1, <3>2 DEF QueueInv, LineOK
        <3>3. CASE j = L + 1
            BY <1>3, <1>7, <3>1, <3>3
        <3> QED BY <1>4, <3>2, <3>3
    <2> QED BY <1>3, <2>1, <2>2 DEF LineOK
<1>10. HandOK'
    <2>1. ASSUME NEW i \in 1..Len(hand), NEW j \in 1..(L + 1) PROVE Precedes(hand[i], queue'[j])
        <3>1. CASE j \in 1..L
            BY <1>3, <3>1 DEF QueueInv, HandOK
        <3>2. CASE j = L + 1
            BY <1>3, <1>8, <3>2
        <3> QED BY <1>4, <3>1, <3>2
    <2> QED BY <1>2, <1>3, <1>8, <2>1 DEF QueueInv, HandOK
<1>11. StageOK'
    BY <1>2 DEF QueueInv, StageOK, Broken
<1>12. QueuedOK'
    <2>1. InQueue' = InQueue \union Bytes(c)
        <3>1. \A x : x \in InQueue' <=> \E i \in 1..(L + 1) : x \in Bytes(queue'[i])
            BY <1>3 DEF InQueue
        <3>2. \A x : x \in InQueue <=> \E i \in 1..L : x \in Bytes(queue[i])
            BY DEF InQueue
        <3>3. 1..L \subseteq 1..(L + 1) /\ L + 1 \in 1..(L + 1)
            BY <1>3
        <3>4. \A x : x \in InQueue' <=> x \in InQueue \/ x \in Bytes(c)
            BY <1>3, <1>4, <3>1, <3>2, <3>3
        <3> QED BY <3>4
    <2>2. \A x \in InQueue : x \notin Bytes(c)
        <3> SUFFICES ASSUME NEW i \in 1..L, NEW x \in Bytes(queue[i]) PROVE x \notin Bytes(c)
            BY DEF InQueue
        <3>1. queue[i] \in Chunk
            BY ElementOfSeq DEF NativeTypes
        <3> QED BY <1>1, <1>7, <3>1, PrecedesDisjoint
    <2>3. IsFiniteSet(Bytes(c)) /\ Cardinality(Bytes(c)) = Length(c)
        BY <1>1, BytesCount DEF Remaining, Length
    <2>4. IsFiniteSet(InQueue) /\ queued = Cardinality(InQueue)
        BY DEF QueueInv, QueuedOK
    <2>5. IsFiniteSet(InQueue') /\ Cardinality(InQueue') = queued + Length(c)
        BY <2>1, <2>2, <2>3, <2>4, DisjointCount
    <2> QED BY <1>2, <2>5 DEF QueuedOK
<1>13. CoverOK'
    <2>1. ASSUME ~Broken, NEW r \in 1..Len(size), NEW p \in written[r]..(offset'[r] - 1)
          PROVE  \/ \E i \in 1..Len(hand) : Covers(hand[i], r, p)
                 \/ \E i \in 1..(L + 1) : Covers(queue'[i], r, p)
        <3>1. CASE p < offset[r]
            <4>1. p \in written[r]..(offset[r] - 1)
                BY <1>5, <3>1
            <4>2. \/ \E i \in 1..Len(hand) : Covers(hand[i], r, p)
                  \/ \E i \in 1..L : Covers(queue[i], r, p)
                BY <2>1, <4>1 DEF QueueInv, CoverOK
            <4>3. 1..L \subseteq 1..(L + 1)
                BY <1>3
            <4> QED BY <1>3, <4>2, <4>3
        <3>2. CASE ~(p < offset[r])
            <4>1. r = s /\ offset[s] <= p /\ p < c.to
                BY <1>5, <1>1, <3>2
            <4>2. Covers(c, r, p)
                BY <1>1, <1>5, <4>1 DEF Covers
            <4>3. L + 1 \in 1..(L + 1)
                BY <1>3
            <4> QED BY <1>3, <4>2, <4>3
        <3> QED BY <3>1, <3>2
    <2> QED BY <1>3, <2>1 DEF CoverOK, Broken
<1>14. WrittenOK'
    <2>1. ASSUME NEW r \in 1..Len(size) PROVE written[r] <= offset'[r]
        BY <1>5
    <2> QED BY <1>2, <2>1 DEF QueueInv, WrittenOK
<1>15. queued' \in Nat /\ queued' + taken <= MaxPendingBytes
    <2>1. /\ queued \in Nat /\ taken \in Nat /\ Length(c) \in Nat /\ Length(c) = c.to - c.from
          /\ MaxPendingBytes \in Nat
        BY <1>1, InputFlowAssumption DEF NativeTypes, Length
    <2> QED BY <1>2, <2>1 DEF Full
<1> QED BY <1>3, <1>9, <1>10, <1>11, <1>12, <1>13, <1>14, <1>15 DEF QueueInv

\* A queue without its head.
LEMMA TailKeeps ==
    ASSUME NativeTypes, QueueInv, queue # <<>>
    PROVE  /\ Tail(queue) \in Seq(Chunk) /\ Len(queue) \in Nat /\ Len(queue) >= 1
           /\ Len(Tail(queue)) = Len(queue) - 1 /\ Head(queue) = queue[1]
           /\ \A i \in 1..(Len(queue) - 1) : Tail(queue)[i] = queue[i + 1] /\ i + 1 \in 1..Len(queue)
           /\ \A i \in 1..Len(queue) : i = 1 \/ i - 1 \in 1..(Len(queue) - 1)
           /\ 1 \in 1..Len(queue) /\ queue[1] \in Chunk
<1>1. queue \in Seq(Chunk) /\ Len(queue) \in Nat
    BY LenProperties DEF NativeTypes
<1>2. /\ Tail(queue) \in Seq(Chunk) /\ Head(queue) = queue[1] /\ queue[1] \in Chunk /\ Len(queue) >= 1
      /\ Len(Tail(queue)) = Len(queue) - 1
      /\ \A i \in 1..(Len(queue) - 1) : Tail(queue)[i] = queue[i + 1]
    BY <1>1, TailIs
<1>3. /\ \A i \in 1..(Len(queue) - 1) : i + 1 \in 1..Len(queue)
      /\ \A i \in 1..Len(queue) : i = 1 \/ i - 1 \in 1..(Len(queue) - 1)
      /\ 1 \in 1..Len(queue)
    BY <1>1, <1>2
<1> QED BY <1>1, <1>2, <1>3

\* The reactor takes the first chunk: the next byte it holds is the next byte the
\* terminal has to get of its submission.
LEMMA DequeueKeeps ==
    ASSUME IsolateTypes, NativeTypes, QueueInv, Dequeue
    PROVE  QueueInv' /\ NativeTypes'
<1>1. reactor = "dequeue" /\ hand = <<>> /\ taken = 0 /\ ~Broken
    BY DEF Dequeue, Steps, QueueInv, StageOK
<1>2. /\ UNCHANGED <<isolate, stopping, events, flagged, inputClosed, tty, written>>
      /\ UNCHANGED <<size, fate, offset>>
    BY DEF Dequeue, DartUnchanged, isolate
<1>3. CASE queue = <<>> /\ UNCHANGED <<queue, queued, taken, hand>> /\ reactor' = "idle"
    <2>1. StageOK'
        BY <1>1, <1>2, <1>3 DEF QueueInv, StageOK, Broken
    <2>2. NativeTypes'
        BY <1>2, <1>3 DEF NativeTypes, Stages
    <2>3. QueueInv'
        BY <1>1, <1>2, <1>3, <2>1, QueueSame
    <2> QED BY <2>2, <2>3
<1>4. CASE queue # <<>> /\ queue' = Tail(queue) /\ reactor' = "write"
    <2> DEFINE c == queue[1]
               L == Len(queue)
    <2>1. /\ Tail(queue) \in Seq(Chunk) /\ L \in Nat /\ L >= 1
          /\ Len(queue') = L - 1 /\ Head(queue) = c
          /\ \A i \in 1..(L - 1) : queue'[i] = queue[i + 1] /\ i + 1 \in 1..L
          /\ \A i \in 1..L : i = 1 \/ i - 1 \in 1..(L - 1)
          /\ 1 \in 1..L /\ c \in Chunk
        BY <1>4, TailKeeps
    <2>2. PICK h : h = [c EXCEPT !.acc = Remaining(c)]
        OBVIOUS
    <2>3. /\ hand' = <<h>>
          /\ queued' = queued - Remaining(c) /\ taken' = taken + Remaining(c)
        BY <1>1, <1>4, <2>1, <2>2 DEF Dequeue
    <2>4. /\ c.sub \in 1..Len(size) /\ c.from + c.off < c.to
          /\ c.to <= offset[c.sub] /\ written[c.sub] <= c.from + c.off
        BY <2>1 DEF QueueInv, LineOK
    <2>5. /\ c.from \in Nat /\ c.to \in Nat /\ c.off \in Nat /\ c.sub \in Nat /\ c.acc \in Nat
          /\ Remaining(c) \in Nat /\ Remaining(c) > 0 /\ Remaining(c) = c.to - c.from - c.off
        <3>1. c \in Chunk
            BY <2>1
        <3> HIDE DEF c
        <3>2. c.from + c.off < c.to /\ (c.from + c.off < c.to => c.from + c.off <= c.to)
            BY <2>4, <3>1, ChunkIs
        <3> QED BY <3>1, <3>2, ChunkIs
    <2>6. /\ h \in Chunk
          /\ h.sub = c.sub /\ h.from = c.from /\ h.to = c.to /\ h.off = c.off
          /\ h.acc = Remaining(c) /\ Remaining(h) = Remaining(c)
        BY <2>1, <2>2, <2>5 DEF Chunk, Remaining, Length
    <2>7. Len(hand') = 1 /\ hand'[1] = h /\ hand' \in Seq(Chunk) /\ hand' # <<>>
        BY <2>3, <2>6
    <2>8. \A i \in 2..L : Precedes(c, queue[i])
        BY <2>1 DEF QueueInv, LineOK
    <2>9. written[c.sub] = c.from + c.off
        <3> SUFFICES ASSUME written[c.sub] # c.from + c.off PROVE FALSE
            OBVIOUS
        <3>1. written[c.sub] \in Nat /\ offset[c.sub] \in Nat
            BY <2>4, RecordsAre
        <3> DEFINE p == written[c.sub]
        <3>2. p < c.from + c.off /\ p \in written[c.sub]..(offset[c.sub] - 1)
            <4> HIDE DEF c
            <4>1. \A k, m, n \in Nat : k < m /\ m <= n => k < n /\ k <= n - 1
                OBVIOUS
            <4>2. p \in Nat /\ c.from + c.off \in Nat /\ c.to \in Nat
                BY <2>5, <3>1
            <4>3. p <= c.from + c.off /\ p # c.from + c.off
                BY <2>4
            <4>4. p < c.from + c.off
                BY <4>2, <4>3
            <4>5. c.from + c.off < offset[c.sub]
                BY <2>4, <3>1, <4>1, <4>2
            <4>6. p <= offset[c.sub] - 1
                BY <3>1, <4>1, <4>2, <4>4, <4>5
            <4> QED BY <3>1, <4>2, <4>4, <4>6
        <3>3. PICK i \in 1..L : Covers(queue[i], c.sub, p)
            BY <1>1, <2>4, <3>2 DEF QueueInv, CoverOK
        <3>4. i # 1
            BY <3>2, <3>3, <2>5, <3>1 DEF Covers
        <3>5. Precedes(c, queue[i]) /\ queue[i] \in Chunk
            BY <2>8, <3>4, ElementOfSeq DEF NativeTypes
        <3>6. queue[i].sub = c.sub /\ queue[i].from + queue[i].off <= p
              /\ queue[i].from \in Nat /\ queue[i].off \in Nat
            BY <3>3, <3>5 DEF Covers, Chunk
        <3>7. c.to <= queue[i].from
            BY <2>5, <3>5, <3>6 DEF Precedes
        <3>8. p \in Nat /\ p < c.from + c.off /\ c.from + c.off < c.to
            BY <2>4, <3>1, <3>2
        <3>9. queue[i].from <= p
            BY <3>6, <3>8
        <3> HIDE DEF c, p
        <3>10. \A k, l, m, n \in Nat : k <= l /\ l < m /\ m < n => ~(n <= k)
            OBVIOUS
        <3> QED BY <2>5, <3>6, <3>7, <3>8, <3>9, <3>10
    <2>10. InQueue = InQueue' \union Bytes(c) /\ \A x \in InQueue' : x \notin Bytes(c)
        <3>1. \A x : x \in InQueue' <=> \E i \in 1..(L - 1) : x \in Bytes(queue[i + 1])
            BY <2>1 DEF InQueue
        <3>2. \A x : x \in InQueue <=> \E i \in 1..L : x \in Bytes(queue[i])
            BY DEF InQueue
        <3>3. ASSUME NEW x \in InQueue PROVE x \in InQueue' \/ x \in Bytes(c)
            <4>1. PICK i \in 1..L : x \in Bytes(queue[i])
                BY <3>2, <3>3
            <4>2. CASE i # 1
                <5>1. i - 1 \in 1..(L - 1) /\ (i - 1) + 1 = i
                    BY <2>1, <4>2
                <5> QED BY <3>1, <4>1, <5>1
            <4> QED BY <4>1, <4>2
        <3>4. ASSUME NEW x \in InQueue' PROVE x \in InQueue /\ x \notin Bytes(c)
            <4>1. PICK i \in 1..(L - 1) : x \in Bytes(queue[i + 1])
                BY <3>1, <3>4
            <4>2. i + 1 \in 2..L /\ i + 1 \in 1..L /\ queue[i + 1] \in Chunk
                BY <2>1, ElementOfSeq DEF NativeTypes
            <4>3. Precedes(c, queue[i + 1])
                BY <2>8, <4>2
            <4> QED BY <2>1, <3>2, <4>1, <4>2, <4>3, PrecedesDisjoint
        <3>5. ASSUME NEW x \in Bytes(c) PROVE x \in InQueue
            BY <2>1, <3>2
        <3> QED BY <3>3, <3>4, <3>5
    <2>11. QueuedOK' /\ queued' \in Nat /\ queued = queued' + Remaining(c)
        <3>1. IsFiniteSet(InQueue) /\ queued = Cardinality(InQueue)
            BY DEF QueueInv, QueuedOK
        <3>2. IsFiniteSet(Bytes(c)) /\ Cardinality(Bytes(c)) = Remaining(c)
            <4> HIDE DEF c
            <4>1. c \in Chunk /\ Remaining(c) \in Nat
                BY <2>1, <2>5
            <4> QED BY <2>4, <2>5, <4>1, BytesCount
        <3>3. IsFiniteSet(InQueue')
            BY <2>10, <3>1, FS_Subset
        <3>4. Cardinality(InQueue') \in Nat /\ queued = Cardinality(InQueue') + Remaining(c)
            BY <2>10, <3>1, <3>2, <3>3, DisjointCount, FS_CardinalityType
        <3> QED BY <2>3, <2>5, <3>3, <3>4 DEF QueuedOK
    <2>12. LineOK'
        <3>1. ASSUME NEW i \in 1..(L - 1)
              PROVE  /\ queue'[i].sub \in 1..Len(size)
                     /\ queue'[i].from + queue'[i].off < queue'[i].to
                     /\ queue'[i].to <= offset[queue'[i].sub]
                     /\ written[queue'[i].sub] <= queue'[i].from + queue'[i].off
            BY <2>1 DEF QueueInv, LineOK
        <3>2. ASSUME NEW i \in 1..(L - 1), NEW j \in 1..(L - 1), i < j
              PROVE  Precedes(queue'[i], queue'[j])
            <4>1. i + 1 \in 1..L /\ j + 1 \in 1..L /\ i + 1 < j + 1
                BY <2>1, <3>2
            <4>2. Precedes(queue[i + 1], queue[j + 1])
                BY <4>1 DEF QueueInv, LineOK
            <4> QED BY <2>1, <4>2
        <3> QED BY <1>2, <2>1, <3>1, <3>2 DEF LineOK
    <2>13. HandOK'
        <3>1. ASSUME NEW j \in 1..(L - 1) PROVE Precedes(h, queue'[j])
            <4>1. Precedes(c, queue[j + 1])
                BY <2>1, <2>8
            <4> QED BY <2>1, <2>6, <4>1 DEF Precedes
        <3>2. h.acc = taken' /\ Remaining(h) <= h.acc /\ Remaining(h) > 0
            BY <1>1, <2>3, <2>5, <2>6
        <3>3. h.from < h.to /\ h.from + h.off <= h.to
            BY <2>4, <2>5, <2>6
        <3>4. \A i \in 1..Len(hand') : hand'[i] = h
            BY <2>7
        <3> QED BY <1>2, <1>4, <2>1, <2>4, <2>6, <2>9, <3>1, <3>2, <3>3, <3>4 DEF HandOK
    <2>14. StageOK'
        BY <1>1, <1>2, <1>4, <2>7 DEF StageOK, Broken
    <2>15. CoverOK'
        <3>1. ASSUME NEW s \in 1..Len(size), NEW p \in written[s]..(offset[s] - 1)
              PROVE  \/ \E i \in 1..Len(hand') : Covers(hand'[i], s, p)
                     \/ \E i \in 1..(L - 1) : Covers(queue'[i], s, p)
            <4>1. PICK i \in 1..L : Covers(queue[i], s, p)
                BY <1>1 DEF QueueInv, CoverOK
            <4>2. CASE i = 1
                <5>1. Covers(h, s, p)
                    BY <2>6, <4>1, <4>2 DEF Covers
                <5> QED BY <2>7, <5>1
            <4>3. CASE i # 1
                <5>1. i - 1 \in 1..(L - 1) /\ (i - 1) + 1 = i
                    BY <2>1, <4>3
                <5> QED BY <2>1, <4>1, <5>1
            <4> QED BY <4>2, <4>3
        <3> QED BY <1>2, <2>1, <3>1 DEF CoverOK
    <2>16. WrittenOK'
        BY <1>2 DEF QueueInv, WrittenOK
    <2>17. NativeTypes'
        <3>1. /\ queue' \in Seq(Chunk) /\ queued' \in Nat /\ taken' \in Nat
              /\ queued' + taken' <= MaxPendingBytes /\ reactor' \in Stages
            <4>1. queued \in Nat /\ queued + taken <= MaxPendingBytes
                BY DEF NativeTypes
            <4> QED BY <1>1, <1>4, <2>1, <2>3, <2>5, <2>11, <4>1 DEF Stages
        <3> QED BY <1>2, <2>7, <3>1 DEF NativeTypes
    <2> QED BY <2>11, <2>12, <2>13, <2>14, <2>15, <2>16, <2>17 DEF QueueInv
<1> QED BY <1>3, <1>4 DEF Dequeue, Steps

\* The chunk in hand, when there is one.
LEMMA HandIs ==
    ASSUME IsolateTypes, NativeTypes, QueueInv, reactor \in {"write", "post", "complete"}
    PROVE  /\ hand # <<>> /\ Len(hand) = 1 /\ hand[1] \in Chunk /\ 1 \in 1..Len(hand)
           /\ \A i \in 1..Len(hand) : i = 1
           /\ hand[1].sub \in 1..Len(size) /\ hand[1].from < hand[1].to
           /\ hand[1].from + hand[1].off <= hand[1].to /\ hand[1].to <= offset[hand[1].sub]
           /\ written[hand[1].sub] = hand[1].from + hand[1].off
           /\ hand[1].acc = taken /\ Remaining(hand[1]) <= hand[1].acc
           /\ reactor = "write" <=> Remaining(hand[1]) > 0
           /\ \A j \in 1..Len(queue) : Precedes(hand[1], queue[j])
           /\ hand[1].from \in Nat /\ hand[1].to \in Nat /\ hand[1].off \in Nat
           /\ hand[1].sub \in Nat /\ hand[1].acc \in Nat
           /\ Remaining(hand[1]) = hand[1].to - hand[1].from - hand[1].off
           /\ Remaining(hand[1]) \in Nat
           /\ ~Broken
<1>1. hand # <<>> /\ ~Broken
    BY DEF QueueInv, StageOK
<1>2. Len(hand) \in Nat /\ Len(hand) <= 1 /\ Len(hand) >= 1 /\ hand \in Seq(Chunk)
    BY <1>1, LenProperties, TailIs DEF NativeTypes
<1>3. Len(hand) = 1
    <2>1. \A k \in Nat : k >= 1 /\ k <= 1 => k = 1
        OBVIOUS
    <2> QED BY <1>2, <2>1
<1>4. 1 \in 1..Len(hand) /\ \A i \in 1..Len(hand) : i = 1
    BY <1>3
<1>5. hand[1] \in Chunk
    BY <1>2, <1>4, ElementOfSeq
<1>6. /\ hand[1].from \in Nat /\ hand[1].to \in Nat /\ hand[1].off \in Nat
      /\ hand[1].sub \in Nat /\ hand[1].acc \in Nat
    BY <1>5 DEF Chunk
<1>7. /\ hand[1].sub \in 1..Len(size) /\ hand[1].from < hand[1].to
      /\ hand[1].from + hand[1].off <= hand[1].to /\ hand[1].to <= offset[hand[1].sub]
      /\ written[hand[1].sub] = hand[1].from + hand[1].off
      /\ hand[1].acc = taken /\ Remaining(hand[1]) <= hand[1].acc
      /\ reactor = "write" <=> Remaining(hand[1]) > 0
      /\ \A j \in 1..Len(queue) : Precedes(hand[1], queue[j])
    BY <1>4 DEF QueueInv, HandOK
<1>8. Remaining(hand[1]) = hand[1].to - hand[1].from - hand[1].off
    BY DEF Remaining, Length
<1>9. Remaining(hand[1]) \in Nat
    BY <1>6, <1>7, <1>8
<1> QED BY <1>1, <1>3, <1>4, <1>5, <1>6, <1>7, <1>8, <1>9

\* The terminal accepts bytes: they are the next of their submission, and all of the
\* earlier submissions' are in it.
LEMMA WriteBytesKeeps ==
    ASSUME IsolateTypes, IsolateInv, NativeTypes, QueueInv, WriteBytes
    PROVE  /\ QueueInv' /\ NativeTypes' /\ IsolateTypes'
           /\ \A s \in 1..Len(size) : written[s] <= written'[s]
           /\ hand' # <<>> /\ Len(hand') = 1 /\ Len(hand) = 1
           /\ hand'[1].sub = hand[1].sub /\ hand'[1].from = hand[1].from /\ hand'[1].to = hand[1].to
<1>0. PICK h, s : h = hand[1] /\ s = h.sub
    OBVIOUS
<1>1. reactor = "write"
    BY DEF WriteBytes
<1>2. PICK k \in 1..Min({Remaining(h), TtyCap - tty}) :
         /\ tty' = tty + k
         /\ written' = [written EXCEPT ![s] = @ + k]
         /\ hand' = <<[h EXCEPT !.off = @ + k]>>
    BY <1>0 DEF WriteBytes
<1>3. /\ reactor' = (IF Remaining(hand'[1]) = 0 THEN "post" ELSE "write")
      /\ UNCHANGED <<isolate, stopping, events, queue, queued, taken, flagged, inputClosed>>
      /\ UNCHANGED <<size, fate, offset, admissions, waiting, inflight, owned, writableDue, closed,
                     owner, dart>>
    BY DEF WriteBytes, DartUnchanged, isolate
<1>4. /\ h = hand[1] /\ s = h.sub
      /\ hand # <<>> /\ Len(hand) = 1 /\ h \in Chunk /\ 1 \in 1..Len(hand)
      /\ \A i \in 1..Len(hand) : i = 1
      /\ s \in 1..Len(size) /\ h.from < h.to
      /\ h.from + h.off <= h.to /\ h.to <= offset[s]
      /\ written[s] = h.from + h.off
      /\ h.acc = taken /\ Remaining(h) <= h.acc
      /\ Remaining(h) > 0
      /\ \A j \in 1..Len(queue) : Precedes(h, queue[j])
      /\ h.from \in Nat /\ h.to \in Nat /\ h.off \in Nat
      /\ s \in Nat /\ h.acc \in Nat
      /\ Remaining(h) = h.to - h.from - h.off /\ Remaining(h) \in Nat
      /\ ~Broken
    BY <1>0, <1>1, HandIs
<1>5. k \in Nat /\ k >= 1 /\ k <= Remaining(h) /\ k <= TtyCap - tty /\ tty \in Nat /\ TtyCap \in Nat
    <2>1. tty \in Nat /\ TtyCap \in Nat /\ TtyCap - tty \in Nat
        BY InputFlowAssumption DEF NativeTypes
    <2>2. /\ Min({Remaining(h), TtyCap - tty}) \in Nat
          /\ Min({Remaining(h), TtyCap - tty}) <= Remaining(h)
          /\ Min({Remaining(h), TtyCap - tty}) <= TtyCap - tty
        <3> QED BY <1>4, <2>1, MinOfTwo
    <2> QED BY <1>4, <2>1, <2>2
<1>6. PICK g : g = [h EXCEPT !.off = @ + k]
    OBVIOUS
<1>7. /\ g \in Chunk /\ g.sub = s /\ g.from = h.from /\ g.to = h.to /\ g.off = h.off + k
      /\ g.acc = h.acc
    <2>1. h \in Chunk /\ s = h.sub /\ h.off \in Nat /\ k \in Nat
        BY <1>4, <1>5
    <2>2. h.off + k \in Nat
        BY <2>1
    <2> QED BY <1>6, <2>1, <2>2 DEF Chunk
<1>8. Remaining(g) = Remaining(h) - k /\ Remaining(g) \in Nat
    <2>1. Remaining(g) = g.to - g.from - g.off
        BY DEF Remaining, Length
    <2> QED BY <1>4, <1>5, <1>7, <2>1
<1>9. /\ hand' = <<g>> /\ Len(hand') = 1 /\ hand'[1] = g /\ hand' \in Seq(Chunk) /\ hand' # <<>>
      /\ \A i \in 1..Len(hand') : hand'[i] = g
      /\ 1 \in 1..Len(hand')
    BY <1>2, <1>6, <1>7
<1>10. /\ written' \in Seq(Nat) /\ Len(written') = Len(size)
       /\ \A r \in 1..Len(size) : written'[r] = IF r = s THEN written[s] + k ELSE written[r]
       /\ \A r \in 1..Len(size) : written[r] \in Nat /\ offset[r] \in Nat /\ size[r] \in Nat
    <2>1. written \in Seq(Nat) /\ Len(written) = Len(size)
        BY DEF IsolateTypes
    <2>2. \A r \in 1..Len(size) : written[r] \in Nat /\ offset[r] \in Nat /\ size[r] \in Nat
        BY RecordsAre
    <2>3. PICK e : e = written[s] + k
        OBVIOUS
    <2>4. written' = [written EXCEPT ![s] = e] /\ e \in Nat
        <3>1. s \in 1..Len(size) /\ written[s] \in Nat /\ k \in Nat
            BY <1>4, <1>5, <2>2
        <3> QED BY <1>2, <2>3, <3>1
    <2>5. /\ written' \in Seq(Nat) /\ Len(written') = Len(size)
          /\ \A r \in 1..Len(size) : written'[r] = IF r = s THEN e ELSE written[r]
        <3> QED BY <1>4, <2>1, <2>4, ExceptSeq
    <2> QED BY <2>2, <2>3, <2>5
<1>11. written'[s] = h.from + h.off + k /\ written'[s] <= h.to
    <2>1. written'[s] = h.from + h.off + k
        BY <1>4, <1>10
    <2> QED BY <1>4, <1>5, <2>1
<1>12. \A r \in 1..Len(size) : offset[r] <= size[r] /\ written[r] <= offset[r]
    BY DEF IsolateInv, SubsOK, QueueInv, WrittenOK
<1>13. written[s] < size[s] /\ written[s] \in Nat /\ size[s] \in Nat
    <2>1. written[s] < h.to
        <3> QED BY <1>4
    <2>2. h.to <= size[s]
        <3>1. h.to <= offset[s] /\ offset[s] <= size[s] /\ h.to \in Nat
              /\ offset[s] \in Nat /\ size[s] \in Nat
            BY <1>4, <1>10, <1>12
        <3> QED BY <3>1
    <2>3. written[s] \in Nat /\ size[s] \in Nat /\ h.to \in Nat
        BY <1>4, <1>10
    <2> QED BY <2>1, <2>2, <2>3
<1>14. LineOK'
    <2>1. ASSUME NEW i \in 1..Len(queue)
          PROVE  written'[queue[i].sub] <= queue[i].from + queue[i].off
        <3>1. /\ queue[i].sub \in 1..Len(size) /\ queue[i] \in Chunk
              /\ written[queue[i].sub] <= queue[i].from + queue[i].off
            BY ElementOfSeq DEF QueueInv, LineOK, NativeTypes
        <3>2. queue[i].from \in Nat /\ queue[i].off \in Nat
            BY <3>1 DEF Chunk
        <3>3. CASE queue[i].sub = s
            <4>1. h.to <= queue[i].from
                <5>1. Precedes(h, queue[i]) /\ h.sub = s /\ s \in Nat
                    BY <1>4
                <5>2. ~(s < queue[i].sub)
                    BY <5>1, <3>3
                <5> QED BY <5>1, <5>2 DEF Precedes
            <4>2. h.to \in Nat /\ h.from + h.off + k \in Nat
                BY <1>4, <1>5
            <4>3. written'[s] \in Nat /\ written'[s] <= h.to
                BY <1>11, <4>2
            <4>4. written'[s] <= queue[i].from + queue[i].off
                BY <3>2, <4>1, <4>2, <4>3
            <4> QED BY <3>3, <4>4
        <3>4. CASE queue[i].sub # s
            BY <1>10, <3>1, <3>4
        <3> QED BY <3>3, <3>4
    <2> QED BY <1>3, <2>1 DEF QueueInv, LineOK
<1>15. HandOK'
    <2>1. g.from + g.off <= g.to /\ written'[g.sub] = g.from + g.off
        <3>1. written'[g.sub] = g.from + g.off
            BY <1>4, <1>5, <1>7, <1>11
        <3> QED BY <1>7, <1>11, <3>1
    <2>2. g.acc = taken /\ Remaining(g) <= g.acc
        <3> QED BY <1>4, <1>5, <1>7, <1>8
    <2>3. reactor' = "write" <=> Remaining(g) > 0
        BY <1>3, <1>8, <1>9
    <2>4. \A j \in 1..Len(queue) : Precedes(g, queue[j])
        BY <1>4, <1>7 DEF Precedes
    <2>5. g.sub \in 1..Len(size) /\ g.from < g.to /\ g.to <= offset[g.sub]
        BY <1>4, <1>7
    <2> QED BY <1>3, <1>9, <2>1, <2>2, <2>3, <2>4, <2>5 DEF HandOK
<1>16. StageOK'
    BY <1>3, <1>4, <1>9 DEF StageOK, Broken
<1>17. QueuedOK'
    BY <1>3 DEF QueueInv, QueuedOK, InQueue
<1>18. CoverOK'
    <2>1. ASSUME NEW r \in 1..Len(size), NEW p \in written'[r]..(offset[r] - 1)
          PROVE  Covers(g, r, p) \/ \E i \in 1..Len(queue) : Covers(queue[i], r, p)
        <3>1. p \in written[r]..(offset[r] - 1)
            <4>1. /\ written[r] \in Nat /\ offset[r] \in Nat
                  /\ written'[r] = (IF r = s THEN written[s] + k ELSE written[r])
                BY <1>10
            <4>2. written'[r] \in Nat /\ written[r] <= written'[r]
                BY <1>5, <4>1
            <4>3. p \in Int /\ written'[r] <= p /\ p <= offset[r] - 1
                BY <4>1, <4>2
            <4>4. \A l, m \in Nat, q \in Int : l <= m /\ m <= q => l <= q
                OBVIOUS
            <4> QED BY <4>1, <4>2, <4>3, <4>4
        <3>2. Covers(h, r, p) \/ \E i \in 1..Len(queue) : Covers(queue[i], r, p)
            BY <1>0, <1>4, <3>1 DEF QueueInv, CoverOK
        <3>3. ASSUME Covers(h, r, p) PROVE Covers(g, r, p)
            <4>1. r = s /\ p < h.to
                BY <1>4, <3>3 DEF Covers
            <4>2. written'[s] <= p
                BY <4>1
            <4> QED BY <1>7, <1>11, <4>1, <4>2, <1>4, <1>5 DEF Covers
        <3> QED BY <3>2, <3>3
    <2> QED BY <1>3, <1>9, <2>1 DEF CoverOK
<1>19. WrittenOK'
    <2>1. ASSUME NEW r \in 1..Len(size)
          PROVE  written'[r] <= offset[r] /\ (fate[r] = "done" => written'[r] = size[r])
        <3>1. CASE r = s
            <4>1. fate[s] # "done"
                <5>1. fate[s] = "done" => written[s] = size[s]
                    BY <1>4 DEF QueueInv, WrittenOK
                <5> QED BY <1>13, <5>1
            <4>2. written'[s] <= offset[s]
                <5>1. written'[s] \in Nat /\ offset[s] \in Nat /\ h.to \in Nat
                    <6>1. s \in 1..Len(size) /\ h.to \in Nat
                        BY <1>4
                    <6>2. written'[s] = written[s] + k /\ written[s] \in Nat /\ offset[s] \in Nat
                        BY <1>10, <6>1
                    <6> QED BY <1>5, <6>1, <6>2
                <5> QED BY <1>4, <1>11, <5>1
            <4> QED BY <3>1, <4>1, <4>2
        <3>2. CASE r # s
            BY <1>10, <1>12, <3>2 DEF QueueInv, WrittenOK
        <3> QED BY <3>1, <3>2
    <2>2. ASSUME NEW r \in 1..Len(size), NEW t \in 1..Len(size), r < t, written'[t] > 0,
                 fate[r] # "rejected"
          PROVE  written'[r] = size[r]
        <3>1. CASE t = s
            <4>1. offset[r] = size[r]
                <5>1. offset[s] > 0
                    <6>1. h.from < h.to /\ h.to <= offset[s] /\ h.from \in Nat /\ h.to \in Nat
                        BY <1>4
                    <6>2. offset[s] \in Nat
                        BY <1>4, <1>10
                    <6> QED BY <6>1, <6>2
                <5> QED BY <1>4, <2>2, <3>1, <5>1 DEF IsolateInv, SubsOK
            <4>2. r # s /\ written'[r] = written[r]
                <5>1. r # s
                    BY <2>2, <3>1
                <5> QED BY <1>10, <5>1
            <4>3. SUFFICES ASSUME written[r] < offset[r] PROVE FALSE
                BY <1>10, <1>12, <4>1, <4>2
            <4>4. written[r] \in written[r]..(offset[r] - 1)
                BY <1>10, <4>3
            <4>5. ~Covers(h, r, written[r])
                BY <1>4, <4>2 DEF Covers
            <4>6. PICK i \in 1..Len(queue) : Covers(queue[i], r, written[r])
                BY <1>0, <1>4, <4>4, <4>5 DEF QueueInv, CoverOK
            <4>7. s < r \/ s = r
                BY <1>4, <4>6 DEF Covers, Precedes
            <4> QED BY <1>4, <2>2, <3>1, <4>7
        <3>2. CASE t # s
            <4>1. written[r] = size[r]
                BY <1>10, <2>2, <3>2 DEF QueueInv, WrittenOK
            <4>2. r # s
                BY <1>13, <4>1
            <4> QED BY <1>10, <4>1, <4>2
        <3> QED BY <3>1, <3>2
    <2> QED BY <1>3, <2>1, <2>2 DEF WrittenOK
<1>20. NativeTypes'
    <2>1. tty' \in 0..TtyCap
        BY <1>2, <1>5
    <2>2. reactor' \in Stages
        BY <1>3 DEF Stages
    <2> QED BY <1>3, <1>9, <2>1, <2>2 DEF NativeTypes
<1>21. IsolateTypes'
    BY <1>3, <1>10 DEF IsolateTypes
<1>22. ASSUME NEW r \in 1..Len(size) PROVE written[r] <= written'[r]
    <2>1. written[r] \in Nat /\ (written'[r] = written[r] + k \/ written'[r] = written[r])
        BY <1>10
    <2> QED BY <1>5, <2>1
<1> QED BY <1>0, <1>4, <1>7, <1>9, <1>14, <1>15, <1>16, <1>17, <1>18, <1>19, <1>20, <1>21, <1>22
        DEF QueueInv

\* A blocked write: what is left of the chunk in hand goes back to the front of the
\* queue, and the bytes that count as taken become bytes queued again.
LEMMA WriteBlocksKeeps ==
    ASSUME IsolateTypes, NativeTypes, QueueInv, WriteBlocks
    PROVE  /\ QueueInv' /\ NativeTypes'
           /\ hand' = <<>> /\ taken' = 0 /\ queued' > 0
           /\ \A i \in 1..Len(queue') : \/ Id(queue'[i]) = Id(hand[1]) /\ queue'[i].to = hand[1].to
                                        \/ \E j \in 1..Len(queue) : queue'[i] = queue[j]
<1>0. PICK h, s, L : h = hand[1] /\ s = h.sub /\ L = Len(queue)
    OBVIOUS
<1>1. reactor = "write" /\ reactor' = "yield"
    BY DEF WriteBlocks, Steps
<1>2. PICK g : g = [h EXCEPT !.acc = Remaining(h)]
    OBVIOUS
<1>3. /\ queue' = <<g>> \o queue /\ hand' = <<>>
      /\ taken' = taken - h.acc /\ queued' = queued + Remaining(h)
      /\ UNCHANGED <<isolate, stopping, events, flagged, inputClosed, tty, written>>
      /\ UNCHANGED <<size, fate, offset>>
    BY <1>0, <1>2 DEF WriteBlocks, Requeued, DartUnchanged, isolate
<1>4. /\ h = hand[1] /\ s = h.sub
      /\ hand # <<>> /\ Len(hand) = 1 /\ h \in Chunk /\ 1 \in 1..Len(hand)
      /\ \A i \in 1..Len(hand) : i = 1
      /\ s \in 1..Len(size) /\ h.from < h.to
      /\ h.from + h.off <= h.to /\ h.to <= offset[s]
      /\ written[s] = h.from + h.off
      /\ h.acc = taken /\ Remaining(h) <= h.acc
      /\ Remaining(h) > 0
      /\ \A j \in 1..Len(queue) : Precedes(h, queue[j])
      /\ h.from \in Nat /\ h.to \in Nat /\ h.off \in Nat
      /\ s \in Nat /\ h.acc \in Nat
      /\ Remaining(h) = h.to - h.from - h.off /\ Remaining(h) \in Nat
      /\ ~Broken
    BY <1>0, <1>1, HandIs
<1>5. /\ g \in Chunk /\ g.sub = s /\ g.from = h.from /\ g.to = h.to /\ g.off = h.off
      /\ Bytes(g) = Bytes(h)
    BY <1>2, <1>4 DEF Chunk, Bytes
<1>6. /\ queue \in Seq(Chunk) /\ L \in Nat /\ queue' \in Seq(Chunk) /\ Len(queue') = L + 1
      /\ queue'[1] = g /\ \A i \in 1..L : queue'[i + 1] = queue[i]
    <2>1. queue \in Seq(Chunk) /\ L \in Nat
        BY <1>0, LenProperties DEF NativeTypes
    <2> QED BY <1>0, <1>3, <1>5, <2>1, ConsIs
<1>7. \A i \in 1..(L + 1) : \/ i = 1 /\ queue'[i] = g
                            \/ i > 1 /\ i - 1 \in 1..L /\ queue'[i] = queue[i - 1]
    <2> TAKE i \in 1..(L + 1)
    <2>1. CASE i = 1
        BY <1>6, <2>1
    <2>2. CASE i # 1
        <3>1. i - 1 \in 1..L /\ (i - 1) + 1 = i /\ i > 1
            BY <1>6, <2>2
        <3> QED BY <1>6, <3>1
    <2> QED BY <2>1, <2>2
<1>8. 1 \in 1..(L + 1) /\ \A i \in 1..L : i + 1 \in 1..(L + 1)
    BY <1>6
<1>9. taken' = 0 /\ queued' > 0 /\ queued' \in Nat /\ queued' <= MaxPendingBytes
    <2>1. queued \in Nat /\ taken \in Nat /\ queued + taken <= MaxPendingBytes /\ MaxPendingBytes \in Nat
        BY InputFlowAssumption DEF NativeTypes
    <2>2. /\ taken' = 0 /\ queued' = queued + Remaining(h)
          /\ Remaining(h) \in Nat /\ Remaining(h) > 0 /\ Remaining(h) <= taken
        BY <1>3, <1>4, <2>1
    <2> QED BY <2>1, <2>2
<1>10. QueuedOK'
    <2>1. IsFiniteSet(InQueue) /\ queued = Cardinality(InQueue)
        BY DEF QueueInv, QueuedOK
    <2>2. IsFiniteSet(Bytes(h)) /\ Cardinality(Bytes(h)) = Remaining(h)
        BY <1>4, BytesCount
    <2>3. InQueue' = InQueue \union Bytes(h)
        <3>1. ASSUME NEW x \in InQueue' PROVE x \in InQueue \/ x \in Bytes(h)
            <4>1. PICK i \in 1..(L + 1) : x \in Bytes(queue'[i])
                BY <1>6, <3>1 DEF InQueue
            <4> QED BY <1>0, <1>5, <1>7, <4>1 DEF InQueue
        <3>2. ASSUME NEW x \in InQueue PROVE x \in InQueue'
            <4>1. PICK i \in 1..L : x \in Bytes(queue[i])
                BY <1>0, <3>2 DEF InQueue
            <4> QED BY <1>6, <1>8, <4>1 DEF InQueue
        <3>3. ASSUME NEW x \in Bytes(h) PROVE x \in InQueue'
            BY <1>5, <1>6, <1>8, <3>3 DEF InQueue
        <3> QED BY <3>1, <3>2, <3>3
    <2>4. \A x \in Bytes(h) : x \notin InQueue
        <3> SUFFICES ASSUME NEW x \in Bytes(h), x \in InQueue PROVE FALSE
            OBVIOUS
        <3>1. PICK i \in 1..L : x \in Bytes(queue[i])
            BY <1>0 DEF InQueue
        <3>2. queue[i] \in Chunk
            BY <1>0, <1>6, ElementOfSeq
        <3> QED BY <1>0, <1>4, <3>1, <3>2, PrecedesDisjoint
    <2>5. IsFiniteSet(InQueue') /\ Cardinality(InQueue') = Cardinality(Bytes(h)) + Cardinality(InQueue)
        <3>1. /\ IsFiniteSet(Bytes(h) \union InQueue)
              /\ Cardinality(Bytes(h) \union InQueue) = Cardinality(Bytes(h)) + Cardinality(InQueue)
            BY <2>1, <2>2, <2>4, DisjointCount
        <3>2. InQueue' = Bytes(h) \union InQueue
            BY <2>3
        <3> QED BY <3>1, <3>2
    <2>6. queued \in Nat
        BY DEF NativeTypes
    <2>7. queued' = Remaining(h) + queued
        BY <1>3, <1>4, <2>6
    <2> QED BY <2>1, <2>2, <2>5, <2>7 DEF QueuedOK
<1>11. LineOK'
    <2>1. ASSUME NEW i \in 1..(L + 1)
          PROVE  /\ queue'[i].sub \in 1..Len(size)
                 /\ queue'[i].from + queue'[i].off < queue'[i].to
                 /\ queue'[i].to <= offset[queue'[i].sub]
                 /\ written[queue'[i].sub] <= queue'[i].from + queue'[i].off
        <3>1. CASE i = 1
            <4>1. g.from + g.off < g.to
                BY <1>4, <1>5
            <4>2. written[g.sub] <= g.from + g.off
                BY <1>4, <1>5
            <4> QED BY <1>4, <1>5, <1>6, <3>1, <4>1, <4>2
        <3>2. CASE i # 1
            BY <1>0, <1>7, <3>2 DEF QueueInv, LineOK
        <3> QED BY <3>1, <3>2
    <2>2. ASSUME NEW i \in 1..(L + 1), NEW j \in 1..(L + 1), i < j
          PROVE  Precedes(queue'[i], queue'[j])
        <3>1. j # 1 /\ j - 1 \in 1..L /\ queue'[j] = queue[j - 1]
            BY <1>6, <1>7, <2>2
        <3>2. CASE i = 1
            <4>1. Precedes(h, queue[j - 1])
                BY <1>0, <1>4, <3>1
            <4> QED BY <1>5, <1>6, <1>4, <3>1, <3>2, <4>1 DEF Precedes
        <3>3. CASE i # 1
            <4>1. i - 1 \in 1..L /\ i - 1 < j - 1 /\ queue'[i] = queue[i - 1]
                BY <1>6, <1>7, <2>2, <3>3
            <4>2. Precedes(queue[i - 1], queue[j - 1])
                BY <1>0, <3>1, <4>1 DEF QueueInv, LineOK
            <4> QED BY <3>1, <4>1, <4>2
        <3> QED BY <3>2, <3>3
    <2> QED BY <1>3, <1>6, <2>1, <2>2 DEF LineOK
<1>12. HandOK' /\ Len(hand') = 0
    <2>1. Len(hand') = 0
        BY <1>3
    <2> QED BY <2>1 DEF HandOK
<1>13. StageOK'
    BY <1>1, <1>3, <1>4, <1>9 DEF StageOK, Broken
<1>14. CoverOK'
    <2>1. ASSUME NEW r \in 1..Len(size), NEW p \in written[r]..(offset[r] - 1)
          PROVE  \E i \in 1..(L + 1) : Covers(queue'[i], r, p)
        <3>1. Covers(h, r, p) \/ \E i \in 1..L : Covers(queue[i], r, p)
            BY <1>0, <1>4 DEF QueueInv, CoverOK
        <3>2. ASSUME Covers(h, r, p) PROVE Covers(queue'[1], r, p)
            BY <1>4, <1>5, <1>6, <3>2 DEF Covers
        <3> QED BY <1>6, <1>8, <3>1, <3>2
    <2> QED BY <1>3, <1>6, <2>1 DEF CoverOK
<1>15. WrittenOK'
    BY <1>3 DEF QueueInv, WrittenOK
<1>16. NativeTypes'
    <2>1. hand' \in Seq(Chunk) /\ Len(hand') <= 1
        BY <1>3, <1>12
    <2>2. queued' \in Nat /\ taken' \in Nat /\ queued' + taken' <= MaxPendingBytes
        BY <1>9
    <2> QED BY <1>1, <1>3, <1>6, <2>1, <2>2 DEF NativeTypes, Stages
<1>17. ASSUME NEW i \in 1..Len(queue')
       PROVE  \/ Id(queue'[i]) = Id(h) /\ queue'[i].to = h.to
              \/ \E j \in 1..Len(queue) : queue'[i] = queue[j]
    BY <1>0, <1>4, <1>5, <1>6, <1>7 DEF Id
<1> QED BY <1>0, <1>3, <1>9, <1>10, <1>11, <1>12, <1>13, <1>14, <1>15, <1>16, <1>17 DEF QueueInv

\* The chunk in hand is freed: it was written to its last byte, or the input fails.
LEMMA FreedChunkKeeps ==
    ASSUME IsolateTypes, NativeTypes, QueueInv, WriteFails \/ CompleteChunk
    PROVE  QueueInv' /\ NativeTypes' /\ hand' = <<>> /\ taken' = 0
<1>1. /\ \/ reactor = "write" /\ reactor' = "fail"
         \/ reactor = "complete" /\ reactor' = "notify"
      /\ taken' = taken - hand[1].acc /\ hand' = <<>>
      /\ UNCHANGED <<isolate, stopping, events, queue, queued, flagged, inputClosed, tty, written>>
      /\ UNCHANGED <<size, fate, offset>>
    BY DEF WriteFails, CompleteChunk, Steps, DartUnchanged, isolate
<1>2. /\ hand # <<>> /\ Len(hand) = 1 /\ ~Broken /\ hand[1].acc = taken /\ hand[1].acc \in Nat
      /\ \A i \in 1..Len(hand) : i = 1
      /\ reactor = "write" <=> Remaining(hand[1]) > 0
      /\ hand[1].from \in Nat /\ hand[1].to \in Nat /\ hand[1].off \in Nat
      /\ Remaining(hand[1]) = hand[1].to - hand[1].from - hand[1].off
    BY <1>1, HandIs
<1>3. taken' = 0 /\ Len(hand') = 0 /\ hand' \in Seq(Chunk)
    BY <1>1, <1>2
<1>4. NativeTypes'
    <2>1. queued \in Nat /\ taken \in Nat /\ queued + taken <= MaxPendingBytes /\ MaxPendingBytes \in Nat
        BY InputFlowAssumption DEF NativeTypes
    <2>2. queued' \in Nat /\ taken' \in Nat /\ queued' + taken' <= MaxPendingBytes
        BY <1>1, <1>3, <2>1
    <2> QED BY <1>1, <1>3, <2>2 DEF NativeTypes, Stages
<1>5. LineOK' /\ QueuedOK' /\ WrittenOK'
    <2>1. LineOK'
        BY <1>1 DEF QueueInv, LineOK
    <2>2. QueuedOK'
        BY <1>1 DEF QueueInv, QueuedOK, InQueue
    <2>3. WrittenOK'
        BY <1>1 DEF QueueInv, WrittenOK
    <2> QED BY <2>1, <2>2, <2>3
<1>6. HandOK'
    BY <1>3 DEF HandOK
<1>7. StageOK'
    BY <1>1, <1>2, <1>3 DEF StageOK, Broken
<1>8. CoverOK'
    <2>1. CASE reactor' = "fail"
        BY <2>1 DEF CoverOK, Broken
    <2>2. CASE reactor = "complete" /\ reactor' = "notify"
        <3>0. \A r \in 1..Len(size) : written[r] \in Nat /\ offset[r] \in Nat
            BY DEF IsolateTypes
        <3>1. ASSUME NEW r \in 1..Len(size), NEW p \in written[r]..(offset[r] - 1)
              PROVE  \E i \in 1..Len(queue) : Covers(queue[i], r, p)
            <4>1. ~Covers(hand[1], r, p)
                <5>1. p \in Int
                    BY <3>0
                <5> QED BY <1>2, <2>2, <5>1 DEF Covers
            <4> QED BY <1>2, <4>1 DEF QueueInv, CoverOK
        <3> QED BY <1>1, <3>1 DEF CoverOK
    <2> QED BY <1>1, <2>1, <2>2
<1> QED BY <1>1, <1>3, <1>4, <1>5, <1>6, <1>7, <1>8 DEF QueueInv

\* Nothing is queued any more once the input is closed and its queue discarded.
LEMMA DiscardKeeps ==
    ASSUME IsolateTypes, NativeTypes, QueueInv, Discard
    PROVE  QueueInv' /\ NativeTypes'
<1>1. /\ reactor = "discard" /\ reactor' = "idle" /\ queue' = <<>> /\ queued' = 0
      /\ UNCHANGED <<isolate, stopping, events, taken, hand, flagged, inputClosed, tty, written>>
      /\ UNCHANGED <<size, fate, offset>>
    BY DEF Discard, Steps, DartUnchanged, isolate
<1>2. hand = <<>> /\ taken = 0 /\ inputClosed
    BY <1>1 DEF QueueInv, StageOK
<1>3. Len(queue') = 0 /\ queue' \in Seq(Chunk) /\ Len(hand') = 0
    BY <1>1, <1>2
<1>4. NativeTypes'
    <2>1. MaxPendingBytes \in Nat
        BY InputFlowAssumption
    <2> QED BY <1>1, <1>2, <1>3, <2>1 DEF NativeTypes, Stages
<1>5. LineOK' /\ HandOK'
    BY <1>3 DEF LineOK, HandOK
<1>6. QueuedOK'
    <2>1. InQueue' = {}
        BY <1>3 DEF InQueue
    <2> QED BY <1>1, <2>1, FS_EmptySet DEF QueuedOK
<1>7. StageOK' /\ CoverOK'
    BY <1>1, <1>2 DEF StageOK, CoverOK, Broken
<1>8. WrittenOK'
    BY <1>1 DEF QueueInv, WrittenOK
<1> QED BY <1>4, <1>5, <1>6, <1>7, <1>8 DEF QueueInv

\* The reactor's steps that move no byte.
Moves == \/ Flush \/ HangsUp \/ InputFails \/ PostComplete \/ MaybePostWritable \/ PostWritable
         \/ ReactorEnds \/ ProgramReads

\* None of them touches the bytes or leaves a chunk in hand behind.
LEMMA MovesKeep ==
    ASSUME IsolateTypes, NativeTypes, QueueInv, Moves
    PROVE  QueueInv' /\ NativeTypes'
<1>1. /\ UNCHANGED <<isolate, stopping, queue, queued, taken, hand, written>>
      /\ UNCHANGED <<size, fate, offset>>
    BY DEF Moves, Flush, HangsUp, InputFails, PostComplete, MaybePostWritable, PostWritable,
           ReactorEnds, ProgramReads, DartUnchanged, isolate, native
<1>2. ASSUME NEW k \in Kinds, NEW id \in Ids, Post(k, id) PROVE events' \in Seq(Event)
    <2>1. [kind |-> k, id |-> id] \in Event /\ events \in Seq(Event)
        BY DEF NativeTypes, Event
    <2> HIDE DEF Event, Ids, Kinds
    <2> QED BY <1>2, <2>1, AppendProperties DEF Post
<1>3. "closed" \in Kinds /\ "writable" \in Kinds /\ "complete" \in Kinds /\ <<>> \in Ids
    BY DEF Kinds, Ids
<1>4. ASSUME MarkInputClosed PROVE events' \in Seq(Event) /\ inputClosed' = TRUE
    BY <1>2, <1>3, <1>4 DEF MarkInputClosed, NativeTypes
<1>5. CASE Flush
    <2>1. StageOK' /\ (Broken => Broken')
        BY <1>1, <1>5 DEF Flush, Steps, QueueInv, StageOK, Broken
    <2>2. hand # <<>> => (reactor' = "write" <=> reactor = "write")
        BY <1>5 DEF Flush, Steps
    <2>3. NativeTypes'
        BY <1>1, <1>5 DEF Flush, Steps, NativeTypes, Stages
    <2> QED BY <1>1, <2>1, <2>2, <2>3, QueueSame
<1>6. CASE HangsUp
    <2>1. StageOK' /\ (Broken => Broken')
        BY <1>1, <1>6 DEF HangsUp, Steps, QueueInv, StageOK, Broken
    <2>2. hand # <<>> => (reactor' = "write" <=> reactor = "write")
        BY <1>6 DEF HangsUp, Steps
    <2>3. NativeTypes'
        BY <1>1, <1>6 DEF HangsUp, Steps, NativeTypes, Stages
    <2> QED BY <1>1, <2>1, <2>2, <2>3, QueueSame
<1>7. CASE InputFails
    <2>1. inputClosed' = TRUE /\ events' \in Seq(Event) /\ reactor = "fail" /\ reactor' = "discard"
          /\ UNCHANGED <<flagged, tty>>
        BY <1>4, <1>7 DEF InputFails, Steps
    <2>2. StageOK' /\ (Broken => Broken')
        BY <1>1, <2>1 DEF QueueInv, StageOK, Broken
    <2>3. hand # <<>> => (reactor' = "write" <=> reactor = "write")
        BY <2>1
    <2>4. NativeTypes'
        BY <1>1, <2>1 DEF NativeTypes, Stages
    <2> QED BY <1>1, <2>2, <2>3, <2>4, QueueSame
<1>8. CASE PostComplete
    <2>1. reactor = "post" /\ reactor' = "complete" /\ UNCHANGED <<flagged, tty, inputClosed>>
          /\ Post("complete", Id(hand[1]))
        BY <1>8 DEF PostComplete, Steps
    <2>2. Id(hand[1]) \in Ids
        <3>1. hand[1].from \in Nat /\ hand[1].sub \in Nat
            BY <2>1, HandIs
        <3> QED BY <3>1 DEF Id, Ids
    <2>3. events' \in Seq(Event)
        BY <1>2, <1>3, <2>1, <2>2
    <2>4. StageOK' /\ (Broken => Broken')
        BY <1>1, <2>1 DEF QueueInv, StageOK, Broken
    <2>5. hand # <<>> => (reactor' = "write" <=> reactor = "write")
        BY <2>1
    <2>6. NativeTypes'
        BY <1>1, <2>1, <2>3 DEF NativeTypes, Stages
    <2> QED BY <1>1, <2>4, <2>5, <2>6, QueueSame
<1>9. CASE MaybePostWritable
    <2>1. /\ reactor \in {"notify", "yield"} /\ UNCHANGED <<events, tty, inputClosed>>
          /\ flagged' \in BOOLEAN
          /\ reactor' \in {"announce", "announceLast", "dequeue", "idle"}
          /\ reactor = "yield" => reactor' \in {"announceLast", "idle"}
        BY <1>9 DEF MaybePostWritable, NativeTypes
    <2>2. StageOK' /\ (Broken => Broken')
        BY <1>1, <2>1 DEF QueueInv, StageOK, Broken
    <2>3. hand # <<>> => (reactor' = "write" <=> reactor = "write")
        BY <2>1
    <2>4. NativeTypes'
        BY <1>1, <2>1 DEF NativeTypes, Stages
    <2> QED BY <1>1, <2>2, <2>3, <2>4, QueueSame
<1>10. CASE PostWritable
    <2>1. /\ reactor \in {"announce", "announceLast"} /\ UNCHANGED <<flagged, tty, inputClosed>>
          /\ events' \in Seq(Event) /\ reactor' \in {"dequeue", "idle"}
        BY <1>2, <1>3, <1>10 DEF PostWritable, Steps
    <2>2. StageOK' /\ (Broken => Broken')
        BY <1>1, <2>1 DEF QueueInv, StageOK, Broken
    <2>3. hand # <<>> => (reactor' = "write" <=> reactor = "write")
        BY <2>1
    <2>4. NativeTypes'
        BY <1>1, <2>1 DEF NativeTypes, Stages
    <2> QED BY <1>1, <2>2, <2>3, <2>4, QueueSame
<1>11. CASE ReactorEnds
    <2>1. inputClosed' = TRUE /\ events' \in Seq(Event) /\ reactor = "idle" /\ reactor' = "ended"
          /\ UNCHANGED <<flagged, tty>>
        BY <1>4, <1>11 DEF ReactorEnds, Steps
    <2>2. StageOK' /\ (Broken => Broken')
        BY <1>1, <2>1 DEF QueueInv, StageOK, Broken
    <2>3. hand # <<>> => (reactor' = "write" <=> reactor = "write")
        BY <2>1
    <2>4. NativeTypes'
        BY <1>1, <2>1 DEF NativeTypes, Stages
    <2> QED BY <1>1, <2>2, <2>3, <2>4, QueueSame
<1>12. CASE ProgramReads
    <2>1. PICK k \in 1..tty : tty' = tty - k
        BY <1>12 DEF ProgramReads
    <2>2. UNCHANGED <<events, reactor, flagged, inputClosed>>
        BY <1>12 DEF ProgramReads, native
    <2>3. tty' \in 0..TtyCap
        BY <2>1, InputFlowAssumption DEF NativeTypes
    <2>4. StageOK' /\ (Broken => Broken')
        BY <1>1, <2>2 DEF QueueInv, StageOK, Broken
    <2>5. NativeTypes'
        BY <1>1, <2>2, <2>3 DEF NativeTypes
    <2> QED BY <1>1, <2>2, <2>4, <2>5, QueueSame
<1> QED BY <1>5, <1>6, <1>7, <1>8, <1>9, <1>10, <1>11, <1>12 DEF Moves

-----------------------------------------------------------------------------
\* Every action keeps the state's bookkeeping, on both sides.

StateInv == IsolateTypes /\ NativeTypes /\ IsolateInv /\ QueueInv

\* A handler of the isolate that hands nothing over moves nothing in the native session.
LEMMA HandlerKeepsQueue ==
    ASSUME IsolateTypes, NativeTypes, QueueInv,
           UNCHANGED <<size, offset, written, queue, queued, hand, taken, reactor, inputClosed, tty>>,
           events' = events \/ (events # <<>> /\ events' = Tail(events)),
           flagged' \in BOOLEAN, stopping' \in BOOLEAN,
           \A s \in 1..Len(size) : /\ fate[s] = "rejected" => fate'[s] = "rejected"
                                   /\ fate'[s] = "done" => fate[s] = "done" \/ written[s] = size[s]
    PROVE  NativeTypes' /\ QueueInv'
<1>1. events' \in Seq(Event)
    <2>1. events \in Seq(Event)
        BY DEF NativeTypes
    <2> HIDE DEF Event
    <2> QED BY <2>1, TailIs
<1>2. NativeTypes'
    BY <1>1 DEF NativeTypes
<1>3. StageOK' /\ (Broken => Broken')
    BY DEF QueueInv, StageOK, Broken
<1> QED BY <1>2, <1>3, QueueSame

\* Settling fails or rejects what is pending and completes nothing.
LEMMA SettleCompletesNothing ==
    ASSUME NEW ss, NEW f \in {"error", "rejected"}, IsolateTypes, Settle(ss, f)
    PROVE  \A s \in 1..Len(size) : /\ fate[s] = "rejected" => fate'[s] = "rejected"
                                   /\ fate'[s] = "done" => fate[s] = "done"
<1>1. f \in Fates
    BY DEF Fates
<1>2. \A s \in 1..Len(size) :
          fate'[s] = IF s \in ss /\ fate[s] = "pending" THEN f ELSE fate[s]
    BY <1>1, SettleIs
<1> QED BY <1>2

\* While a submission is pending and no call of tryWrite runs, something is listed or
\* in flight: the owner is not released.
LEMMA PendingNotIdle ==
    ASSUME IsolateTypes, IsolateInv, ~Trying, NEW s \in 1..Len(size), fate[s] = "pending"
    PROVE  ~Idle(admissions, waiting, inflight)
<1>1. Listed(s) \/ Flying(s)
    BY DEF IsolateInv, PendingOK, Underway
<1>2. Len(<<>>) = 0
    OBVIOUS
<1>3. Listed(s) => admissions # <<>> \/ waiting # <<>>
    BY <1>2 DEF Listed, In
<1>4. Flying(s) => inflight # {}
    BY DEF Flying
<1> QED BY <1>1, <1>3, <1>4 DEF Idle

\* _releaseOwnerIfIdle keeps the owner of whatever is pending.
LEMMA ReleaseKeeps ==
    ASSUME IsolateTypes, IsolateInv, ~Trying, ReleasedOwner, UNCHANGED <<admissions, waiting, inflight>>
    PROVE  owner' \in BOOLEAN /\ ((\E s \in 1..Len(size) : fate[s] = "pending") /\ owner => owner')
<1>1. owner' = (owner /\ ~Idle(admissions, waiting, inflight)) /\ owner \in BOOLEAN
    BY DEF ReleasedOwner, Idle, IsolateTypes
<1> QED BY <1>1, PendingNotIdle

\* write and tryWrite up to its call.
LEMMA SubmissionsKeep ==
    ASSUME StateInv, (\E n \in WriteSizes : Write(n)) \/ (\E n \in TrySizes : TryWrite(n))
    PROVE  StateInv'
<1> USE DEF StateInv
<1>1. ASSUME NEW n \in Nat \ {0}, NEW f \in {"pending", "rejected"}, Submit(n, f),
             UNCHANGED <<events, native, tty>>
      PROVE  NativeTypes' /\ QueueInv'
    <2>1. UNCHANGED <<events, queue, queued, taken, hand, reactor, flagged, stopping, inputClosed, tty>>
        BY <1>1 DEF native
    <2>2. QueueInv'
        BY <1>1, <2>1, SubmitKeepsQueue
    <2>3. NativeTypes'
        BY <2>1 DEF NativeTypes
    <2> QED BY <2>2, <2>3
<1>2. ASSUME NEW n \in WriteSizes, Write(n) PROVE StateInv'
    <2>1. n \in Nat \ {0} /\ Submit(n, "pending") /\ UNCHANGED <<events, native, tty>>
        BY <1>2, InputFlowAssumption DEF Write
    <2>2. NativeTypes' /\ QueueInv'
        BY <1>1, <2>1
    <2> QED BY <1>2, <2>2, WriteKeeps
<1>3. ASSUME NEW n \in TrySizes, TryWrite(n) PROVE StateInv'
    <2>1. n \in Nat \ {0} /\ (Submit(n, "pending") \/ Submit(n, "rejected"))
          /\ UNCHANGED <<events, native, tty>>
        BY <1>3, InputFlowAssumption DEF TryWrite
    <2>2. NativeTypes' /\ QueueInv'
        BY <1>1, <2>1
    <2> QED BY <1>3, <2>2, TryWriteKeeps
<1> QED BY <1>2, <1>3

\* _pump returns without a call.
LEMMA PumpStopsKeeps ==
    ASSUME StateInv, PumpStops
    PROVE  StateInv'
<1> USE DEF StateInv
<1>1. /\ dart = "pump" /\ dart' = "idle" /\ ReleasedOwner
      /\ UNCHANGED <<size, fate, admissions, waiting, offset, inflight, owned, writableDue, closed,
                     events, native, tty, written>>
      /\ UNCHANGED <<events, queue, queued, taken, hand, reactor, flagged, stopping, inputClosed, tty>>
    BY DEF PumpStops, native
<1>2. ~Trying /\ ~Trying'
    BY <1>1 DEF Trying
<1>3. owner' \in BOOLEAN /\ ((\E s \in 1..Len(size) : fate[s] = "pending") /\ owner => owner')
    BY <1>1, <1>2, ReleaseKeeps
<1>4. writableDue' \in BOOLEAN
    BY <1>1 DEF IsolateTypes
<1>5. IsolateTypes' /\ IsolateInv'
    BY <1>1, <1>2, <1>3, <1>4, PlaceKeeps
<1>6. flagged' \in BOOLEAN /\ stopping' \in BOOLEAN
    BY <1>1 DEF NativeTypes
<1>7. NativeTypes' /\ QueueInv'
    BY <1>1, <1>6, HandlerKeepsQueue
<1> QED BY <1>5, <1>7

\* The call into the native session: the chunk is queued, or there is no room for it
\* and the caller keeps the lock, or the session is closed and everything fails.
LEMMA CallKeeps ==
    ASSUME StateInv, NEW c, MayHand(c), CallsNative(c), dart \in {"pump", "try"},
           waiting = <<>> <=> dart = "try"
    PROVE  StateInv'
<1> USE DEF StateInv
<1>1. /\ Accepted(c) \/ Refused(c) \/ Failed(c)
      /\ UNCHANGED <<size, writableDue, events, hand, reactor, flagged, inputClosed, tty, written>>
    BY DEF CallsNative
<1>2. /\ writableDue \in BOOLEAN /\ owner \in BOOLEAN /\ flagged \in BOOLEAN /\ stopping \in BOOLEAN
      /\ inputClosed \in BOOLEAN
    BY DEF IsolateTypes, NativeTypes
<1>3. CASE Accepted(c)
    <2>1. IsolateTypes' /\ IsolateInv'
        BY <1>1, <1>3, AcceptKeeps
    <2>2. /\ QueueInv' /\ queue' \in Seq(Chunk) /\ queued' \in Nat
          /\ queued' + taken <= MaxPendingBytes
        BY <1>1, <1>3, AcceptKeepsQueue
    <2>3. NativeTypes'
        BY <1>1, <1>3, <2>2 DEF Accepted, NativeTypes
    <2> QED BY <2>1, <2>2, <2>3
<1>4. CASE Refused(c)
    <2>1. /\ dart' = "flag"
          /\ UNCHANGED <<fate, admissions, waiting, offset, inflight, owned, closed, owner,
                         queue, queued, taken, stopping>>
        BY <1>4 DEF Refused
    <2>2. Trying' <=> Trying
        BY <2>1 DEF Trying
    <2>3. ~closed
        BY DEF MayHand
    <2>4. IsolateTypes' /\ IsolateInv'
        BY <1>1, <1>2, <2>1, <2>2, <2>3, PlaceKeeps
    <2>5. NativeTypes' /\ QueueInv'
        BY <1>1, <1>2, <2>1, HandlerKeepsQueue
    <2> QED BY <2>4, <2>5
<1>5. CASE Failed(c)
    <2>1. /\ stopping' = (stopping \/ ~NativeClosed)
          /\ CloseWithError({c.sub}) /\ dart' = "idle"
          /\ UNCHANGED <<offset, queue, queued, taken>>
        BY <1>5 DEF Failed
    <2>2. \A s : Underway(s) => s \in {c.sub}
        BY DEF Underway, MayHand
    <2>3. IsolateTypes' /\ IsolateInv'
        BY <1>1, <2>1, <2>2, CloseKeeps
    <2>4. \A s \in 1..Len(size) : /\ fate[s] = "rejected" => fate'[s] = "rejected"
                                  /\ fate'[s] = "done" => fate[s] = "done"
        BY <2>1, SettleCompletesNothing DEF CloseWithError
    <2>5. stopping' \in BOOLEAN
        BY <2>1
    <2>6. NativeTypes' /\ QueueInv'
        BY <1>1, <1>2, <2>1, <2>4, <2>5, HandlerKeepsQueue
    <2> QED BY <2>3, <2>6
<1> QED BY <1>1, <1>3, <1>4, <1>5

\* Where the controller calls, it has a chunk it may hand over.
LEMMA CallsKeep ==
    ASSUME StateInv, PumpCalls \/ TryCalls
    PROVE  /\ StateInv'
           /\ \E c : /\ MayHand(c) /\ CallsNative(c)
                     /\ dart \in {"pump", "try"} /\ (waiting = <<>> <=> dart = "try")
<1> USE DEF StateInv
<1>1. CASE PumpCalls
    <2>1. dart = "pump" /\ ~PumpDone /\ CallsNative(NextChunk)
        BY <1>1 DEF PumpCalls
    <2>2. MayHand(NextChunk) /\ waiting # <<>>
        BY <2>1, NextChunkIs DEF PumpDone
    <2>3. dart \in {"pump", "try"} /\ (waiting = <<>> <=> dart = "try")
        BY <2>1, <2>2
    <2> QED BY <2>1, <2>2, <2>3, CallKeeps
<1>2. CASE TryCalls
    <2>1. dart = "try" /\ CallsNative(TryChunk)
        BY <1>2 DEF TryCalls
    <2>2. MayHand(TryChunk)
        BY <2>1, TryChunkIs
    <2>3. waiting = <<>>
        BY <2>1 DEF IsolateInv, HandlerOK, Trying
    <2>4. dart \in {"pump", "try"} /\ (waiting = <<>> <=> dart = "try")
        BY <2>1, <2>3
    <2> QED BY <2>1, <2>2, <2>4, CallKeeps
<1> QED BY <1>1, <1>2

\* A tryWrite that found the queue full ends rejected: it handed over no byte.
LEMMA RejectKeeps ==
    ASSUME IsolateTypes, IsolateInv, dart = "flag", waiting = <<>>,
           Settle({Len(size)}, "rejected"), dart' = "idle", ReleasedOwner,
           UNCHANGED <<size, admissions, waiting, offset, inflight, owned, writableDue, closed, written>>
    PROVE  IsolateTypes' /\ IsolateInv'
<1> DEFINE N == Len(size)
<1>1. Trying /\ ~Trying'
    BY DEF Trying
<1>2. /\ admissions = <<>> /\ N > 0 /\ N \in Nat /\ N \in 1..Len(size)
      /\ offset[N] = 0 /\ ~closed
    <2>1. N \in Nat
        BY LenProperties DEF IsolateTypes
    <2>2. admissions = <<>> /\ N > 0 /\ offset[N] = 0 /\ ~closed
        BY <1>1 DEF IsolateInv, HandlerOK
    <2> QED BY <2>1, <2>2
<1>3. fate[N] = "pending"
    BY <1>1, <1>2 DEF IsolateInv, PendingOK, Underway
<1>4. /\ fate' \in Seq(Fates) /\ Len(fate') = N
      /\ \A s \in 1..N : fate'[s] = IF s = N THEN "rejected" ELSE fate[s]
    <2>1. "rejected" \in Fates
        BY DEF Fates
    <2> HIDE DEF Fates
    <2>2. /\ fate' \in Seq(Fates) /\ Len(fate') = N
          /\ \A s \in 1..N : fate'[s] = IF s \in {N} /\ fate[s] = "pending" THEN "rejected" ELSE fate[s]
        BY <2>1, SettleIs
    <2> QED BY <1>3, <2>2
<1>5. ~Flying(N)
    <2> SUFFICES ASSUME NEW c \in inflight, c.sub = N PROVE FALSE
        BY DEF Flying
    <2>1. c.from < c.to /\ c.to <= offset[N] /\ c.from \in Nat /\ c.to \in Nat
        BY DEF IsolateInv, FlyingOK, IsolateTypes, Chunk
    <2> QED BY <1>2, <2>1
<1>6. \A s : /\ ~Listed(s) /\ ~Listed(s)' /\ ~Underway(s)'
             /\ Flying(s)' <=> Flying(s)
    <2>1. Len(<<>>) = 0
        OBVIOUS
    <2> QED BY <1>1, <1>2, <2>1 DEF Listed, In, Flying, Underway
<1>7. owner' = (owner /\ inflight # {}) /\ owner \in BOOLEAN
    BY <1>2 DEF ReleasedOwner, Idle, IsolateTypes
<1>8. IsolateTypes'
    <2>1. owner' \in BOOLEAN
        BY <1>7
    <2> HIDE DEF Fates
    <2> QED BY <1>4, <2>1 DEF IsolateTypes
<1>9. ListOK' /\ HandlerOK'
    BY <1>1, <1>2 DEF IsolateInv, ListOK, Sorted, HandlerOK
<1>10. PendingOK'
    <2>1. ASSUME NEW s \in 1..N PROVE fate'[s] = "pending" <=> Flying(s)
        <3>1. CASE s = N
            BY <1>4, <1>5, <3>1
        <3>2. CASE s # N
            <4>1. fate[s] = "pending" <=> Flying(s)
                BY <1>6, <3>2 DEF IsolateInv, PendingOK, Underway
            <4> QED BY <1>4, <3>2, <4>1
        <3> QED BY <3>1, <3>2
    <2>2. ASSUME NEW s \in 1..N, fate'[s] = "pending" PROVE owner'
        <3>1. Flying(s) /\ fate[s] = "pending"
            BY <1>4, <2>1, <2>2
        <3>2. owner /\ inflight # {}
            BY <3>1 DEF Flying, IsolateInv, PendingOK
        <3> QED BY <1>7, <3>2
    <2> QED BY <1>6, <2>1, <2>2 DEF PendingOK
<1>11. SubsOK'
    <2>1. ASSUME NEW s \in 1..N
          PROVE  offset[s] <= size[s] /\ (fate'[s] = "rejected" => offset[s] = 0)
        BY <1>2, <1>4 DEF IsolateInv, SubsOK
    <2>2. ASSUME NEW r \in 1..N, NEW s \in 1..N, r < s, offset[s] > 0
          PROVE  offset[r] = size[r] \/ fate'[r] = "rejected"
        BY <1>4, <2>2 DEF IsolateInv, SubsOK
    <2>3. ASSUME NEW s \in 1..N
          PROVE  offset[s] = size[s] \/ fate'[s] = "rejected"
        BY <1>2, <1>4, <1>6 DEF IsolateInv, SubsOK, Underway
    <2> QED BY <2>1, <2>2, <2>3 DEF SubsOK
<1>12. FlyingOK'
    BY <1>6 DEF IsolateInv, FlyingOK
<1>13. OwnedOK'
    BY OwnedSame DEF IsolateInv
<1> QED BY <1>8, <1>9, <1>10, <1>11, <1>12, <1>13 DEF IsolateInv

\* The end of a refused call, for a write and for a tryWrite.
LEMMA BackpressureKeeps ==
    ASSUME StateInv, BackpressureFlagged
    PROVE  StateInv'
<1> USE DEF StateInv
<1>1. /\ dart = "flag" /\ dart' = "idle" /\ flagged' = TRUE /\ ReleasedOwner
      /\ UNCHANGED <<size, admissions, waiting, offset, inflight, owned, closed, events,
                     queue, queued, taken, hand, reactor, stopping, inputClosed, tty, written>>
    BY DEF BackpressureFlagged
<1>2. stopping \in BOOLEAN
    BY DEF NativeTypes
<1>3. CASE waiting # <<>> /\ writableDue' = TRUE /\ UNCHANGED fate
    <2>1. ~Trying /\ ~Trying'
        BY <1>1, <1>3 DEF Trying
    <2>2. owner' \in BOOLEAN /\ ((\E s \in 1..Len(size) : fate[s] = "pending") /\ owner => owner')
        BY <1>1, <2>1, ReleaseKeeps
    <2>3. IsolateTypes' /\ IsolateInv'
        BY <1>1, <1>3, <2>1, <2>2, PlaceKeeps
    <2>4. NativeTypes' /\ QueueInv'
        BY <1>1, <1>2, <1>3, HandlerKeepsQueue
    <2> QED BY <2>3, <2>4
<1>4. CASE waiting = <<>> /\ Settle({Len(size)}, "rejected") /\ UNCHANGED writableDue
    <2>1. IsolateTypes' /\ IsolateInv'
        BY <1>1, <1>4, RejectKeeps
    <2>2. \A s \in 1..Len(size) : /\ fate[s] = "rejected" => fate'[s] = "rejected"
                                  /\ fate'[s] = "done" => fate[s] = "done"
        BY <1>4, SettleCompletesNothing
    <2>3. NativeTypes' /\ QueueInv'
        BY <1>1, <1>2, <2>2, HandlerKeepsQueue
    <2> QED BY <2>1, <2>3
<1> QED BY <1>3, <1>4 DEF BackpressureFlagged

\* handleWritable, handleClosed and close.
LEMMA HandlersKeep ==
    ASSUME StateInv, HandleWritable \/ HandleClosed \/ Close
    PROVE  StateInv'
<1> USE DEF StateInv
<1>1. /\ dart = "idle" /\ (events' = events \/ (events # <<>> /\ events' = Tail(events)))
      /\ UNCHANGED <<size, offset, written, queue, queued, hand, taken, reactor, flagged,
                     inputClosed, tty>>
      /\ ~Trying
    BY DEF HandleWritable, HandleClosed, Close, Receive, native, Trying
<1>2. /\ writableDue \in BOOLEAN /\ owner \in BOOLEAN /\ flagged \in BOOLEAN /\ stopping \in BOOLEAN
      /\ closed \in BOOLEAN
    BY DEF IsolateTypes, NativeTypes
<1>3. stopping' \in BOOLEAN
    BY <1>2 DEF HandleWritable, HandleClosed, Close, Receive, native
<1>4. CASE HandleWritable
    <2>1. /\ writableDue' = (closed /\ writableDue)
          /\ dart' = (IF closed THEN "idle" ELSE "pump")
          /\ UNCHANGED <<fate, admissions, waiting, inflight, owned, closed, owner>>
        BY <1>4 DEF HandleWritable
    <2>2. ~Trying' /\ writableDue' \in BOOLEAN
        BY <1>2, <2>1 DEF Trying
    <2>3. IsolateTypes' /\ IsolateInv'
        BY <1>1, <1>2, <2>1, <2>2, PlaceKeeps
    <2>4. NativeTypes' /\ QueueInv'
        BY <1>1, <1>2, <1>3, <2>1, HandlerKeepsQueue
    <2> QED BY <2>3, <2>4
<1>5. CASE HandleClosed \/ Close
    <2>1. FailsInput /\ UNCHANGED <<writableDue, dart>>
        BY <1>5 DEF HandleClosed, Close
    <2>2. CASE closed
        <3>1. UNCHANGED <<fate, admissions, waiting, inflight, owned, closed, owner>>
            BY <2>1, <2>2 DEF FailsInput
        <3>2. ~Trying'
            BY <1>1, <2>1 DEF Trying
        <3>3. IsolateTypes' /\ IsolateInv'
            BY <1>1, <1>2, <2>1, <3>1, <3>2, PlaceKeeps
        <3>4. NativeTypes' /\ QueueInv'
            BY <1>1, <1>2, <1>3, <3>1, HandlerKeepsQueue
        <3> QED BY <3>3, <3>4
    <2>3. CASE ~closed
        <3>1. CloseWithError({})
            BY <2>1, <2>3 DEF FailsInput
        <3>2. \A s : ~Underway(s)
            BY <1>1 DEF Underway
        <3>3. IsolateTypes' /\ IsolateInv'
            BY <1>1, <2>1, <3>1, <3>2, CloseKeeps
        <3>4. \A s \in 1..Len(size) : /\ fate[s] = "rejected" => fate'[s] = "rejected"
                                      /\ fate'[s] = "done" => fate[s] = "done"
            BY <3>1, SettleCompletesNothing DEF CloseWithError
        <3>5. NativeTypes' /\ QueueInv'
            BY <1>1, <1>2, <1>3, <3>4, HandlerKeepsQueue
        <3> QED BY <3>3, <3>5
    <2> QED BY <2>2, <2>3
<1> QED BY <1>4, <1>5

\* A completion is the last byte of its chunk: when it is also the last chunk of the
\* submission, the terminal has every byte of it.
LEMMA WriteCompleteKeeps ==
    ASSUME StateInv, ReportOK, HandleWriteComplete
    PROVE  StateInv'
<1> USE DEF StateInv
<1> DEFINE mine == {c \in inflight : Id(c) = Head(events).id}
<1>1. /\ dart = "idle" /\ events # <<>> /\ Head(events).kind = "complete" /\ events' = Tail(events)
      /\ UNCHANGED <<size, offset, native, tty, written>>
      /\ UNCHANGED <<writableDue, closed, owner>>
      /\ UNCHANGED <<queue, queued, hand, taken, reactor, flagged, stopping, inputClosed>>
      /\ ~Trying
    BY DEF HandleWriteComplete, Receive, native, Trying
<1>2. /\ writableDue \in BOOLEAN /\ owner \in BOOLEAN /\ flagged \in BOOLEAN /\ stopping \in BOOLEAN
      /\ closed \in BOOLEAN
    BY DEF IsolateTypes, NativeTypes
<1>3. Len(events) >= 1 /\ Head(events) = events[1] /\ 1 \in 1..Len(events)
    <2>1. events \in Seq(Event)
        BY DEF NativeTypes
    <2> HIDE DEF Event
    <2>2. Head(events) = events[1] /\ Len(events) >= 1 /\ Len(events) \in Nat
        BY <1>1, <2>1, TailIs, LenProperties
    <2> QED BY <2>2
<1>4. CASE mine = {} /\ UNCHANGED <<fate, admissions, waiting, inflight, owned, dart>>
    <2>1. ~Trying'
        BY <1>1, <1>4 DEF Trying
    <2>2. IsolateTypes' /\ IsolateInv'
        BY <1>1, <1>2, <1>4, <2>1, PlaceKeeps
    <2>3. NativeTypes' /\ QueueInv'
        BY <1>1, <1>2, <1>4, HandlerKeepsQueue
    <2> QED BY <2>2, <2>3
<1>5. ASSUME NEW c \in mine,
             /\ inflight' = inflight \ {c} /\ owned' = owned - Length(c)
             /\ dart' = "pump",
             IF Finished(c.sub, inflight') THEN Settle({c.sub}, "done") ELSE UNCHANGED fate,
             IF ~c.try /\ Finished(c.sub, inflight')
             THEN PumpAdmissions(admissions, <<>>, owned')
             ELSE UNCHANGED <<admissions, waiting>>
      PROVE  StateInv'
    <2>1. IsolateTypes' /\ IsolateInv'
        BY <1>1, <1>5, CompleteKeeps
    <2>2. c \in inflight /\ c.to <= written[c.sub] /\ c.sub \in 1..Len(size) /\ ~closed
        BY <1>1, <1>3 DEF ReportOK, IsolateInv, FlyingOK, HandlerOK
    <2>3. ASSUME Finished(c.sub, inflight') PROVE written[c.sub] = size[c.sub]
        <3>1. offset[c.sub] = size[c.sub] /\ \A d \in inflight' : d.sub # c.sub
            BY <2>3 DEF Finished
        <3>2. /\ written[c.sub] \in Nat /\ offset[c.sub] \in Nat /\ c.to \in Nat
              /\ written[c.sub] <= offset[c.sub]
            <4>1. written[c.sub] \in Nat /\ offset[c.sub] \in Nat
                BY <2>2, RecordsAre
            <4>2. c \in Chunk
                BY <2>2 DEF IsolateTypes
            <4>3. written[c.sub] <= offset[c.sub]
                BY <2>2 DEF QueueInv, WrittenOK
            <4> QED BY <4>1, <4>2, <4>3, ChunkIs
        <3> SUFFICES ASSUME written[c.sub] < offset[c.sub] PROVE FALSE
            BY <3>1, <3>2
        <3>3. written[c.sub] \in written[c.sub]..(offset[c.sub] - 1)
            BY <3>2
        <3>4. PICK d \in inflight : Covers(d, c.sub, written[c.sub])
            BY <2>2, <3>3 DEF ReportOK
        <3>5. d.sub = c.sub /\ written[c.sub] < d.to
            BY <3>4 DEF Covers
        <3>6. d # c
            BY <2>2, <3>2, <3>5
        <3> QED BY <1>5, <3>1, <3>5, <3>6
    <2>4. \A s \in 1..Len(size) : /\ fate[s] = "rejected" => fate'[s] = "rejected"
                                  /\ fate'[s] = "done" => fate[s] = "done" \/ written[s] = size[s]
        <3>1. CASE Finished(c.sub, inflight')
            <4>1. "done" \in Fates /\ Settle({c.sub}, "done")
                BY <1>5, <3>1 DEF Fates
            <4>2. \A s \in 1..Len(size) :
                      fate'[s] = IF s \in {c.sub} /\ fate[s] = "pending" THEN "done" ELSE fate[s]
                BY <4>1, SettleIs
            <4> QED BY <2>3, <3>1, <4>2
        <3>2. CASE ~Finished(c.sub, inflight')
            BY <1>5, <3>2
        <3> QED BY <3>1, <3>2
    <2>5. NativeTypes' /\ QueueInv'
        BY <1>1, <1>2, <2>4, HandlerKeepsQueue
    <2> QED BY <2>1, <2>5
<1> QED BY <1>4, <1>5 DEF HandleWriteComplete

\* The reactor and the program change nothing of the isolate.
LEMMA NativeStepsKeep ==
    ASSUME StateInv, Reactor \/ Failure \/ ProgramReads
    PROVE  StateInv' /\ UNCHANGED <<isolate, stopping>>
<1> USE DEF StateInv
<1>1. UNCHANGED <<isolate, stopping>>
    BY
       DEF Reactor, Failure, Flush, Dequeue, WriteBytes, WriteBlocks, WriteFails, HangsUp, InputFails,
           Discard, PostComplete, CompleteChunk, MaybePostWritable, PostWritable, ReactorEnds,
           ProgramReads, DartUnchanged, native
<1>2. IsolateInv'
    <2>1. ListOK' /\ HandlerOK' /\ PendingOK'
        BY <1>1
           DEF IsolateInv, ListOK, HandlerOK, PendingOK, Listed, In, Flying, Underway, Trying,
                    Sorted, isolate
    <2>2. SubsOK' /\ FlyingOK' /\ OwnedOK'
        BY <1>1
           DEF IsolateInv, SubsOK, FlyingOK, OwnedOK, InFlight, Listed, In, Underway, Trying,
                    isolate
    <2> QED BY <2>1, <2>2 DEF IsolateInv
<1>3. CASE WriteBytes
    BY <1>1, <1>2, <1>3, WriteBytesKeeps
<1>4. ASSUME UNCHANGED written PROVE IsolateTypes'
    BY <1>1, <1>4 DEF IsolateTypes, isolate
<1>5. CASE Dequeue
    BY <1>1, <1>2, <1>4, <1>5, DequeueKeeps DEF Dequeue
<1>6. CASE WriteBlocks
    BY <1>1, <1>2, <1>4, <1>6, WriteBlocksKeeps DEF WriteBlocks
<1>7. CASE WriteFails \/ CompleteChunk
    BY <1>1, <1>2, <1>4, <1>7, FreedChunkKeeps DEF WriteFails, CompleteChunk
<1>8. CASE Discard
    BY <1>1, <1>2, <1>4, <1>8, DiscardKeeps DEF Discard
<1>9. CASE Moves
    <2>1. UNCHANGED written
        BY <1>9
           DEF Moves, Flush, HangsUp, InputFails, PostComplete, MaybePostWritable, PostWritable,
                    ReactorEnds, ProgramReads
    <2> QED BY <1>1, <1>2, <1>4, <1>9, <2>1, MovesKeep
<1> QED BY <1>3, <1>5, <1>6, <1>7, <1>8, <1>9 DEF Reactor, Failure, Moves

-----------------------------------------------------------------------------
\* What the events report.

\* A chunk the reactor or the queue already held, whatever of it is written by now.
Held(c) == \/ \E j \in 1..Len(hand) : Id(c) = Id(hand[j]) /\ c.to = hand[j].to
           \/ \E j \in 1..Len(queue) : Id(c) = Id(queue[j]) /\ c.to = queue[j].to

\* A completion that may be posted: every chunk in flight it can mean is written.
Reports(id) == /\ \E s \in 1..Len(size) : \E f \in 0..(offset[s] - 1) : id = <<s, f>>
               /\ \A c \in inflight : id = Id(c) => c.to <= written[c.sub]

\* While no chunk is added and no byte is taken back, the reports stay true.
LEMMA ReportGoesOn ==
    ASSUME IsolateTypes, IsolateTypes', IsolateInv, ReportOK, UNCHANGED <<size, offset>>,
           closed => closed',
           closed' \/ \A c \in inflight : c \in inflight' \/ c.to <= written[c.sub],
           inflight' \subseteq inflight,
           \A s \in 1..Len(size) : written[s] <= written'[s],
           \A i \in 1..Len(hand') : Held(hand'[i]),
           \A i \in 1..Len(queue') : Held(queue'[i]),
           \A i \in 1..Len(events') : events'[i].kind = "complete" =>
              (\E j \in 1..Len(events) : events'[i] = events[j]) \/ Reports(events'[i].id)
    PROVE  ReportOK'
<1>0. \A s \in 1..Len(size) : written[s] \in Nat /\ written'[s] \in Nat /\ offset[s] \in Nat
    <2>1. \A s \in 1..Len(size) : written[s] \in Nat /\ offset[s] \in Nat
        BY RecordsAre
    <2>2. written' \in Seq(Nat) /\ Len(written') = Len(size)
        BY DEF IsolateTypes
    <2>3. \A s \in 1..Len(size) : written'[s] \in Nat
        BY <2>2
    <2> QED BY <2>1, <2>3
<1>1. ASSUME NEW i \in 1..Len(events'), events'[i].kind = "complete"
      PROVE  Reports(events'[i].id)
    <2>1. CASE \E j \in 1..Len(events) : events'[i] = events[j]
        BY <1>1, <2>1 DEF ReportOK, Reports
    <2> QED BY <1>1, <2>1
<1>2. ASSUME ~closed', NEW s \in 1..Len(size), NEW p \in written'[s]..(offset[s] - 1)
      PROVE  \E c \in inflight' : Covers(c, s, p)
    <2>1. p \in written[s]..(offset[s] - 1) /\ p \in Int
        BY <1>0
    <2>2. PICK c \in inflight : Covers(c, s, p)
        BY <1>2, <2>1 DEF ReportOK
    <2>3. c.sub = s /\ p < c.to /\ c.to \in Nat
        BY <2>2 DEF Covers, IsolateTypes, Chunk
    <2>4. ~(c.to <= written[s])
        <3>1. written[s] <= p
            BY <1>0, <2>1
        <3> QED BY <1>0, <2>1, <2>3, <3>1
    <2> QED BY <1>2, <2>2, <2>3, <2>4
<1>3. ASSUME NEW c \in inflight'
      PROVE  /\ \A i \in 1..Len(hand') : Id(c) = Id(hand'[i]) => c.to = hand'[i].to
             /\ \A i \in 1..Len(queue') : Id(c) = Id(queue'[i]) => c.to = queue'[i].to
             /\ \A i \in 1..Len(events') :
                   events'[i].kind = "complete" /\ events'[i].id = Id(c) => c.to <= written'[c.sub]
    <2>1. c \in inflight
        OBVIOUS
    <2>2. ASSUME NEW d, Held(d), Id(c) = Id(d) PROVE c.to = d.to
        BY <2>1, <2>2 DEF Held, ReportOK
    <2>3. ASSUME NEW i \in 1..Len(events'), events'[i].kind = "complete", events'[i].id = Id(c)
          PROVE  c.to <= written'[c.sub]
        <3>1. c.to <= written[c.sub] /\ c.to \in Nat
            BY <1>1, <2>1, <2>3 DEF Reports, IsolateTypes, Chunk
        <3>2. c.sub \in 1..Len(size)
            BY <2>1 DEF IsolateInv, FlyingOK
        <3>3. written[c.sub] <= written'[c.sub] /\ written[c.sub] \in Nat /\ written'[c.sub] \in Nat
            BY <1>0, <3>2
        <3> QED BY <3>1, <3>3
    <2> QED BY <2>2, <2>3
<1>4. ASSUME NEW i \in 1..Len(events'), events'[i].kind = "complete"
      PROVE  \E s \in 1..Len(size) : \E f \in 0..(offset[s] - 1) : events'[i].id = <<s, f>>
    BY <1>1, <1>4 DEF Reports
<1> QED BY <1>2, <1>3, <1>4 DEF ReportOK

\* A new submission is reported by nothing.
LEMMA SubmitReports ==
    ASSUME IsolateTypes, IsolateInv, ReportOK, NEW n \in Nat \ {0}, NEW f \in {"pending", "rejected"},
           Submit(n, f), UNCHANGED <<inflight, closed, events, hand, queue>>
    PROVE  ReportOK'
<1> DEFINE N == Len(size) + 1
<1>1. /\ Len(size) \in Nat /\ Len(size') = N /\ offset'[N] = 0 /\ written'[N] = 0
      /\ \A s \in 1..Len(size) : offset'[s] = offset[s] /\ written'[s] = written[s]
    <2>1. f \in Fates
        BY DEF Fates
    <2> QED BY <2>1, SubmitIs
<1>2. \A s \in 1..N : s \in 1..Len(size) \/ s = N
    BY <1>1
<1>3. \A s \in 1..Len(size) : s \in 1..N
    BY <1>1
<1>4. ASSUME ~closed', NEW s \in 1..N, NEW p \in written'[s]..(offset'[s] - 1)
      PROVE  \E c \in inflight : Covers(c, s, p)
    <2>1. s # N
        BY <1>1
    <2> QED BY <1>1, <1>2, <1>4, <2>1 DEF ReportOK
<1>5. ASSUME NEW c \in inflight PROVE written'[c.sub] = written[c.sub]
    BY <1>1 DEF IsolateInv, FlyingOK
<1>6. ASSUME NEW i \in 1..Len(events), events[i].kind = "complete"
      PROVE  \E s \in 1..N : \E g \in 0..(offset'[s] - 1) : events[i].id = <<s, g>>
    <2>1. PICK s \in 1..Len(size) : \E g \in 0..(offset[s] - 1) : events[i].id = <<s, g>>
        BY <1>6 DEF ReportOK
    <2> QED BY <1>1, <1>3, <2>1
<1> QED BY <1>1, <1>4, <1>5, <1>6 DEF ReportOK

\* A chunk handed over has an identity that nothing in the native session has: it
\* begins where all the earlier ones of its submission end.
LEMMA AcceptReports ==
    ASSUME StateInv, ReportOK, NEW c, MayHand(c), Accepted(c),
           UNCHANGED <<size, written, events, hand>>
    PROVE  ReportOK'
<1> USE DEF StateInv
<1>0. PICK s, L : s = c.sub /\ L = Len(queue)
    OBVIOUS
<1>1. /\ c \in Chunk /\ c.off = 0 /\ s \in 1..Len(size) /\ ~closed
      /\ c.from = offset[s] /\ c.from < c.to /\ c.from \in Nat /\ c.to \in Nat
    BY <1>0 DEF MayHand, Chunk
<1>2. /\ queue' = Append(queue, c) /\ inflight' = inflight \union {c}
      /\ offset' = [offset EXCEPT ![s] = c.to] /\ closed' = closed
    BY <1>0 DEF Accepted
<1>3. /\ queue \in Seq(Chunk) /\ L \in Nat /\ Len(queue') = L + 1 /\ queue'[L + 1] = c
      /\ \A i \in 1..L : queue'[i] = queue[i]
    <2>1. queue \in Seq(Chunk) /\ L \in Nat
        BY <1>0, LenProperties DEF NativeTypes
    <2> QED BY <1>0, <1>1, <1>2, <2>1, AppendProperties
<1>4. \A i \in 1..(L + 1) : i \in 1..L \/ i = L + 1
    BY <1>3
<1>5. \A r \in 1..Len(size) : /\ offset'[r] = IF r = s THEN c.to ELSE offset[r]
                              /\ offset[r] \in Nat /\ written[r] \in Nat
    <2>1. \A r \in 1..Len(size) : offset[r] \in Nat /\ written[r] \in Nat
        BY DEF IsolateTypes
    <2>2. offset \in Seq(Nat) /\ Len(offset) = Len(size)
        BY DEF IsolateTypes
    <2> QED BY <1>1, <1>2, <2>1, <2>2, ExceptSeq
<1>6. ASSUME NEW d, d.from \in Nat, d.to \in Nat, d.from < d.to, d.to <= offset[d.sub]
      PROVE  Id(d) # Id(c)
    <2> SUFFICES ASSUME Id(d) = Id(c) PROVE FALSE
        OBVIOUS
    <2>1. d.sub = s /\ d.from = c.from
        BY <1>0 DEF Id
    <2> QED BY <1>1, <1>5, <1>6, <2>1
<1>7. \A d \in inflight : Id(d) # Id(c)
    <2> TAKE d \in inflight
    <2>1. d.from < d.to /\ d.to <= offset[d.sub] /\ d.from \in Nat /\ d.to \in Nat
        BY DEF IsolateInv, FlyingOK, IsolateTypes, Chunk
    <2> QED BY <1>6, <2>1
<1>8. \A i \in 1..Len(hand) : Id(hand[i]) # Id(c)
    <2> TAKE i \in 1..Len(hand)
    <2>1. hand[i].from < hand[i].to /\ hand[i].to <= offset[hand[i].sub]
        BY DEF QueueInv, HandOK
    <2>2. hand[i] \in Chunk
        BY ElementOfSeq DEF NativeTypes
    <2>3. hand[i].from \in Nat /\ hand[i].to \in Nat
        BY <2>2 DEF Chunk
    <2> QED BY <1>6, <2>1, <2>3
<1>9. \A i \in 1..L : Id(queue[i]) # Id(c)
    <2> TAKE i \in 1..L
    <2>1. queue[i].from + queue[i].off < queue[i].to /\ queue[i].to <= offset[queue[i].sub]
        BY <1>0 DEF QueueInv, LineOK
    <2>2. queue[i] \in Chunk
        BY <1>0, <1>3, ElementOfSeq
    <2>3. queue[i].from \in Nat /\ queue[i].to \in Nat /\ queue[i].off \in Nat
        BY <2>2 DEF Chunk
    <2>4. queue[i].from < queue[i].to
        BY <2>1, <2>3
    <2> QED BY <1>6, <2>1, <2>3, <2>4
<1>10. \A i \in 1..Len(events) : events[i].kind = "complete" => events[i].id # Id(c)
    <2> SUFFICES ASSUME NEW i \in 1..Len(events), events[i].kind = "complete", events[i].id = Id(c)
                 PROVE  FALSE
        OBVIOUS
    <2>1. PICK r \in 1..Len(size) : \E f \in 0..(offset[r] - 1) : events[i].id = <<r, f>>
        BY DEF ReportOK
    <2>2. PICK f \in 0..(offset[r] - 1) : events[i].id = <<r, f>>
        BY <2>1
    <2>3. r = s /\ f = offset[s]
        BY <1>0, <1>1, <2>2 DEF Id
    <2> QED BY <1>1, <1>5, <2>2, <2>3
<1>11. ASSUME NEW r \in 1..Len(size), NEW p \in written[r]..(offset'[r] - 1)
       PROVE  \E d \in inflight' : Covers(d, r, p)
    <2>1. CASE p < offset[r]
        <3>1. p \in written[r]..(offset[r] - 1)
            BY <1>5, <2>1
        <3>2. PICK d \in inflight : Covers(d, r, p)
            BY <1>1, <3>1 DEF ReportOK
        <3> QED BY <1>2, <3>2
    <2>2. CASE ~(p < offset[r])
        <3>1. r = s /\ p < c.to /\ c.from <= p
            BY <1>1, <1>5, <2>2
        <3>2. Covers(c, r, p)
            BY <1>0, <1>1, <3>1 DEF Covers
        <3> QED BY <1>2, <3>2
    <2> QED BY <2>1, <2>2
<1>12. ASSUME NEW d \in inflight'
       PROVE  /\ \A i \in 1..Len(hand) : Id(d) = Id(hand[i]) => d.to = hand[i].to
              /\ \A i \in 1..(L + 1) : Id(d) = Id(queue'[i]) => d.to = queue'[i].to
              /\ \A i \in 1..Len(events) :
                    events[i].kind = "complete" /\ events[i].id = Id(d) => d.to <= written[d.sub]
    <2>1. CASE d = c
        BY <1>3, <1>4, <1>8, <1>9, <1>10, <2>1
    <2>2. CASE d \in inflight
        BY <1>0, <1>3, <1>4, <1>7, <2>2 DEF ReportOK
    <2> QED BY <1>2, <2>1, <2>2
<1>13. ASSUME NEW i \in 1..Len(events), events[i].kind = "complete"
       PROVE  \E r \in 1..Len(size) : \E f \in 0..(offset'[r] - 1) : events[i].id = <<r, f>>
    <2>1. PICK r \in 1..Len(size) : \E f \in 0..(offset[r] - 1) : events[i].id = <<r, f>>
        BY <1>13 DEF ReportOK
    <2>2. PICK f \in 0..(offset[r] - 1) : events[i].id = <<r, f>>
        BY <2>1
    <2>3. f \in 0..(offset'[r] - 1)
        BY <1>1, <1>5, <2>2
    <2> QED BY <2>2, <2>3
<1> QED BY <1>3, <1>11, <1>12, <1>13 DEF ReportOK

\* The event taken off the front leaves the others.
LEMMA TailEvents ==
    ASSUME NativeTypes, events # <<>>, events' = Tail(events)
    PROVE  /\ \A i \in 1..Len(events') : \E j \in 1..Len(events) : events'[i] = events[j]
           /\ \A j \in 1..Len(events) : j = 1 \/ \E i \in 1..Len(events') : events'[i] = events[j]
           /\ Head(events) = events[1] /\ 1 \in 1..Len(events)
<1>1. events \in Seq(Event)
    BY DEF NativeTypes
<1> HIDE DEF Event
<1>2. /\ Len(events) \in Nat /\ Len(events) >= 1 /\ Len(events') = Len(events) - 1
      /\ Head(events) = events[1]
      /\ \A i \in 1..(Len(events) - 1) : events'[i] = events[i + 1]
    BY <1>1, TailIs, LenProperties
<1>3. ASSUME NEW i \in 1..Len(events') PROVE \E j \in 1..Len(events) : events'[i] = events[j]
    <2>1. i + 1 \in 1..Len(events) /\ events'[i] = events[i + 1]
        BY <1>2
    <2> QED BY <2>1
<1>4. ASSUME NEW j \in 1..Len(events), j # 1
      PROVE  \E i \in 1..Len(events') : events'[i] = events[j]
    <2>1. j - 1 \in 1..(Len(events) - 1) /\ (j - 1) + 1 = j
        BY <1>2, <1>4
    <2> QED BY <1>2, <2>1
<1> QED BY <1>2, <1>3, <1>4

\* A posted event is the last one.
LEMMA PostEvents ==
    ASSUME NativeTypes, NEW k \in Kinds, NEW id \in Ids, Post(k, id)
    PROVE  /\ \A i \in 1..Len(events') : \/ \E j \in 1..Len(events) : events'[i] = events[j]
                                         \/ events'[i].kind = k /\ events'[i].id = id
           /\ \A j \in 1..Len(events) : \E i \in 1..Len(events') : events'[i] = events[j]
           /\ \E i \in 1..Len(events') : events'[i].kind = k
<1>1. PICK e : e = [kind |-> k, id |-> id]
    OBVIOUS
<1>2. e.kind = k /\ e.id = id
    BY <1>1
<1>3. events \in Seq(Event) /\ events' = Append(events, e)
    BY <1>1 DEF Post, NativeTypes
<1>4. /\ Len(events) \in Nat /\ Len(events') = Len(events) + 1
      /\ \A i \in 1..Len(events) : events'[i] = events[i]
      /\ events'[Len(events) + 1] = e
    <2>1. e \in Event
        BY <1>1 DEF Event
    <2> HIDE DEF Event
    <2> QED BY <1>3, <2>1, AppendProperties, LenProperties
<1>5. /\ \A i \in 1..(Len(events) + 1) : i \in 1..Len(events) \/ i = Len(events) + 1
      /\ \A i \in 1..Len(events) : i \in 1..(Len(events) + 1)
      /\ Len(events) + 1 \in 1..(Len(events) + 1)
    BY <1>4
<1> QED BY <1>2, <1>4, <1>5

\* Every action keeps the reports true.
LEMMA ReportKeeps ==
    ASSUME StateInv, ReportOK, StateInv', Next
    PROVE  ReportOK'
<1> USE DEF StateInv
<1>0. \A s \in 1..Len(size) : written[s] \in Nat /\ written[s] <= written[s]
    <2>1. written \in Seq(Nat) /\ Len(written) = Len(size)
        BY DEF IsolateTypes
    <2> QED BY <2>1
<1>1. CASE \E n \in WriteSizes : Write(n)
    <2>1. PICK n \in WriteSizes : Write(n)
        BY <1>1
    <2>2. /\ n \in Nat \ {0} /\ Submit(n, "pending")
          /\ UNCHANGED <<inflight, closed, events, hand, queue>>
        BY <2>1, InputFlowAssumption DEF Write, native
    <2> QED BY <2>2, SubmitReports
<1>2. CASE \E n \in TrySizes : TryWrite(n)
    <2>1. PICK n \in TrySizes : TryWrite(n)
        BY <1>2
    <2>2. /\ n \in Nat \ {0} /\ (Submit(n, "pending") \/ Submit(n, "rejected"))
          /\ UNCHANGED <<inflight, closed, events, hand, queue>>
        BY <2>1, InputFlowAssumption DEF TryWrite, native
    <2> QED BY <2>2, SubmitReports
<1>3. ASSUME NEW i \in 1..Len(hand) PROVE Held(hand[i])
    BY DEF Held
<1>4. ASSUME NEW i \in 1..Len(queue) PROVE Held(queue[i])
    BY DEF Held
<1>5. ASSUME UNCHANGED <<size, offset, written, hand, queue>>,
             \A i \in 1..Len(events') : \E j \in 1..Len(events) : events'[i] = events[j],
             closed => closed', inflight' \subseteq inflight, closed' \/ inflight' = inflight
      PROVE  ReportOK'
    BY <1>0, <1>3, <1>4, <1>5, ReportGoesOn
<1>6. CASE PumpStops
    BY <1>5, <1>6 DEF PumpStops, native
<1>7. CASE PumpCalls \/ TryCalls
    <2>1. PICK c : MayHand(c) /\ CallsNative(c)
        BY <1>7, CallsKeep
    <2>2. UNCHANGED <<size, events, hand, written>>
        BY <2>1 DEF CallsNative
    <2>3. CASE Accepted(c)
        BY <2>1, <2>2, <2>3, AcceptReports
    <2>4. CASE Refused(c)
        BY <1>5, <2>2, <2>4 DEF Refused
    <2>5. CASE Failed(c)
        <3>1. closed' = TRUE /\ inflight' = {} /\ UNCHANGED <<offset, queue>>
            BY <2>5 DEF Failed, CloseWithError
        <3> QED BY <1>5, <2>2, <3>1
    <2> QED BY <2>1, <2>3, <2>4, <2>5 DEF CallsNative
<1>8. CASE BackpressureFlagged
    BY <1>5, <1>8 DEF BackpressureFlagged
<1>9. CASE HandleWritable \/ HandleClosed \/ Close
    <2>1. /\ UNCHANGED <<size, offset, written, hand, queue>>
          /\ (events' = events \/ (events # <<>> /\ events' = Tail(events)))
        BY <1>9 DEF HandleWritable, HandleClosed, Close, Receive, native
    <2>2. \A i \in 1..Len(events') : \E j \in 1..Len(events) : events'[i] = events[j]
        BY <2>1, TailEvents
    <2>3. (closed => closed') /\ inflight' \subseteq inflight /\ (closed' \/ inflight' = inflight)
        BY <1>9 DEF HandleWritable, HandleClosed, Close, FailsInput, CloseWithError
    <2> QED BY <1>5, <2>1, <2>2, <2>3
<1>10. CASE HandleWriteComplete
    <2>1. /\ UNCHANGED <<size, offset, written, hand, queue, closed>>
          /\ events # <<>> /\ events' = Tail(events) /\ Head(events).kind = "complete"
        BY <1>10 DEF HandleWriteComplete, Receive, native
    <2>2. /\ \A i \in 1..Len(events') : \E j \in 1..Len(events) : events'[i] = events[j]
          /\ Head(events) = events[1] /\ 1 \in 1..Len(events)
        BY <2>1, TailEvents
    <2>3. /\ inflight' \subseteq inflight
          /\ \A c \in inflight : c \in inflight' \/ Id(c) = Head(events).id
        BY <1>10 DEF HandleWriteComplete
    <2>4. \A c \in inflight : c \in inflight' \/ c.to <= written[c.sub]
        BY <2>1, <2>2, <2>3 DEF ReportOK
    <2> QED BY <1>0, <1>3, <1>4, <2>1, <2>2, <2>3, <2>4, ReportGoesOn
<1>11. CASE Reactor \/ Failure \/ ProgramReads
    <2>1. UNCHANGED <<size, offset, closed, inflight>>
        BY <1>11, NativeStepsKeep DEF isolate
    <2>2. CASE WriteBytes
        <3>1. /\ \A s \in 1..Len(size) : written[s] <= written'[s]
              /\ Len(hand') = 1 /\ Len(hand) = 1
              /\ hand'[1].sub = hand[1].sub /\ hand'[1].from = hand[1].from
              /\ hand'[1].to = hand[1].to
            BY <2>2, WriteBytesKeeps
        <3>2. UNCHANGED <<events, queue>>
            BY <2>2 DEF WriteBytes
        <3>3. ASSUME NEW i \in 1..Len(hand') PROVE Held(hand'[i])
            <4>1. i = 1 /\ 1 \in 1..Len(hand)
                BY <3>1
            <4> QED BY <3>1, <4>1 DEF Held, Id
        <3> QED BY <1>4, <2>1, <3>1, <3>2, <3>3, ReportGoesOn
    <2>3. CASE Dequeue
        <3>1. UNCHANGED <<events, written>>
            BY <2>3 DEF Dequeue
        <3>2. CASE queue = <<>> /\ UNCHANGED <<queue, hand>>
            BY <1>5, <2>1, <3>1, <3>2
        <3>3. CASE /\ queue # <<>> /\ hand' = <<[Head(queue) EXCEPT !.acc = Remaining(Head(queue))]>>
                   /\ queue' = Tail(queue)
            <4>1. /\ Len(queue) \in Nat /\ Len(queue') = Len(queue) - 1 /\ Head(queue) = queue[1]
                  /\ \A i \in 1..(Len(queue) - 1) : queue'[i] = queue[i + 1] /\ i + 1 \in 1..Len(queue)
                  /\ 1 \in 1..Len(queue) /\ queue[1] \in Chunk
                BY <3>3, TailKeeps
            <4>2. \A i \in 1..Len(queue') : Held(queue'[i])
                BY <1>4, <4>1
            <4>3. \A i \in 1..Len(hand') : Held(hand'[i])
                <5>1. PICK g : g = [queue[1] EXCEPT !.acc = Remaining(queue[1])]
                    OBVIOUS
                <5>2. g.sub = queue[1].sub /\ g.from = queue[1].from /\ g.to = queue[1].to
                    BY <4>1, <5>1 DEF Chunk
                <5>3. Held(g)
                    BY <4>1, <5>2 DEF Held, Id
                <5>4. hand' = <<g>>
                    BY <3>3, <4>1, <5>1
                <5> QED BY <5>3, <5>4
            <4> QED BY <1>0, <2>1, <3>1, <4>2, <4>3, ReportGoesOn
        <3> QED BY <2>3, <3>2, <3>3 DEF Dequeue
    <2>4. CASE WriteBlocks
        <3>1. UNCHANGED <<events, written>> /\ reactor = "write"
            BY <2>4 DEF WriteBlocks, Steps
        <3>2. /\ hand' = <<>>
              /\ \A i \in 1..Len(queue') : \/ Id(queue'[i]) = Id(hand[1]) /\ queue'[i].to = hand[1].to
                                           \/ \E j \in 1..Len(queue) : queue'[i] = queue[j]
            BY <2>4, WriteBlocksKeeps
        <3>3. 1 \in 1..Len(hand)
            BY <3>1, HandIs
        <3>4. \A i \in 1..Len(queue') : Held(queue'[i])
            BY <3>2, <3>3 DEF Held
        <3>5. Len(hand') = 0
            BY <3>2
        <3> QED BY <1>0, <2>1, <3>1, <3>4, <3>5, ReportGoesOn
    <2>5. CASE WriteFails \/ CompleteChunk
        <3>1. UNCHANGED <<events, queue, written>> /\ hand' = <<>>
            BY <2>5 DEF WriteFails, CompleteChunk
        <3>2. Len(hand') = 0
            BY <3>1
        <3> QED BY <1>0, <1>4, <2>1, <3>1, <3>2, ReportGoesOn
    <2>6. CASE Discard
        <3>1. UNCHANGED <<events, hand, written>> /\ queue' = <<>>
            BY <2>6 DEF Discard
        <3>2. Len(queue') = 0
            BY <3>1
        <3> QED BY <1>0, <1>3, <2>1, <3>1, <3>2, ReportGoesOn
    <2>7. CASE Moves
        <3>1. UNCHANGED <<queue, hand, written>>
            BY <2>7
               DEF Moves, Flush, HangsUp, InputFails, PostComplete, MaybePostWritable, PostWritable,
                        ReactorEnds, ProgramReads, native
        <3>2. \/ events' = events
              \/ \E k \in {"closed", "writable"} : Post(k, <<>>)
              \/ Post("complete", Id(hand[1])) /\ reactor = "post"
            BY <2>7
               DEF Moves, Flush, HangsUp, InputFails, PostComplete, MaybePostWritable, PostWritable,
                        ReactorEnds, ProgramReads, MarkInputClosed, Steps
        <3>3. Reports(Id(hand[1])) \/ reactor # "post"
            <4> SUFFICES ASSUME reactor = "post" PROVE Reports(Id(hand[1]))
                OBVIOUS
            <4>1. /\ 1 \in 1..Len(hand) /\ hand[1].sub \in 1..Len(size) /\ hand[1].from < hand[1].to
                  /\ hand[1].to <= offset[hand[1].sub]
                  /\ written[hand[1].sub] = hand[1].from + hand[1].off
                  /\ reactor = "write" <=> Remaining(hand[1]) > 0
                  /\ hand[1].from \in Nat /\ hand[1].to \in Nat /\ hand[1].off \in Nat
                  /\ Remaining(hand[1]) = hand[1].to - hand[1].from - hand[1].off
                  /\ Remaining(hand[1]) \in Nat
                BY HandIs
            <4>2. written[hand[1].sub] = hand[1].to
                <5>1. Remaining(hand[1]) = 0
                    BY <4>1
                <5> QED BY <4>1, <5>1
            <4>3. hand[1].from \in 0..(offset[hand[1].sub] - 1)
                <5>1. offset \in Seq(Nat) /\ Len(offset) = Len(size)
                    BY DEF IsolateTypes
                <5>2. offset[hand[1].sub] \in Nat
                    BY <4>1, <5>1
                <5> QED BY <4>1, <5>2
            <4>4. ASSUME NEW c \in inflight, Id(hand[1]) = Id(c) PROVE c.to <= written[c.sub]
                <5>1. c.to = hand[1].to
                    BY <4>1, <4>4 DEF ReportOK
                <5>2. c.sub = hand[1].sub
                    BY <4>4 DEF Id
                <5> QED BY <4>1, <4>2, <5>1, <5>2
            <4>5. Id(hand[1]) = <<hand[1].sub, hand[1].from>>
                BY DEF Id
            <4> QED BY <4>1, <4>3, <4>4, <4>5 DEF Reports
        <3>4. ASSUME NEW i \in 1..Len(events'), events'[i].kind = "complete"
              PROVE  (\E j \in 1..Len(events) : events'[i] = events[j]) \/ Reports(events'[i].id)
            <4>1. CASE events' = events
                BY <4>1
            <4>2. ASSUME NEW k \in {"closed", "writable"}, Post(k, <<>>)
                  PROVE  \E j \in 1..Len(events) : events'[i] = events[j]
                <5>1. k \in Kinds /\ <<>> \in Ids /\ k # "complete"
                    BY DEF Kinds, Ids
                <5> HIDE DEF Kinds, Ids
                <5> QED BY <3>4, <4>2, <5>1, PostEvents
            <4>3. CASE Post("complete", Id(hand[1])) /\ reactor = "post"
                <5>1. "complete" \in Kinds /\ Id(hand[1]) \in Ids
                    <6>1. hand[1].sub \in Nat /\ hand[1].from \in Nat
                        BY <4>3, HandIs
                    <6> QED BY <6>1 DEF Kinds, Ids, Id
                <5>2. \/ \E j \in 1..Len(events) : events'[i] = events[j]
                      \/ events'[i].id = Id(hand[1])
                    BY <4>3, <5>1, PostEvents
                <5> QED BY <3>3, <4>3, <5>2
            <4> QED BY <3>2, <4>1, <4>2, <4>3
        <3> QED BY <1>0, <1>3, <1>4, <2>1, <3>1, <3>4, ReportGoesOn
    <2> QED BY <1>11, <2>2, <2>3, <2>4, <2>5, <2>6, <2>7 DEF Reactor, Failure, Moves
<1> QED BY <1>1, <1>2, <1>6, <1>7, <1>8, <1>9, <1>10, <1>11 DEF Next, User, Isolate, Pump

-----------------------------------------------------------------------------
\* Backpressure and its end.

HasEvent(k, es) == \E i \in 1..Len(es) : es[i].kind = k

\* Steps of the isolate that leave the session's flag and the reactor alone.
LEMMA FlagGoesOn ==
    ASSUME FlagOK, queued \in Nat, taken \in Nat, queued' \in Nat,
           UNCHANGED <<reactor, flagged, inputClosed, taken>>, queued <= queued',
           stopping => stopping', closed' => closed \/ stopping' \/ inputClosed,
           HasEvent("closed", events') => HasEvent("closed", events),
           writableDue' => writableDue,
           writableDue' /\ HasEvent("writable", events) => closed \/ HasEvent("writable", events'),
           dart' = "flag" => dart = "flag"
    PROVE  FlagOK'
<1>1. queued + taken > 0 => queued' + taken' > 0
    <2>1. \A k, m, n \in Nat : k <= m /\ k + n > 0 => m + n > 0
        OBVIOUS
    <2>2. queued' + taken > 0 => queued' + taken' > 0
        OBVIOUS
    <2> QED BY <2>1, <2>2
<1>2. closed' => stopping' \/ inputClosed'
    BY DEF FlagOK
<1>3. (\E i \in 1..Len(events') : events'[i].kind = "closed") => inputClosed'
    BY DEF FlagOK, HasEvent
<1>4. dart' = "flag" => queued' + taken' > 0 \/ reactor' \in {"notify", "fail"} \/ inputClosed'
    BY <1>1 DEF FlagOK
<1>5. BackpressureRemembered'
    <2> SUFFICES ASSUME ~stopping', ~inputClosed', reactor' # "fail"
                 PROVE  BackpressureRemembered'
        BY DEF BackpressureRemembered
    <2>1. ~stopping /\ ~inputClosed /\ reactor # "fail" /\ ~closed
        BY DEF FlagOK
    <2>2. writableDue => \/ flagged \/ reactor \in {"announce", "announceLast"}
                         \/ HasEvent("writable", events)
        BY <2>1 DEF FlagOK, BackpressureRemembered, HasEvent
    <2>3. flagged => queued + taken > 0 \/ reactor = "notify"
        BY <2>1 DEF FlagOK, BackpressureRemembered
    <2>4. writableDue' => \/ flagged' \/ reactor' \in {"announce", "announceLast"}
                          \/ \E i \in 1..Len(events') : events'[i].kind = "writable"
        BY <2>1, <2>2 DEF HasEvent
    <2>5. flagged' => queued' + taken' > 0 \/ reactor' = "notify"
        BY <1>1, <2>3
    <2> QED BY <2>4, <2>5 DEF BackpressureRemembered
<1> QED BY <1>2, <1>3, <1>4, <1>5 DEF FlagOK

\* The steps of the isolate: the flag is set while the lock that the refused call took
\* keeps the queue from draining unnoticed.
LEMMA IsolateKeepsFlag ==
    ASSUME StateInv, FlagOK, StateInv', User \/ Isolate \/ Pump
    PROVE  FlagOK'
<1> USE DEF StateInv
<1>0. queued \in Nat /\ taken \in Nat /\ queued' \in Nat /\ queued <= queued
    <2>1. queued \in Nat /\ taken \in Nat
        BY DEF NativeTypes
    <2>2. queued' \in Nat
        BY DEF NativeTypes
    <2> QED BY <2>1, <2>2
<1>1. CASE (\E n \in WriteSizes : Write(n)) \/ (\E n \in TrySizes : TryWrite(n))
    <2>1. UNCHANGED <<writableDue, closed, events, native>> /\ dart' # "flag"
        BY <1>1 DEF Write, TryWrite
    <2>2. UNCHANGED <<reactor, flagged, inputClosed, taken, queued, stopping>>
        BY <2>1 DEF native
    <2> QED BY <1>0, <2>1, <2>2, FlagGoesOn
<1>2. CASE PumpStops
    <2>1. UNCHANGED <<writableDue, closed, events, native>> /\ dart' # "flag"
        BY <1>2 DEF PumpStops
    <2>2. UNCHANGED <<reactor, flagged, inputClosed, taken, queued, stopping>>
        BY <2>1 DEF native
    <2> QED BY <1>0, <2>1, <2>2, FlagGoesOn
<1>3. CASE PumpCalls \/ TryCalls
    <2>1. PICK c : MayHand(c) /\ CallsNative(c)
        BY <1>3, CallsKeep
    <2>2. UNCHANGED <<writableDue, events, reactor, flagged, inputClosed>>
        BY <2>1 DEF CallsNative
    <2>3. Length(c) \in Nat /\ Length(c) <= MaxPendingBytes /\ MaxPendingBytes \in Nat
        <3>1. c.from \in Nat /\ c.to \in Nat /\ c.from < c.to /\ c.to - c.from <= MaxPendingBytes - owned
            BY <2>1 DEF MayHand, Chunk
        <3>2. MaxPendingBytes \in Nat
            BY InputFlowAssumption
        <3>3. owned \in Nat
            BY <3>2 DEF IsolateTypes
        <3> QED BY <3>1, <3>2, <3>3 DEF Length
    <2>4. CASE Accepted(c)
        <3>1. /\ queued' = queued + Length(c) /\ dart' # "flag"
              /\ UNCHANGED <<closed, taken, stopping>>
            BY <2>4 DEF Accepted
        <3>2. queued <= queued'
            BY <1>0, <2>3, <3>1
        <3> QED BY <1>0, <2>2, <3>1, <3>2, FlagGoesOn
    <2>5. CASE Refused(c)
        <3>1. /\ Length(c) > MaxPendingBytes - queued - taken
              /\ UNCHANGED <<closed, queued, taken, stopping>>
            BY <2>5 DEF Refused, Full
        <3>2. queued' + taken' > 0
            BY <1>0, <2>3, <3>1
        <3>3. BackpressureRemembered'
            BY <2>2, <3>1 DEF FlagOK, BackpressureRemembered
        <3> QED BY <2>2, <3>1, <3>2, <3>3 DEF FlagOK
    <2>6. CASE Failed(c)
        <3>1. /\ stopping' = (stopping \/ ~NativeClosed) /\ dart' # "flag"
              /\ UNCHANGED <<queued, taken>>
            BY <2>6 DEF Failed
        <3>2. stopping' \/ inputClosed
            BY <3>1 DEF NativeClosed
        <3>3. stopping => stopping'
            BY <3>1
        <3> QED BY <1>0, <2>2, <3>1, <3>2, <3>3, FlagGoesOn
    <2> QED BY <2>1, <2>4, <2>5, <2>6 DEF CallsNative
<1>4. CASE BackpressureFlagged
    <2>1. /\ dart = "flag" /\ dart' = "idle" /\ flagged' = TRUE
          /\ UNCHANGED <<closed, events, queued, taken, reactor, stopping, inputClosed>>
        BY <1>4 DEF BackpressureFlagged
    <2>2. BackpressureRemembered'
        BY <2>1 DEF FlagOK, BackpressureRemembered
    <2> QED BY <2>1, <2>2 DEF FlagOK
<1>5. CASE Close
    <2>1. /\ stopping' = TRUE /\ UNCHANGED <<writableDue, dart, events, queued, taken, reactor, flagged,
                                            inputClosed>>
        BY <1>5 DEF Close
    <2> QED BY <1>0, <2>1, FlagGoesOn
<1>6. CASE Pump
    <2>1. /\ events # <<>> /\ events' = Tail(events)
          /\ UNCHANGED <<queued, taken, reactor, flagged, stopping, inputClosed>>
          /\ dart' # "flag"
        BY <1>6 DEF Pump, HandleWritable, HandleClosed, HandleWriteComplete, Receive, native
    <2>2. /\ \A i \in 1..Len(events') : \E j \in 1..Len(events) : events'[i] = events[j]
          /\ \A j \in 1..Len(events) : j = 1 \/ \E i \in 1..Len(events') : events'[i] = events[j]
          /\ Head(events) = events[1] /\ 1 \in 1..Len(events)
        BY <2>1, TailEvents
    <2>3. HasEvent("closed", events') => HasEvent("closed", events)
        BY <2>2 DEF HasEvent
    <2>4. Head(events).kind # "writable" /\ HasEvent("writable", events) => HasEvent("writable", events')
        BY <2>2 DEF HasEvent
    <2>5. CASE HandleWritable
        <3>1. writableDue' = (closed /\ writableDue) /\ closed' = closed
            BY <2>5 DEF HandleWritable
        <3>2. writableDue \in BOOLEAN
            BY DEF IsolateTypes
        <3>3. writableDue' => writableDue /\ closed
            BY <3>1
        <3> QED BY <1>0, <2>1, <2>3, <3>1, <3>3, FlagGoesOn
    <2>6. CASE HandleClosed
        <3>1. writableDue' = writableDue /\ Head(events).kind = "closed"
            BY <2>6 DEF HandleClosed, Receive
        <3>2. inputClosed
            BY <2>2, <3>1 DEF FlagOK
        <3> QED BY <1>0, <2>1, <2>3, <2>4, <3>1, <3>2, FlagGoesOn
    <2>7. CASE HandleWriteComplete
        <3>1. writableDue' = writableDue /\ closed' = closed /\ Head(events).kind = "complete"
            BY <2>7 DEF HandleWriteComplete, Receive
        <3> QED BY <1>0, <2>1, <2>3, <2>4, <3>1, FlagGoesOn
    <2> QED BY <1>6, <2>5, <2>6, <2>7 DEF Pump
<1> QED BY <1>1, <1>2, <1>3, <1>4, <1>5, <1>6 DEF User, Isolate

\* The steps of the reactor: whoever takes the last bytes out of the queue goes on to
\* look at the flag, and whoever clears the flag goes on to post WRITABLE.
LEMMA NativeKeepsFlag ==
    ASSUME StateInv, FlagOK, StateInv', Reactor \/ Failure \/ ProgramReads
    PROVE  FlagOK'
<1> USE DEF StateInv
<1>0. UNCHANGED <<closed, writableDue, dart, stopping>>
    BY NativeStepsKeep DEF isolate
<1>1. queued \in Nat /\ taken \in Nat
    BY DEF NativeTypes
\* In a step that leaves the events and the flag alone the bytes decide.
<1>2. ASSUME UNCHANGED <<events, flagged, inputClosed>>,
             reactor \notin {"announce", "announceLast"},
             reactor = "fail" => reactor' = "fail",
             queued + taken > 0 => queued' + taken' > 0 \/ reactor' \in {"notify", "fail"} \/ inputClosed,
             reactor = "notify" => reactor' = "notify"
      PROVE  FlagOK'
    <2>1. BackpressureRemembered'
        BY <1>0, <1>2 DEF FlagOK, BackpressureRemembered
    <2>2. dart' = "flag" => queued' + taken' > 0 \/ reactor' \in {"notify", "fail"} \/ inputClosed'
        BY <1>0, <1>2 DEF FlagOK
    <2> QED BY <1>0, <1>2, <2>1, <2>2 DEF FlagOK
<1>3. CASE Flush \/ HangsUp
    <2>1. /\ UNCHANGED <<events, flagged, inputClosed, queued, taken>> /\ reactor = "idle"
        BY <1>3 DEF Flush, HangsUp, Steps
    <2> QED BY <1>2, <2>1
<1>4. CASE Dequeue
    <2>1. /\ UNCHANGED <<events, flagged, inputClosed>> /\ reactor = "dequeue"
        BY <1>4 DEF Dequeue, Steps
    <2>2. queued' + taken' = queued + taken
        <3>1. CASE queue = <<>> /\ UNCHANGED <<queue, queued, taken, hand>>
            BY <3>1
        <3>2. CASE /\ queue # <<>> /\ queued' = queued - Remaining(Head(queue))
                   /\ taken' = taken + Remaining(Head(queue))
            <4>1. Head(queue) \in Chunk
                BY <3>2, TailKeeps
            <4>2. Remaining(Head(queue)) \in Int
                BY <4>1 DEF Chunk, Remaining, Length
            <4> QED BY <1>1, <3>2, <4>2
        <3> QED BY <1>4, <3>1, <3>2 DEF Dequeue
    <2> QED BY <1>2, <2>1, <2>2
<1>5. CASE WriteBytes
    <2>1. /\ UNCHANGED <<events, flagged, inputClosed, queued, taken>> /\ reactor = "write"
        BY <1>5 DEF WriteBytes
    <2> QED BY <1>2, <2>1
<1>6. CASE WriteBlocks
    <2>1. /\ UNCHANGED <<events, flagged, inputClosed>> /\ reactor = "write"
        BY <1>6 DEF WriteBlocks, Steps
    <2>2. taken' = 0 /\ queued' > 0
        BY <1>6, WriteBlocksKeeps
    <2>3. NativeTypes'
        BY <1>6, WriteBlocksKeeps
    <2>4. queued' + taken' > 0
        <3>1. queued' \in Nat
            BY <2>3 DEF NativeTypes
        <3>2. \A k \in Nat : k > 0 => k + 0 > 0
            OBVIOUS
        <3>3. queued' + 0 > 0
            BY <2>2, <3>1, <3>2
        <3> QED BY <2>2, <3>3
    <2> QED BY <1>2, <2>1, <2>4
<1>7. CASE WriteFails \/ CompleteChunk
    <2>1. /\ UNCHANGED <<events, flagged, inputClosed>> /\ reactor \in {"write", "complete"}
          /\ reactor' \in {"notify", "fail"}
        BY <1>7 DEF WriteFails, CompleteChunk, Steps
    <2> QED BY <1>2, <2>1
<1>8. CASE Discard
    <2>1. /\ UNCHANGED <<events, flagged, inputClosed>> /\ reactor = "discard" /\ reactor' = "idle"
        BY <1>8 DEF Discard, Steps
    <2>2. inputClosed
        BY <2>1 DEF QueueInv, StageOK
    <2> QED BY <1>2, <2>1, <2>2
<1>9. CASE InputFails \/ ReactorEnds
    <2>1. inputClosed' = TRUE
        BY <1>9 DEF InputFails, ReactorEnds, MarkInputClosed
    <2> QED BY <2>1 DEF FlagOK, BackpressureRemembered
<1>10. CASE PostComplete
    <2>1. /\ UNCHANGED <<flagged, inputClosed, queued, taken>> /\ reactor = "post" /\ reactor' = "complete"
          /\ Post("complete", Id(hand[1]))
        BY <1>10 DEF PostComplete, Steps
    <2>2. "complete" \in Kinds /\ Id(hand[1]) \in Ids
        <3>1. hand[1].sub \in Nat /\ hand[1].from \in Nat
            BY <2>1, HandIs
        <3> QED BY <3>1 DEF Kinds, Ids, Id
    <2>3. /\ HasEvent("closed", events') => HasEvent("closed", events)
          /\ HasEvent("writable", events) => HasEvent("writable", events')
        BY <2>1, <2>2, PostEvents DEF HasEvent
    <2>4. UNCHANGED reactor \/ reactor \notin {"announce", "announceLast", "notify", "fail"}
        BY <2>1
    <2>5. BackpressureRemembered'
        BY <1>0, <2>1, <2>3 DEF FlagOK, BackpressureRemembered, HasEvent
    <2>6. (\E i \in 1..Len(events') : events'[i].kind = "closed") => inputClosed'
        BY <2>1, <2>3 DEF FlagOK, HasEvent
    <2>7. dart' = "flag" => queued' + taken' > 0 \/ reactor' \in {"notify", "fail"} \/ inputClosed'
        BY <1>0, <2>1 DEF FlagOK
    <2> QED BY <1>0, <2>1, <2>5, <2>6, <2>7 DEF FlagOK
<1>11. CASE MaybePostWritable
    <2> DEFINE posts == flagged /\ LowWater
    <2>1. /\ reactor \in {"notify", "yield"} /\ dart # "flag"
          /\ UNCHANGED <<events, queued, taken, inputClosed>>
          /\ flagged' = (flagged /\ ~posts)
          /\ posts => reactor' \in {"announce", "announceLast"}
          /\ ~posts => reactor' \in {"dequeue", "idle"}
        BY <1>11 DEF MaybePostWritable, MutexFree
    <2>2. ~LowWater => queued + taken > 0
        <3>1. MaxPendingBytes \div 2 \in Nat
            BY InputFlowAssumption
        <3> QED BY <1>1, <3>1 DEF LowWater
    <2>3. BackpressureRemembered'
        <3> SUFFICES ASSUME ~stopping, ~inputClosed PROVE BackpressureRemembered'
            BY <1>0, <2>1 DEF BackpressureRemembered
        <3>1. writableDue => flagged \/ HasEvent("writable", events)
            BY <2>1 DEF FlagOK, BackpressureRemembered, HasEvent
        <3>2. writableDue' => \/ flagged' \/ reactor' \in {"announce", "announceLast"}
                              \/ \E i \in 1..Len(events') : events'[i].kind = "writable"
            BY <1>0, <2>1, <3>1 DEF HasEvent
        <3>3. flagged' => queued' + taken' > 0
            BY <2>1, <2>2
        <3> QED BY <3>2, <3>3 DEF BackpressureRemembered
    <2> QED BY <1>0, <2>1, <2>3 DEF FlagOK
<1>12. CASE PostWritable
    <2>1. /\ UNCHANGED <<flagged, inputClosed, queued, taken>> /\ reactor \in {"announce", "announceLast"}
          /\ reactor' \in {"dequeue", "idle"} /\ Post("writable", <<>>)
        BY <1>12 DEF PostWritable, Steps
    <2>2. "writable" \in Kinds /\ <<>> \in Ids
        BY DEF Kinds, Ids
    <2> HIDE DEF Kinds, Ids
    <2>3. /\ HasEvent("closed", events') => HasEvent("closed", events)
          /\ HasEvent("writable", events')
        BY <2>1, <2>2, PostEvents DEF HasEvent
    <2>4. BackpressureRemembered'
        BY <1>0, <2>1, <2>3 DEF FlagOK, BackpressureRemembered, HasEvent
    <2>5. (\E i \in 1..Len(events') : events'[i].kind = "closed") => inputClosed'
        BY <2>1, <2>3 DEF FlagOK, HasEvent
    <2>6. dart' = "flag" => queued' + taken' > 0 \/ reactor' \in {"notify", "fail"} \/ inputClosed'
        BY <1>0, <2>1 DEF FlagOK
    <2> QED BY <1>0, <2>1, <2>4, <2>5, <2>6 DEF FlagOK
<1>13. CASE ProgramReads
    <2>1. UNCHANGED <<events, queued, taken, reactor, flagged, inputClosed>>
        BY <1>13 DEF ProgramReads, native
    <2> QED BY <1>0, <2>1 DEF FlagOK, BackpressureRemembered
<1> QED BY <1>3, <1>4, <1>5, <1>6, <1>7, <1>8, <1>9, <1>10, <1>11, <1>12, <1>13 DEF Reactor, Failure

-----------------------------------------------------------------------------
\* The invariant, and the properties that follow from it.

\* A new session satisfies the invariant.
LEMMA InitIInv == Init => IInv
<1> SUFFICES ASSUME Init PROVE IInv
    OBVIOUS
<1>0. /\ size = <<>> /\ fate = <<>> /\ offset = <<>> /\ written = <<>>
      /\ admissions = <<>> /\ waiting = <<>> /\ inflight = {}
      /\ owned = 0 /\ writableDue = FALSE /\ closed = FALSE /\ owner = FALSE
      /\ dart = "idle" /\ events = <<>>
      /\ queue = <<>> /\ queued = 0 /\ taken = 0 /\ hand = <<>>
      /\ reactor = "idle" /\ flagged = FALSE
      /\ stopping = FALSE /\ inputClosed = FALSE
      /\ tty = 0
    BY DEF Init
<1>1. Len(<<>>) = 0 /\ MaxPendingBytes \in Nat /\ TtyCap \in Nat /\ Submissions \in Nat
    BY InputFlowAssumption
<1>2. IsolateTypes
    <2>1. size \in Seq(Nat \ {0}) /\ offset \in Seq(Nat) /\ written \in Seq(Nat)
          /\ admissions \in Seq(Nat) /\ waiting \in Seq(Nat)
        BY <1>0
    <2>2. fate \in Seq(Fates)
        BY <1>0, EmptySeq
    <2>3. /\ Len(size) = 0 /\ Len(fate) = 0 /\ Len(offset) = 0 /\ Len(written) = 0 /\ Len(waiting) = 0
          /\ Len(size) <= Submissions /\ owned \in 0..MaxPendingBytes /\ inflight \subseteq Chunk
        BY <1>0, <1>1
    <2>4. /\ writableDue \in BOOLEAN /\ closed \in BOOLEAN /\ owner \in BOOLEAN
          /\ dart \in {"idle", "pump", "try", "flag"}
        BY <1>0
    <2> HIDE <1>0
    <2> HIDE DEF Fates, Chunk
    <2> QED BY <2>1, <2>2, <2>3, <2>4 DEF IsolateTypes
<1>3. NativeTypes
    <2>1. events \in Seq(Event) /\ queue \in Seq(Chunk) /\ hand \in Seq(Chunk)
        BY <1>0, EmptySeq
    <2>2. Len(hand) <= 1 /\ queued \in Nat /\ taken \in Nat /\ queued + taken <= MaxPendingBytes
        BY <1>0, <1>1
    <2>3. flagged \in BOOLEAN /\ stopping \in BOOLEAN /\ inputClosed \in BOOLEAN
        BY <1>0
    <2>4. tty \in 0..TtyCap
        BY <1>0, <1>1
    <2>5. reactor \in Stages
        BY <1>0 DEF Stages
    <2> QED BY <2>1, <2>2, <2>3, <2>4, <2>5 DEF NativeTypes
<1>4. IsolateInv
    <2>1. ListOK /\ HandlerOK /\ PendingOK /\ SubsOK /\ FlyingOK
        BY <1>0, <1>1 DEF ListOK, Sorted, HandlerOK, Trying, PendingOK, SubsOK, FlyingOK
    <2>2. InFlight = {}
        BY <1>0 DEF InFlight
    <2>3. OwnedOK
        BY <1>0, <2>2, FS_EmptySet DEF OwnedOK
    <2> QED BY <2>1, <2>3 DEF IsolateInv
<1>5. QueueInv
    <2>1. LineOK /\ HandOK /\ StageOK /\ CoverOK /\ WrittenOK
        BY <1>0, <1>1 DEF LineOK, HandOK, StageOK, CoverOK, WrittenOK, Broken
    <2>2. InQueue = {}
        BY <1>0, <1>1 DEF InQueue
    <2>3. QueuedOK
        BY <1>0, <2>2, FS_EmptySet DEF QueuedOK
    <2> QED BY <2>1, <2>3 DEF QueueInv
<1>6. ReportOK
    BY <1>0, <1>1 DEF ReportOK
<1>7. FlagOK
    BY <1>0, <1>1 DEF FlagOK, BackpressureRemembered
<1> QED BY <1>2, <1>3, <1>4, <1>5, <1>6, <1>7 DEF IInv

\* A step of something else leaves the invariant as it is.
LEMMA StutterIInv == IInv /\ UNCHANGED vars => IInv'
<1> SUFFICES ASSUME IInv, UNCHANGED vars PROVE IInv'
    OBVIOUS
<1>1. UNCHANGED <<size, fate, admissions, waiting, offset, inflight, owned, writableDue, closed, owner,
                  dart, events, queue, queued, taken, hand, reactor, flagged, stopping, inputClosed,
                  tty, written>>
    BY DEF vars, isolate, native
<1>2. IsolateTypes' /\ NativeTypes'
    BY <1>1 DEF IInv, IsolateTypes, NativeTypes
<1>3. IsolateInv'
    <2>1. ListOK' /\ HandlerOK' /\ PendingOK'
        BY <1>1
           DEF IInv, IsolateInv, ListOK, HandlerOK, PendingOK, Listed, In, Flying, Underway, Trying,
                    Sorted
    <2>2. SubsOK' /\ FlyingOK' /\ OwnedOK'
        BY <1>1
           DEF IInv, IsolateInv, SubsOK, FlyingOK, OwnedOK, InFlight, Listed, In, Underway, Trying
    <2> QED BY <2>1, <2>2 DEF IsolateInv
<1>4. QueueInv'
    BY <1>1
       DEF IInv, QueueInv, LineOK, HandOK, StageOK, QueuedOK, InQueue, CoverOK, WrittenOK, Broken
<1>5. ReportOK'
    BY <1>1 DEF IInv, ReportOK
<1>6. FlagOK'
    BY <1>1 DEF IInv, FlagOK, BackpressureRemembered
<1> QED BY <1>2, <1>3, <1>4, <1>5, <1>6 DEF IInv

\* Every action keeps the invariant.
LEMMA NextIInv == IInv /\ [Next]_vars => IInv'
<1> SUFFICES ASSUME IInv, Next PROVE IInv'
    BY StutterIInv
<1>1. StateInv /\ ReportOK /\ FlagOK
    BY DEF IInv, StateInv
<1>2. StateInv'
    <2>1. CASE (\E n \in WriteSizes : Write(n)) \/ (\E n \in TrySizes : TryWrite(n))
        BY <1>1, <2>1, SubmissionsKeep
    <2>2. CASE Close \/ HandleWritable \/ HandleClosed
        BY <1>1, <2>2, HandlersKeep
    <2>3. CASE HandleWriteComplete
        BY <1>1, <2>3, WriteCompleteKeeps
    <2>4. CASE PumpStops
        BY <1>1, <2>4, PumpStopsKeeps
    <2>5. CASE PumpCalls \/ TryCalls
        BY <1>1, <2>5, CallsKeep
    <2>6. CASE BackpressureFlagged
        BY <1>1, <2>6, BackpressureKeeps
    <2>7. CASE Reactor \/ Failure \/ ProgramReads
        BY <1>1, <2>7, NativeStepsKeep
    <2> QED BY <2>1, <2>2, <2>3, <2>4, <2>5, <2>6, <2>7 DEF Next, User, Isolate, Pump
<1>3. ReportOK'
    BY <1>1, <1>2, ReportKeeps
<1>4. FlagOK'
    BY <1>1, <1>2, IsolateKeepsFlag, NativeKeepsFlag DEF Next
<1> QED BY <1>2, <1>3, <1>4 DEF IInv, StateInv

\* The inductive invariant of the way of the input.
THEOREM Invariant == Spec => []IInv
<1> QED BY InitIInv, NextIInv, PTL DEF Spec

\* The types of the run's invariant follow from it.
LEMMA TypesFollow == IInv => TypeOK
<1> SUFFICES ASSUME IInv PROVE TypeOK
    OBVIOUS
<1> USE DEF IInv
<1>1. Subs = 1..Len(size) /\ Len(size) \in Nat
    BY SubsIs, LenProperties DEF IsolateTypes
<1>2. size \in Seq(Nat \ {0}) /\ fate \in [Subs -> {"pending", "done", "error", "rejected"}]
    <2>1. fate \in Seq(Fates) /\ Len(fate) = Len(size) /\ size \in Seq(Nat \ {0})
        BY DEF IsolateTypes
    <2>2. fate \in [1..Len(fate) -> Fates]
        <3> HIDE DEF Fates
        <3> QED BY <2>1, LenProperties
    <2> QED BY <1>1, <2>1, <2>2 DEF Fates
<1>3. Range(admissions) \subseteq Subs /\ Range(waiting) \subseteq Subs /\ Len(waiting) <= 1
    <2>1. admissions \in Seq(Nat) /\ waiting \in Seq(Nat) /\ Len(waiting) <= 1
        BY DEF IsolateTypes
    <2>2. /\ Range(admissions) = {admissions[i] : i \in 1..Len(admissions)}
          /\ Range(waiting) = {waiting[i] : i \in 1..Len(waiting)}
        BY <2>1, RangeEquality
    <2>3. /\ \A i \in 1..Len(admissions) : admissions[i] \in 1..Len(size)
          /\ \A i \in 1..Len(waiting) : waiting[i] \in 1..Len(size)
        BY DEF IsolateInv, ListOK
    <2> QED BY <1>1, <2>1, <2>2, <2>3
<1>4. inflight \subseteq Chunk /\ owned \in 0..MaxPendingBytes
    BY DEF IsolateTypes
<1>5. \A s \in Subs : offset[s] \in 0..size[s] /\ written[s] \in 0..size[s]
    <2> SUFFICES ASSUME NEW s \in 1..Len(size)
                 PROVE  offset[s] \in 0..size[s] /\ written[s] \in 0..size[s]
        BY <1>1
    <2>1. offset[s] \in Nat /\ written[s] \in Nat /\ size[s] \in Nat
        BY DEF IsolateTypes
    <2>2. offset[s] <= size[s] /\ written[s] <= offset[s]
        BY DEF IsolateInv, SubsOK, QueueInv, WrittenOK
    <2> QED BY <2>1, <2>2
<1>6. /\ writableDue \in BOOLEAN /\ closed \in BOOLEAN /\ owner \in BOOLEAN
      /\ dart \in {"idle", "pump", "try", "flag"}
      /\ flagged \in BOOLEAN /\ stopping \in BOOLEAN /\ inputClosed \in BOOLEAN
      /\ tty \in 0..TtyCap
    BY DEF IsolateTypes, NativeTypes
<1>7. \A i \in 1..Len(events) : events[i].kind \in {"complete", "writable", "closed"}
    <2> SUFFICES ASSUME NEW i \in 1..Len(events) PROVE events[i].kind \in Kinds
        BY DEF Kinds
    <2>1. events[i] \in Event
        BY ElementOfSeq DEF NativeTypes
    <2> QED BY <2>1 DEF Event
<1>8. Range(queue) \subseteq Chunk /\ Range(hand) \subseteq Chunk /\ Len(hand) <= 1
    <2>1. queue \in Seq(Chunk) /\ hand \in Seq(Chunk) /\ Len(hand) <= 1
        BY DEF NativeTypes
    <2> HIDE DEF Chunk
    <2>2. /\ Range(queue) = {queue[i] : i \in 1..Len(queue)}
          /\ Range(hand) = {hand[i] : i \in 1..Len(hand)}
        BY <2>1, RangeEquality
    <2> QED BY <2>1, <2>2, ElementOfSeq
<1>9. queued \in 0..MaxPendingBytes /\ taken \in 0..MaxPendingBytes
    <2>1. queued \in Nat /\ taken \in Nat /\ queued + taken <= MaxPendingBytes /\ MaxPendingBytes \in Nat
        BY InputFlowAssumption DEF NativeTypes
    <2> QED BY <2>1
<1> QED BY <1>2, <1>3, <1>4, <1>5, <1>6, <1>7, <1>8, <1>9 DEF TypeOK

\* The counters of bytes in Dart and in the native queue are what they count, for any
\* limits, sizes and failures (pty_write_queue.c, _ownedPendingBytes).
THEOREM CountersAddUp == Spec => []BytesAddUp
<1>1. IInv => BytesAddUp
    <2> SUFFICES ASSUME IInv PROVE BytesAddUp
        OBVIOUS
    <2>1. TypeOK
        BY TypesFollow
    <2>2. owned = Cardinality(UNION {Bytes(c) : c \in inflight})
        BY DEF IInv, IsolateInv, OwnedOK, InFlight
    <2>3. queued = Cardinality(UNION {Bytes(queue[i]) : i \in 1..Len(queue)})
        BY DEF IInv, QueueInv, QueuedOK, InQueue
    <2>4. taken = (IF hand = <<>> THEN 0 ELSE hand[1].acc)
        <3>1. CASE hand = <<>>
            BY <3>1 DEF IInv, QueueInv, StageOK
        <3>2. CASE hand # <<>>
            <4>1. hand[1].acc = taken
                BY <3>2, HandIs DEF IInv, QueueInv, StageOK
            <4> QED BY <3>2, <4>1
        <3> QED BY <3>1, <3>2
    <2>5. queued + taken <= MaxPendingBytes
        BY DEF IInv, NativeTypes
    <2> QED BY <2>1, <2>2, <2>3, <2>4, <2>5 DEF BytesAddUp
<1> QED BY <1>1, Invariant, PTL

\* The terminal gets the bytes of the submissions one submission after the other, and
\* each byte in its turn (pty_input.dart:6).
THEOREM BytesInOrder == Spec => []InOrder
<1>1. IInv => InOrder
    <2> SUFFICES ASSUME IInv PROVE InOrder
        OBVIOUS
    <2>1. Subs = 1..Len(size)
        BY SubsIs DEF IInv
    <2> QED BY <2>1 DEF IInv, QueueInv, WrittenOK, HandOK, InOrder
<1> QED BY <1>1, Invariant, PTL

\* A future that completes normally has every byte in the terminal, a refused tryWrite
\* none (handleWriteComplete).
THEOREM DoneIsWritten == Spec => []DoneMeansWritten
<1>1. IInv => DoneMeansWritten
    <2> SUFFICES ASSUME IInv, NEW s \in 1..Len(size)
                 PROVE  /\ fate[s] = "done" => written[s] = size[s]
                        /\ fate[s] = "rejected" => written[s] = 0
        BY SubsIs DEF IInv, DoneMeansWritten
    <2>1. fate[s] = "done" => written[s] = size[s]
        BY DEF IInv, QueueInv, WrittenOK
    <2>2. ASSUME fate[s] = "rejected" PROVE written[s] = 0
        <3>1. written[s] \in Nat
            BY DEF IInv, IsolateTypes
        <3>2. written[s] <= offset[s] /\ offset[s] = 0
            BY <2>2 DEF IInv, IsolateInv, SubsOK, QueueInv, WrittenOK
        <3> QED BY <3>1, <3>2
    <2> QED BY <2>1, <2>2
<1> QED BY <1>1, Invariant, PTL

\* What flush() waits for is what is pending, and while anything is the session is kept
\* (flush, _retainOwner, _releaseOwnerIfIdle).
THEOREM OwnerKeptWhilePending == Spec => []PendingKeepsOwner
<1>1. IInv => PendingKeepsOwner
    <2> SUFFICES ASSUME IInv PROVE PendingKeepsOwner
        OBVIOUS
    <2> DEFINE open == {s \in Subs : fate[s] = "pending"}
    <2>1. Subs = 1..Len(size)
        BY SubsIs DEF IInv
    <2>2. open # {} => owner
        BY <2>1 DEF IInv, IsolateInv, PendingOK
    <2>3. ASSUME dart = "idle", NEW s PROVE s \in Outstanding <=> s \in open
        <3>1. s \in Outstanding <=> Listed(s) \/ Flying(s)
            BY OutstandingIs DEF IInv
        <3>2. Listed(s) \/ Flying(s) => s \in 1..Len(size)
            BY DEF Listed, In, Flying, IInv, IsolateInv, ListOK, FlyingOK
        <3>3. s \in 1..Len(size) => (fate[s] = "pending" <=> Listed(s) \/ Flying(s))
            BY <2>3 DEF IInv, IsolateInv, PendingOK, Underway, Trying
        <3> QED BY <2>1, <3>1, <3>2, <3>3
    <2> QED BY <2>2, <2>3 DEF PendingKeepsOwner
<1> QED BY <1>1, Invariant, PTL

\* While Dart waits for WRITABLE it is on its way or will be (pty_session_try_write,
\* maybe_post_writable).
THEOREM BackpressureKept == Spec => []BackpressureRemembered
<1>1. IInv => BackpressureRemembered
    BY DEF IInv, FlagOK
<1> QED BY <1>1, Invariant, PTL
=============================================================================
