------------------------- MODULE WindowsSessionProofs -------------------------
(***************************************************************************)
(* The pseudo console of a Windows session is closed once, no handle of    *)
(* the bootstrap is lost, and a session that is over leaves nothing        *)
(* behind, its workers hold it until they are through, and one that posts  *)
(* no error keeps the contract, for every choice of faults, number of rare *)
(* events, output window and write queue.                                  *)
(*                                                                         *)
(* Most steps only move one thread to its next label, and what they do     *)
(* besides is alike: flags are raised, a message is posted, a reference is *)
(* dropped, readers and writers are interrupted.  Moves says that much of  *)
(* a step; a lemma for each kind of step shows that it Moves, and one lemma *)
(* that what Moves keeps the invariant.                                    *)
(*                                                                         *)
(* That nothing is left behind needs more: SafeInv counts the references,  *)
(* and says what each label, flag and lifecycle tells of the program, the  *)
(* console and the other threads.  Goes says that a step moves one thread, *)
(* Along where the label it leaves allows it to go, Mild what it may do    *)
(* besides; what Goes, Along and Mild keeps SafeInv but for the reference  *)
(* count and the console, which few steps touch.                           *)
(*                                                                         *)
(* That its workers hold it is about the order of the posts: TellInv says  *)
(* who is done, and how far the threads are when each event is posted.     *)
(* Step says of a step of a thread what TellInv depends on.  It is also    *)
(* what the contract is proved from, once Watched says that the last       *)
(* reference goes after the program.                                       *)
(***************************************************************************)
EXTENDS WindowsSession, TLAPS

Handles == {"inputRead", "inputWrite", "outputRead", "outputWrite", "console", "job",
            "attributes", "strings", "process", "thread"}

\* What the bootstrap holds at each of its labels.
Held(l) ==
  CASE l = "outputPipe"    -> {"inputRead", "inputWrite"}
    [] l = "pseudoConsole" -> {"inputRead", "inputWrite", "outputRead", "outputWrite"}
    [] l = "createJob"     -> {"inputRead", "inputWrite", "outputRead", "outputWrite", "console"}
    [] l = "limitJob"      -> {"inputRead", "inputWrite", "outputRead", "outputWrite", "console",
                               "job"}
    [] l = "attributes"    -> {"inputWrite", "outputRead", "console", "job"}
    [] l \in {"setAttributes", "arguments"} ->
                              {"inputWrite", "outputRead", "console", "job", "attributes"}
    [] l = "createProcess" -> {"inputWrite", "outputRead", "console", "job", "attributes",
                               "strings"}
    [] l = "assignJob"     -> {"inputWrite", "outputRead", "console", "job", "attributes",
                               "strings", "process", "thread"}
    [] l \in {"platform", "kill"} ->
                              {"inputWrite", "outputRead", "console", "job", "process", "thread"}
    [] l \in {"check", "reader", "writer", "waiter", "started", "resume", "unresumed", "stop",
              "unstarted"} -> {"thread"}
    [] OTHER -> {}

BootOK ==
  /\ boot \in [reserved : BOOLEAN, cancelled : BOOLEAN, held : SUBSET Handles]
  /\ boot.held = Held(pc["boot"])

\* The labels of the bootstrap before the platform is stored, and those of every
\* thread while it is not.
Early == {"inputPipe", "outputPipe", "pseudoConsole", "createJob", "limitJob", "attributes",
          "setAttributes", "arguments", "createProcess", "assignJob", "platform"}
Before(t) ==
  CASE t = "boot"  -> Early \cup {"kill", "failed", "failedOutput", "markClosed",
                                  "sessionClosed", "release", "end"}
    [] t = "owner" -> {"idle", "lifecycle", "claim", "finalizer", "end"}
    [] OTHER       -> {"off"}

\* Thread t at l is about to call ClosePseudoConsole.
AtClose(t, l) == IF t = "console" THEN l = "close" ELSE l \in {"inline", "unstartedInline"}

\* What the label of a thread says of the console: who is about to close it has
\* claimed it, the waiter releases it as long as it is being released, and it is
\* there before any worker is.
PlaceOK(t, l, c) ==
  /\ AtClose(t, l) => c = "CLOSING"
  /\ t = "waiter" /\ l \in {"releasing", "unreleased"} => c = "RELEASING"
  /\ t = "boot" /\ l \in Early => c = "none"
  /\ c = "none" => l \in Before(t)

ConsoleOK ==
  /\ \A t \in Threads : PlaceOK(t, pc[t], console)
  /\ \A t, u \in Threads : AtClose(t, pc[t]) /\ AtClose(u, pc[u]) => t = u
  /\ closes = IF console = "CLOSED" THEN 1 ELSE 0

\* The writer has a chunk in its hands.
WritingAt == {"writable", "write", "unwritten", "discard", "written", "complete"}
QueueOK == pc["writer"] \in WritingAt => pending > 0

\* TypeOK, but for what the bootstrap holds.
TypeInv ==
  /\ pc \in [Threads -> Labels] /\ events \in 0 .. MaxEvents
  /\ lifecycle \in {"STARTING", "RUNNING", "CLOSING", "CLOSED"} /\ abandoned \in BOOLEAN
  /\ refCount \in Int /\ handed \in Nat /\ flags \subseteq FlagNames
  /\ console \in {"none", "OWNED", "RELEASING", "RELEASED", "CLOSING", "CLOSED"}
  /\ program \in {"none", "suspended", "running", "dead"}
  /\ credit \in 0 .. Window /\ pending \in 0 .. Limit
  /\ posted \in [Events -> 0 .. 2]

IInv == TypeInv /\ BootOK /\ ConsoleOK /\ QueueOK

-----------------------------------------------------------------------------
(* Steps that move one thread                                              *)

\* A thread is interrupted, or started.
Shifts(u, a, b) ==
  \/ b = a
  \/ u = "reader" /\ a = "read" /\ b = "failed"
  \/ u = "writer" /\ a = "write" /\ b = "unwritten"
  \/ u = "closer" /\ b = "stop" /\ Published
  \/ u \in {"reader", "writer", "waiter"} /\ b = "top" /\ Published

Moves(t, l, n) ==
  /\ TypeInv' /\ pc[t] = l
  /\ \A u \in Threads : Shifts(u, IF u = t THEN n ELSE pc[u], pc'[u])
  /\ \/ UNCHANGED <<console, closes>>
     \/ console \in {"OWNED", "RELEASED"} /\ console' = "CLOSED" /\ closes' = closes + 1
  /\ UNCHANGED <<boot, pending>>

\* Whatever the bootstrap holds, the console is as safe as it was.
LEMMA PlacesKeep ==
  ASSUME IInv, NEW t \in Threads, NEW n,
         \A u \in Threads : Shifts(u, IF u = t THEN n ELSE pc[u], pc'[u]),
         \/ UNCHANGED <<console, closes>>
         \/ console \in {"OWNED", "RELEASED"} /\ console' = "CLOSED" /\ closes' = closes + 1,
         ~AtClose(t, n), PlaceOK(t, n, console),
         t = "writer" /\ n \in WritingAt => pending > 0, UNCHANGED pending
  PROVE  ConsoleOK' /\ QueueOK'
  <1> DEFINE p(u) == IF u = t THEN n ELSE pc[u]
  <1>1. \A u \in Threads : Shifts(u, p(u), pc'[u])
    OBVIOUS
  <1>2. \A u \in Threads : PlaceOK(u, p(u), console)
    BY DEF IInv, ConsoleOK
  <1>3. console' = console \/ (console \in {"OWNED", "RELEASED"} /\ console' = "CLOSED")
    OBVIOUS
  <1>4. \A u \in Threads : AtClose(u, pc'[u]) => AtClose(u, p(u)) /\ pc'[u] = p(u)
    BY <1>1 DEF Shifts, AtClose
  <1>5. \A u \in Threads : AtClose(u, pc'[u]) => u # t /\ AtClose(u, pc[u])
    BY <1>4
  <1>6. ConsoleOK'
    <2>1. ASSUME NEW u \in Threads PROVE PlaceOK(u, pc'[u], console)
      <3>1. PlaceOK(u, p(u), console) /\ Shifts(u, p(u), pc'[u])
        BY <1>1, <1>2
      <3> HIDE DEF p
      <3> QED
        BY <3>1 DEF PlaceOK, Shifts, AtClose, Before, Published
    <2>2. ASSUME NEW u \in Threads PROVE PlaceOK(u, pc'[u], console')
      BY <1>3, <2>1 DEF PlaceOK
    <2>3. closes' = IF console' = "CLOSED" THEN 1 ELSE 0
      BY DEF IInv, ConsoleOK
    <2> QED
      BY <1>5, <2>2, <2>3 DEF IInv, ConsoleOK
  <1>7. QueueOK'
    <2>1. p("writer") \in WritingAt => pending > 0
      BY DEF IInv, QueueOK
    <2>2. Shifts("writer", p("writer"), pc'["writer"])
      BY <1>1 DEF Threads, Workers
    <2> HIDE DEF p
    <2>3. pc'["writer"] \in WritingAt => p("writer") \in WritingAt
      BY <2>2 DEF Shifts, WritingAt
    <2> QED
      BY <2>1, <2>3 DEF QueueOK
  <1> QED
    BY <1>6, <1>7

\* A thread moves, and the bootstrap gives back what it does not hold there.
LEMMA BootKeeps ==
  ASSUME IInv, NEW l, NEW n, TypeInv', pc["boot"] = l,
         \A u \in Threads : Shifts(u, IF u = "boot" THEN n ELSE pc[u], pc'[u]),
         UNCHANGED <<console, closes, pending>>,
         boot' \in [reserved : BOOLEAN, cancelled : BOOLEAN, held : SUBSET Handles],
         boot'.held = Held(n), n \notin {"inline", "unstartedInline"},
         n \in Early => l \in Early, l \in Before("boot") => n \in Before("boot")
  PROVE  IInv'
  <1>1. "boot" \in Threads
    BY DEF Threads, Workers
  <1>2. ~AtClose("boot", n) /\ PlaceOK("boot", n, console)
    BY <1>1 DEF IInv, ConsoleOK, PlaceOK, AtClose
  <1>3. pc'["boot"] = n
    BY <1>1 DEF Shifts
  <1>4. ConsoleOK' /\ QueueOK'
    BY <1>1, <1>2, PlacesKeep
  <1> QED
    BY <1>3, <1>4 DEF IInv, BootOK

\* A step of one thread that keeps clear of the pseudo console's close and of the
\* queue's memory.
LEMMA MovesKeep ==
  ASSUME IInv, NEW t \in Threads, NEW l, NEW n, Moves(t, l, n),
         ~AtClose(t, n), PlaceOK(t, n, console),
         t = "boot" => Held(n) = Held(l),
         t = "writer" /\ n \in WritingAt => pending > 0
  PROVE  IInv'
  <1>1. \A u \in Threads : Shifts(u, IF u = t THEN n ELSE pc[u], pc'[u])
    BY DEF Moves
  <1>2. ConsoleOK' /\ QueueOK'
    BY <1>1, PlacesKeep DEF Moves
  <1>3. BootOK'
    <2>1. pc'["boot"] = IF "boot" = t THEN n ELSE pc["boot"]
      BY <1>1 DEF Shifts, Threads, Workers
    <2> QED
      BY <2>1 DEF Moves, IInv, BootOK
  <1> QED
    BY <1>2, <1>3 DEF IInv, Moves

\* The way from l to n takes thread t to no console it has not claimed.
Onward(t, l, n) ==
  /\ n \in Labels /\ ~AtClose(t, n)
  /\ t = "waiter" => n \notin {"releasing", "unreleased"}
  /\ t = "boot" => (n \in Early => l \in Early) /\ Held(n) = Held(l)
  /\ l \in Before(t) => n \in Before(t)
  /\ t = "writer" /\ n \in WritingAt => l \in WritingAt

\* A step along a thread's body.
LEMMA OnwardKeeps ==
  ASSUME IInv, NEW t \in Threads, NEW l, NEW n, Moves(t, l, n), Onward(t, l, n)
  PROVE  IInv'
  <1>1. pc[t] = l /\ PlaceOK(t, l, console)
    BY DEF Moves, IInv, ConsoleOK
  <1>2. PlaceOK(t, n, console)
    BY <1>1 DEF PlaceOK, Onward
  <1>3. t = "writer" /\ n \in WritingAt => pending > 0
    BY <1>1 DEF Onward, IInv, QueueOK
  <1> QED
    BY <1>2, <1>3, MovesKeep DEF Onward

-----------------------------------------------------------------------------
(* What the kinds of steps do                                              *)

\* A step to a next label moves one thread and nothing else ...
LEMMA Went ==
  ASSUME TypeInv, NEW t \in Threads, NEW l, NEW n \in Labels, Go(t, l, n)
  PROVE  /\ pc' \in [Threads -> Labels] /\ pc[t] = l
         /\ \A u \in Threads : Shifts(u, IF u = t THEN n ELSE pc[u], pc'[u])
  BY DEF TypeInv, Go, Shifts

\* ... even where threads are interrupted.
LEMMA Cut ==
  ASSUME TypeInv, NEW t \in Threads, NEW n \in Labels,
         pc' \in Interrupted([pc EXCEPT ![t] = n])
  PROVE  /\ pc' \in [Threads -> Labels]
         /\ \A u \in Threads : Shifts(u, IF u = t THEN n ELSE pc[u], pc'[u])
  <1> DEFINE m == [pc EXCEPT ![t] = n]
  <1>1. m \in [Threads -> Labels] /\ \A u \in Threads : m[u] = IF u = t THEN n ELSE pc[u]
    BY DEF TypeInv
  <1>2. pc' \in Interrupted(m)
    OBVIOUS
  <1>3. "reader" \in Threads /\ "writer" \in Threads
    BY DEF Threads, Workers
  <1> HIDE DEF m
  <1>4. CASE pc' = m
    BY <1>1, <1>4 DEF Shifts
  <1>5. CASE pc' # m
    <2> DEFINE r == IF m["reader"] = "read" THEN "failed" ELSE m["reader"]
               w == IF m["writer"] = "write" THEN "unwritten" ELSE m["writer"]
    <2>1. pc' = [m EXCEPT !["reader"] = r, !["writer"] = w]
      BY <1>2, <1>5 DEF Interrupted
    <2>2. r \in Labels /\ w \in Labels /\ Shifts("reader", m["reader"], r)
          /\ Shifts("writer", m["writer"], w)
      BY <1>1, <1>3 DEF Shifts, Labels
    <2> HIDE DEF r, w
    <2>3. /\ pc' \in [Threads -> Labels] /\ pc'["reader"] = r /\ pc'["writer"] = w
          /\ \A u \in Threads : u \notin {"reader", "writer"} => pc'[u] = m[u]
      BY <1>1, <1>3, <2>1, <2>2
    <2>4. \A u \in Threads : Shifts(u, m[u], pc'[u])
      BY <2>2, <2>3 DEF Shifts
    <2> QED
      BY <1>1, <2>3, <2>4
  <1> QED
    BY <1>1, <1>4, <1>5

\* A critical section that sets flags.
LEMMA FlagStepMoves ==
  ASSUME TypeInv, NEW t \in Threads, NEW l, NEW n \in Labels, NEW set \in SUBSET FlagNames,
         FlagStep(t, l, set, n)
  PROVE  Moves(t, l, n)
  <1>1. Go(t, l, n)
    BY DEF FlagStep
  <1>2. TypeInv'
    BY <1>1, Went DEF FlagStep, TypeInv, bootVars, sessionVars, hostVars, flowVars, dartVars
  <1> QED
    BY <1>1, <1>2, Went DEF Moves, FlagStep, bootVars, hostVars, flowVars

\* A store of the lifecycle.
LEMMA LifeStepMoves ==
  ASSUME TypeInv, NEW t \in Threads, NEW l, NEW n \in Labels,
         NEW v \in {"STARTING", "RUNNING", "CLOSING", "CLOSED"}, LifeStep(t, l, v, n)
  PROVE  Moves(t, l, n)
  <1>1. Go(t, l, n)
    BY DEF LifeStep
  <1>2. TypeInv'
    BY <1>1, Went DEF LifeStep, TypeInv, bootVars, sessionVars, hostVars, flowVars, dartVars
  <1> QED
    BY <1>1, <1>2, Went DEF Moves, LifeStep, bootVars, hostVars, flowVars

\* A system call that fails.
LEMMA FailsMoves ==
  ASSUME TypeInv, NEW t \in Threads, NEW l, NEW n \in Labels, NEW f, Fails(f, t, l, n)
  PROVE  Moves(t, l, n)
  <1>1. Go(t, l, n)
    BY DEF Fails
  <1>2. events' \in 0 .. MaxEvents
    BY WindowsAssumption DEF Fails, MayFail, Rarely, TypeInv
  <1>3. TypeInv'
    BY <1>1, <1>2, Went DEF Fails, TypeInv, sessionVars, hostVars, flowVars, dartVars
  <1> QED
    BY <1>1, <1>3, Went DEF Moves, Fails, hostVars, flowVars

\* The platform's last reference closes a console nobody closed.
LEMMA DropCloses ==
  ASSUME TypeInv, Drop
  PROVE  /\ refCount' \in Int
         /\ console' \in {"none", "OWNED", "RELEASING", "RELEASED", "CLOSING", "CLOSED"}
         /\ \/ UNCHANGED <<console, closes>>
            \/ console \in {"OWNED", "RELEASED"} /\ console' = "CLOSED" /\ closes' = closes + 1
  BY DEF Drop, FreedOpen, TypeInv

\* windows_stop_process
LEMMA StopStepMoves ==
  ASSUME TypeInv, NEW t \in Threads, NEW l, NEW n \in Labels, StopStep(t, l, n)
  PROVE  Moves(t, l, n)
  <1>1. flags' \subseteq FlagNames
    BY DEF StopStep, TypeInv, FlagNames, AllParts
  <1>2. program' \in {"none", "suspended", "running", "dead"}
    BY DEF StopStep, TypeInv, Killed
  <1>3. TypeInv'
    BY <1>1, <1>2, Cut DEF StopStep, TypeInv, bootVars, sessionVars, flowVars, dartVars
  <1> QED
    BY <1>3, Cut DEF Moves, StopStep, bootVars, flowVars

\* The last step of a worker.
LEMMA ReleaseMoves ==
  ASSUME TypeInv, NEW t \in Threads, NEW l, Release(t, l)
  PROVE  Moves(t, l, "end")
  <1> DEFINE n == "end"
  <1>1. Go(t, l, n) /\ Drop
    BY DEF Release
  <1>2. n \in Labels
    BY DEF Labels
  <1> HIDE DEF n
  <1>3. TypeInv'
    BY <1>1, <1>2, Went, DropCloses DEF Release, TypeInv, bootVars, flowVars, dartVars
  <1>4. Moves(t, l, n)
    BY <1>1, <1>2, <1>3, Went, DropCloses DEF Moves, Release, bootVars, flowVars
  <1> QED
    BY <1>4 DEF n

\* What an abandoned session leaves of the lifecycle, and of the flags.
LEMMA ClosingFromState ==
  ASSUME TypeInv
  PROVE  ClosingFrom(lifecycle) \in {"STARTING", "RUNNING", "CLOSING", "CLOSED"}
  BY DEF TypeInv, ClosingFrom

\* The flags a close raises are flags.
LEMMA CloseFlags ==
  {"stopping", "closeStarted", "closeDone", "closedPosted", "outputClosed", "inputClosed"}
    \subseteq FlagNames
  BY DEF FlagNames, AllParts

\* pty_session_abandon, with the close that does not block.
LEMMA AbandonMoves ==
  ASSUME TypeInv, NEW t \in Threads, NEW n \in Labels, NEW set \in SUBSET FlagNames,
         Abandon(t, set, n)
  PROVE  Moves(t, pc[t], n)
  <1> DEFINE m == [pc EXCEPT ![t] = n]
             bare == /\ ~Claimable /\ pc' = m /\ Drop /\ flags' = flags \cup set
                     /\ UNCHANGED <<program, events>>
             begun == /\ Claimable /\ pc' = [m EXCEPT !["closer"] = "stop"]
                      /\ flags' = flags \cup set \cup {"closeStarted"}
                      /\ UNCHANGED <<refCount, program, console, closes, events>>
             alone == /\ Claimable /\ MayFail("closer") /\ pc' \in Interrupted(m) /\ Drop
                      /\ flags' = flags \cup set \cup {"stopping", "closeStarted", "closeDone"}
                      /\ program' = Killed
             pcOK == /\ pc' \in [Threads -> Labels]
                     /\ \A u \in Threads : Shifts(u, IF u = t THEN n ELSE pc[u], pc'[u])
             hostOK ==
               /\ refCount' \in Int /\ events' \in 0 .. MaxEvents
               /\ flags' \subseteq FlagNames
               /\ console' \in {"none", "OWNED", "RELEASING", "RELEASED", "CLOSING", "CLOSED"}
               /\ program' \in {"none", "suspended", "running", "dead"}
               /\ \/ UNCHANGED <<console, closes>>
                  \/ console \in {"OWNED", "RELEASED"} /\ console' = "CLOSED"
                     /\ closes' = closes + 1
  <1>1. /\ abandoned' = TRUE /\ handed' = handed + 1 /\ lifecycle' = ClosingFrom(lifecycle)
        /\ UNCHANGED <<boot, credit, pending, posted, dart>>
    BY DEF Abandon, flowVars, dartVars
  <1>2. bare \/ begun \/ alone
    BY DEF Abandon
  <1>3. m \in [Threads -> Labels] /\ \A u \in Threads : m[u] = IF u = t THEN n ELSE pc[u]
    BY DEF TypeInv
  <1>4. pcOK /\ hostOK
    <2>1. CASE bare
      <3>1. pcOK
        <4>1. pc' = m
          BY <2>1
        <4> QED
          BY <1>3, <4>1 DEF Shifts
      <3>2. hostOK
        BY <2>1, DropCloses DEF TypeInv
      <3> QED
        BY <3>1, <3>2
    <2>2. CASE begun
      <3>1. pcOK
        <4>1. pc' = [m EXCEPT !["closer"] = "stop"] /\ Published
          BY <2>2 DEF Claimable
        <4>2. "closer" \in Threads /\ "stop" \in Labels
          BY DEF Threads, Workers, Labels
        <4> HIDE DEF m
        <4>3. /\ pc' \in [Threads -> Labels] /\ pc'["closer"] = "stop"
              /\ \A u \in Threads : u # "closer" => pc'[u] = m[u]
          BY <1>3, <4>1, <4>2
        <4> QED
          BY <1>3, <4>1, <4>3 DEF Shifts
      <3>2. hostOK
        BY <2>2, CloseFlags DEF TypeInv
      <3> QED
        BY <3>1, <3>2
    <2>3. CASE alone
      <3>1. pcOK
        BY <2>3, Cut
      <3>2. hostOK
        <4>1. events' \in 0 .. MaxEvents
          BY <2>3, WindowsAssumption DEF MayFail, Rarely, TypeInv
        <4>2. flags' \subseteq FlagNames
          BY <2>3, CloseFlags DEF TypeInv
        <4>3. program' \in {"none", "suspended", "running", "dead"}
          BY <2>3 DEF TypeInv, Killed
        <4> QED
          BY <2>3, <4>1, <4>2, <4>3, DropCloses DEF TypeInv
      <3> QED
        BY <3>1, <3>2
    <2> QED
      BY <1>2, <2>1, <2>2, <2>3
  <1> HIDE DEF m, bare, begun, alone
  <1>5. TypeInv'
    <2>1. abandoned' \in BOOLEAN /\ handed' \in Nat
      BY <1>1 DEF TypeInv
    <2> QED
      BY <1>1, <1>4, <2>1, ClosingFromState DEF TypeInv
  <1> QED
    BY <1>1, <1>4, <1>5 DEF Moves

\* post_session_event, with what a post that fails does.
LEMMA PostMoves ==
  ASSUME TypeInv, NEW t \in Threads, NEW l, NEW n \in Labels, NEW set \in SUBSET FlagNames,
         NEW e, Post(t, l, e, set, n)
  PROVE  Moves(t, l, n)
  <1>1. pc[t] = l
    BY DEF Post
  <1>2. CASE Abandons /\ Abandon(t, set, n)
    BY <1>1, <1>2, AbandonMoves
  <1>3. CASE ~(Abandons /\ Abandon(t, set, n))
    <2>1. /\ Go(t, l, n) /\ flags' = flags \cup set
          /\ posted' = IF abandoned THEN posted ELSE Counted(e)
          /\ UNCHANGED <<bootVars, sessionVars, hostVars, flowVars, dart>>
      BY <1>3 DEF Post
    <2>2. posted' \in [Events -> 0 .. 2]
      BY <2>1 DEF Counted, TypeInv
    <2>3. TypeInv'
      BY <2>1, <2>2, Went DEF TypeInv, bootVars, sessionVars, hostVars, flowVars
    <2> QED
      BY <2>1, <2>3, Went DEF Moves, bootVars, hostVars, flowVars
  <1> QED
    BY <1>2, <1>3

-----------------------------------------------------------------------------
(* Steps onward keep the invariant                                         *)

\* A thread sets flags, ...
LEMMA FlagStepKeeps ==
  ASSUME IInv, NEW t \in Threads, NEW l, NEW n, NEW set \in SUBSET FlagNames,
         Onward(t, l, n), FlagStep(t, l, set, n)
  PROVE  IInv'
  BY FlagStepMoves, OnwardKeeps DEF Onward, IInv

\* ... only looks, ...
LEMMA LookKeeps ==
  ASSUME IInv, NEW t \in Threads, NEW l, NEW n, Onward(t, l, n), FlagStep(t, l, {}, n)
  PROVE  IInv'
  BY FlagStepKeeps

\* ... stores the lifecycle, ...
LEMMA LifeStepKeeps ==
  ASSUME IInv, NEW t \in Threads, NEW l, NEW n,
         NEW v \in {"STARTING", "RUNNING", "CLOSING", "CLOSED"},
         Onward(t, l, n), LifeStep(t, l, v, n)
  PROVE  IInv'
  BY LifeStepMoves, OnwardKeeps DEF Onward, IInv

\* ... meets a failure, ...
LEMMA FailsKeep ==
  ASSUME IInv, NEW t \in Threads, NEW l, NEW n, NEW f, Onward(t, l, n), Fails(f, t, l, n)
  PROVE  IInv'
  BY FailsMoves, OnwardKeeps DEF Onward, IInv

\* ... stops the program, ...
LEMMA StopStepKeeps ==
  ASSUME IInv, NEW t \in Threads, NEW l, NEW n, Onward(t, l, n), StopStep(t, l, n)
  PROVE  IInv'
  BY StopStepMoves, OnwardKeeps DEF Onward, IInv

\* ... posts an event, ...
LEMMA PostKeeps ==
  ASSUME IInv, NEW t \in Threads, NEW l, NEW n, NEW set \in SUBSET FlagNames, NEW e,
         Onward(t, l, n), Post(t, l, e, set, n)
  PROVE  IInv'
  BY PostMoves, OnwardKeeps DEF Onward, IInv

\* A step that only posts an event.
LEMMA PostStepKeeps ==
  ASSUME IInv, NEW t \in Threads, NEW l, NEW n, NEW e, Onward(t, l, n), PostStep(t, l, e, n)
  PROVE  IInv'
  BY PostKeeps DEF PostStep

\* ... marks one end of the console closed, ...
LEMMA OutputClosedKeeps ==
  ASSUME IInv, NEW t \in Threads, NEW l, NEW n, Onward(t, l, n), OutputClosed(t, l, n)
  PROVE  IInv'
  <1>1. {"outputClosed"} \in SUBSET FlagNames
    BY CloseFlags
  <1>2. CASE FlagStep(t, l, {}, n)
    BY <1>2, LookKeeps
  <1>3. CASE Post(t, l, "OUTPUT_CLOSED", {"outputClosed"}, n)
    BY <1>1, <1>3, PostKeeps
  <1> QED
    BY <1>2, <1>3 DEF OutputClosed, MarkStep

\* ... or the other one.
LEMMA InputClosedKeeps ==
  ASSUME IInv, NEW t \in Threads, NEW l, NEW n, Onward(t, l, n), InputClosed(t, l, n)
  PROVE  IInv'
  <1>1. {"inputClosed"} \in SUBSET FlagNames
    BY CloseFlags
  <1>2. CASE FlagStep(t, l, {}, n)
    BY <1>2, LookKeeps
  <1>3. CASE Post(t, l, "INPUT_CLOSED", {"inputClosed"}, n)
    BY <1>1, <1>3, PostKeeps
  <1> QED
    BY <1>2, <1>3 DEF InputClosed, MarkStep

\* ... or claims SESSION_CLOSED and posts it, ...
LEMMA ClaimClosedKeeps ==
  ASSUME IInv, NEW t \in Threads, NEW l, NEW n, Onward(t, l, "SESSION_CLOSED"),
         Onward(t, "SESSION_CLOSED", n), ClaimClosed(t, l, n)
  PROVE  IInv'
  <1>1. CASE PostStep(t, "SESSION_CLOSED", "SESSION_CLOSED", n)
    BY <1>1, PostStepKeeps
  <1>2. CASE /\ Claims /\ Go(t, l, "SESSION_CLOSED")
             /\ flags' = flags \cup {"closedPosted"} /\ lifecycle' = "CLOSED"
             /\ UNCHANGED <<bootVars, abandoned, refCount, handed, hostVars, flowVars, dartVars>>
    <2> DEFINE m == "SESSION_CLOSED"
    <2>1. m \in Labels /\ Onward(t, l, m) /\ Go(t, l, m) /\ TypeInv
      BY <1>2 DEF Onward, IInv
    <2> HIDE DEF m
    <2>2. TypeInv'
      BY <1>2, <2>1, Went, CloseFlags DEF TypeInv, bootVars, hostVars, flowVars, dartVars
    <2>3. Moves(t, l, m)
      BY <1>2, <2>1, <2>2, Went DEF Moves, bootVars, hostVars, flowVars
    <2> QED
      BY <2>1, <2>3, OnwardKeeps
  <1> QED
    BY <1>1, <1>2 DEF ClaimClosed

\* ... and releases the session.
LEMMA EndingKeeps ==
  ASSUME IInv, NEW t \in Threads, Ending(t)
  PROVE  IInv'
  <1>1. /\ Onward(t, "maybe", "SESSION_CLOSED") /\ Onward(t, "SESSION_CLOSED", "release")
        /\ Onward(t, "release", "end") /\ Onward(t, "maybe", "end")
    BY DEF Onward, AtClose, Labels, Early, Held, Before, WritingAt
  <1>2. CASE ClaimClosed(t, "maybe", "release")
    BY <1>1, <1>2, ClaimClosedKeeps
  <1>3. CASE Release(t, "release")
    BY <1>1, <1>3, ReleaseMoves, OnwardKeeps DEF IInv
  <1>4. CASE Release(t, "maybe")
    BY <1>1, <1>4, ReleaseMoves, OnwardKeeps DEF IInv
  <1> QED
    BY <1>2, <1>3, <1>4 DEF Ending

-----------------------------------------------------------------------------
(* Steps that change the state of the console                              *)

\* Thread t goes from l to n, and the console to state c; what is left to show
\* is who is about to close it, who releases it and how often it was closed.
LEMMA ConsoleKeeps ==
  ASSUME IInv, TypeInv', NEW t \in Threads \ {"writer"}, NEW n,
         pc[t] \notin Before(t), console' # "none",
         t = "boot" => n \notin Early /\ Held(n) = Held(pc[t]),
         \A u \in Threads \ {"console"} : pc'[u] = IF u = t THEN n ELSE pc[u],
         \A u \in Threads : AtClose(u, pc'[u]) => console' = "CLOSING",
         \A u, v \in Threads : AtClose(u, pc'[u]) /\ AtClose(v, pc'[v]) => u = v,
         pc'["waiter"] \in {"releasing", "unreleased"} => console' = "RELEASING",
         closes' = (IF console' = "CLOSED" THEN 1 ELSE 0),
         UNCHANGED <<boot, pending>>
  PROVE  IInv'
  <1>1. console # "none"
    BY DEF IInv, ConsoleOK, PlaceOK
  <1>2. {"boot", "waiter", "writer"} \subseteq Threads \ {"console"}
    BY DEF Threads, Workers
  <1>3. pc'["boot"] \notin Early
    BY <1>1, <1>2 DEF IInv, ConsoleOK, PlaceOK
  <1>4. \A u \in Threads : PlaceOK(u, pc'[u], console')
    BY <1>3 DEF PlaceOK
  <1>5. BootOK'
    BY <1>2 DEF IInv, BootOK
  <1>6. QueueOK'
    BY <1>2 DEF IInv, QueueOK
  <1>7. ConsoleOK'
    BY <1>4 DEF ConsoleOK
  <1> QED
    BY <1>5, <1>6, <1>7 DEF IInv

\* A step that only changes the state of the console is well-typed.
LEMMA ConsoleStepTyped ==
  ASSUME TypeInv, NEW t \in Threads, NEW l, NEW n \in Labels,
         NEW c \in {"OWNED", "RELEASING", "RELEASED", "CLOSED"}, ConsoleStep(t, l, c, n)
  PROVE  /\ TypeInv' /\ pc[t] = l /\ \A u \in Threads : pc'[u] = IF u = t THEN n ELSE pc[u]
  <1>1. Go(t, l, n)
    BY DEF ConsoleStep
  <1>2. pc' \in [Threads -> Labels] /\ pc[t] = l
        /\ \A u \in Threads : pc'[u] = IF u = t THEN n ELSE pc[u]
    BY <1>1 DEF Go, TypeInv
  <1> QED
    BY <1>2 DEF ConsoleStep, TypeInv, bootVars, sessionVars, flowVars, dartVars

\* Who claimed the close closes it, without a thread for it.
LEMMA InlineKeeps ==
  ASSUME IInv, NEW t \in Threads \ {"console", "writer"}, NEW n \in Labels,
         NEW l \in {"inline", "unstartedInline"}, ConsoleStep(t, l, "CLOSED", n),
         n \notin {"inline", "unstartedInline"},
         t = "waiter" => n \notin {"releasing", "unreleased"},
         t = "boot" => n \notin Early /\ Held(n) = Held(l)
  PROVE  IInv'
  <1>1. TypeInv' /\ pc[t] = l /\ \A u \in Threads : pc'[u] = IF u = t THEN n ELSE pc[u]
    BY ConsoleStepTyped DEF IInv
  <1>2. AtClose(t, pc[t]) /\ pc[t] \notin Before(t)
    BY <1>1 DEF AtClose, Before, Early
  <1>3. console = "CLOSING"
    BY <1>2 DEF IInv, ConsoleOK, PlaceOK
  <1>4. \A u \in Threads : ~AtClose(u, pc'[u])
    BY <1>1, <1>2 DEF IInv, ConsoleOK, AtClose
  <1>5. pc'["waiter"] \notin {"releasing", "unreleased"}
    <2>1. "waiter" \in Threads
      BY DEF Threads, Workers
    <2> QED
      BY <1>1, <1>3, <2>1 DEF IInv, ConsoleOK, PlaceOK
  <1>6. console' = "CLOSED" /\ closes' = 1 /\ UNCHANGED <<boot, pending>>
    BY <1>3 DEF ConsoleStep, IInv, ConsoleOK, bootVars, flowVars
  <1> QED
    BY <1>1, <1>2, <1>4, <1>5, <1>6, ConsoleKeeps

\* The first to claim the close creates the thread for it, or is about to close
\* the console itself; whoever comes later goes on.
LEMMA StartCloseKeeps ==
  ASSUME IInv, NEW t \in Threads \ {"console", "writer"}, NEW l, NEW n \in Labels,
         NEW i \in {"inline", "unstartedInline"}, StartClose(t, l, i, n),
         l \notin Before(t), Onward(t, l, n),
         t = "boot" => Held(l) = {} /\ Held(n) = {} /\ n \notin Early
  PROVE  IInv'
  <1> DEFINE rest == UNCHANGED <<boot, lifecycle, abandoned, handed, flags, closes, program,
                                 flowVars, dartVars>>
             claim == Unclaimed /\ console # "RELEASING" /\ pc[t] = l /\ console' = "CLOSING"
                      /\ rest
             created == /\ pc' = [pc EXCEPT ![t] = n, !["console"] = "close"]
                        /\ refCount' = refCount + 1 /\ UNCHANGED events
             inline == MayFail("console") /\ Go(t, l, i) /\ UNCHANGED refCount
  <1>1. CASE FlagStep(t, l, {}, n)
    BY <1>1, LookKeeps
  <1>2. CASE ConsoleStep(t, i, "CLOSED", n)
    <2>1. /\ n \notin {"inline", "unstartedInline"}
          /\ t = "waiter" => n \notin {"releasing", "unreleased"}
      BY DEF Onward, AtClose
    <2>2. Held(i) = {}
      BY DEF Held
    <2> QED
      BY <1>2, <2>1, <2>2, InlineKeeps
  <1>3. CASE claim /\ (created \/ inline)
    <2>1. /\ \A u \in Threads : ~AtClose(u, pc[u])
          /\ pc["waiter"] \notin {"releasing", "unreleased"}
      BY <1>3 DEF Unclaimed, IInv, ConsoleOK, PlaceOK, Threads, Workers
    <2>2. "console" \in Threads /\ "waiter" \in Threads
      BY DEF Threads, Workers
    <2>3. pc[t] = l /\ console' = "CLOSING" /\ closes' = 0 /\ UNCHANGED <<boot, pending>>
      BY <1>3 DEF IInv, ConsoleOK, Unclaimed, flowVars
    <2>4. "close" \in Labels /\ i \in Labels
      BY DEF Labels
    <2>5. CASE created
      <3>1. /\ pc' \in [Threads -> Labels] /\ pc'["console"] = "close"
            /\ \A u \in Threads \ {"console"} : pc'[u] = IF u = t THEN n ELSE pc[u]
        BY <2>2, <2>4, <2>5 DEF IInv, TypeInv
      <3>2. TypeInv'
        BY <1>3, <2>5, <3>1 DEF IInv, TypeInv, flowVars, dartVars
      <3>3. \A u \in Threads : AtClose(u, pc'[u]) => u = "console"
        BY <2>1, <3>1 DEF Onward, AtClose
      <3>4. pc'["waiter"] \notin {"releasing", "unreleased"}
        BY <2>1, <2>2, <3>1 DEF Onward
      <3> HIDE DEF claim, created, inline
      <3> QED
        BY <2>3, <3>1, <3>2, <3>3, <3>4, ConsoleKeeps
    <2>6. CASE inline
      <3>1. /\ pc' \in [Threads -> Labels]
            /\ \A u \in Threads : pc'[u] = IF u = t THEN i ELSE pc[u]
        BY <2>4, <2>6 DEF Go, IInv, TypeInv
      <3>2. events' \in 0 .. MaxEvents
        BY <2>6, WindowsAssumption DEF MayFail, Rarely, IInv, TypeInv
      <3>3. TypeInv'
        BY <1>3, <2>6, <3>1, <3>2 DEF IInv, TypeInv, flowVars, dartVars
      <3>4. \A u \in Threads : AtClose(u, pc'[u]) => u = t
        BY <2>1, <3>1 DEF AtClose
      <3>5. pc'["waiter"] \notin {"releasing", "unreleased"}
        BY <2>1, <2>2, <3>1
      <3>6. i \notin Early /\ (t = "boot" => Held(i) = Held(pc[t]))
        BY <2>3 DEF Early, Held
      <3> HIDE DEF claim, created, inline
      <3> QED
        BY <2>3, <3>1, <3>3, <3>4, <3>5, <3>6, ConsoleKeeps
    <2> QED
      BY <1>3, <2>5, <2>6
  <1> QED
    BY <1>1, <1>2, <1>3 DEF StartClose

\* The caller then waits until the console is closed.
LEMMA ClosesKeeps ==
  ASSUME IInv, NEW t \in Threads \ {"console", "writer"}, NEW l, NEW w \in Labels,
         NEW n \in Labels,
         NEW i \in {"inline", "unstartedInline"}, Closes(t, l, i, w, n),
         l \notin Before(t), Onward(t, l, w), Onward(t, w, n),
         t = "boot" => Held(l) = {} /\ Held(w) = {} /\ w \notin Early
  PROVE  IInv'
  <1>1. CASE StartClose(t, l, i, w)
    BY <1>1, StartCloseKeeps
  <1>2. CASE FlagStep(t, w, {}, n)
    BY <1>2, LookKeeps
  <1> QED
    BY <1>1, <1>2 DEF Closes

\* ClosePseudoConsole returns in the thread that was created for it.
LEMMA ConsoleWorkerKeeps ==
  ASSUME IInv, ConsoleWorker
  PROVE  IInv'
  <1>1. "console" \in Threads /\ "waiter" \in Threads /\ "end" \in Labels
    BY DEF Threads, Workers, Labels
  <1>2. /\ pc["console"] = "close" /\ pc' = [pc EXCEPT !["console"] = "end"]
        /\ console' = "CLOSED" /\ closes' = closes + 1 /\ refCount' = refCount - 1
        /\ UNCHANGED <<bootVars, lifecycle, abandoned, handed, flags, program, flowVars, dartVars>>
    BY DEF ConsoleWorker, Go
  <1>3. /\ pc' \in [Threads -> Labels]
        /\ \A u \in Threads : pc'[u] = IF u = "console" THEN "end" ELSE pc[u]
    BY <1>1, <1>2 DEF IInv, TypeInv
  <1>4. TypeInv'
    BY <1>2, <1>3 DEF IInv, TypeInv, bootVars, flowVars, dartVars
  <1>5. AtClose("console", pc["console"]) /\ pc["console"] \notin Before("console")
    BY <1>2 DEF AtClose, Before
  <1>6. console = "CLOSING" /\ closes = 0
    BY <1>1, <1>5 DEF IInv, ConsoleOK, PlaceOK
  <1>7. \A u \in Threads : ~AtClose(u, pc'[u])
    BY <1>1, <1>3, <1>5 DEF IInv, ConsoleOK, AtClose
  <1>8. pc'["waiter"] \notin {"releasing", "unreleased"}
    BY <1>1, <1>3, <1>6 DEF IInv, ConsoleOK, PlaceOK
  <1>9. closes' = 1 /\ UNCHANGED <<boot, pending>>
    BY <1>2, <1>6 DEF bootVars, flowVars
  <1> QED
    BY <1>1, <1>2, <1>3, <1>4, <1>5, <1>7, <1>8, <1>9, ConsoleKeeps

\* The waiter gives the console up, as long as nobody has closed it.
LEMMA WaiterConsoleKeeps ==
  ASSUME IInv, NEW l, NEW n \in {"releasing", "done", "close"},
         NEW c \in {"OWNED", "RELEASING", "RELEASED"},
         ConsoleStep("waiter", l, c, n),
         l # "off", console \in {"OWNED", "RELEASING"},
         n = "releasing" => c = "RELEASING"
  PROVE  IInv'
  <1>1. "waiter" \in Threads /\ n \in Labels
    BY DEF Threads, Workers, Labels
  <1>2. /\ TypeInv' /\ pc["waiter"] = l
        /\ \A u \in Threads : pc'[u] = IF u = "waiter" THEN n ELSE pc[u]
    BY <1>1, ConsoleStepTyped DEF IInv
  <1>3. console' = c /\ closes' = closes /\ UNCHANGED <<boot, pending>> /\ closes = 0
    BY DEF ConsoleStep, IInv, ConsoleOK, bootVars, flowVars
  <1>4. \A u \in Threads : ~AtClose(u, pc'[u])
    BY <1>2 DEF IInv, ConsoleOK, PlaceOK, AtClose
  <1>5. pc'["waiter"] = n
    BY <1>1, <1>2
  <1>6. pc["waiter"] \notin Before("waiter")
    BY <1>2 DEF Before
  <1> QED
    BY <1>1, <1>2, <1>3, <1>4, <1>5, <1>6, ConsoleKeeps

-----------------------------------------------------------------------------
(* The bootstrap                                                           *)

\* A call of pty_windows_create_process, by its number: the next label has what
\* was held before, what the call acquired, without what it let go; its failure
\* leaves nothing.
LEMMA StageHolds ==
  ASSUME NEW i \in 1 .. Len(Stages)
  PROVE  /\ Stages[i] \in Early /\ StageAfter[i] \in Early
         /\ (Held(Stages[i]) \cup Acquires(Stages[i])) \ LetsGo(Stages[i]) = Held(StageAfter[i])
         /\ Held(Stages[i]) \ ClosesAll(Stages[i]) = {}
  <1>1. Len(Stages) = 10
    BY DEF Stages
  <1>2. i \in 1 .. 10 /\ StageAfter[i] = IF i = 10 THEN "platform" ELSE Stages[i + 1]
    BY <1>1 DEF StageAfter
  <1>3. /\ Stages[1] = "inputPipe" /\ Stages[2] = "outputPipe" /\ Stages[3] = "pseudoConsole"
        /\ Stages[4] = "createJob" /\ Stages[5] = "limitJob" /\ Stages[6] = "attributes"
        /\ Stages[7] = "setAttributes" /\ Stages[8] = "arguments"
        /\ Stages[9] = "createProcess" /\ Stages[10] = "assignJob"
    BY DEF Stages
  <1> DEFINE a == StageAfter[i]
             l == Stages[i]
  <1>4. \/ l = "inputPipe" /\ a = "outputPipe"
        \/ l = "outputPipe" /\ a = "pseudoConsole"
        \/ l = "pseudoConsole" /\ a = "createJob"
        \/ l = "createJob" /\ a = "limitJob"
        \/ l = "limitJob" /\ a = "attributes"
        \/ l = "attributes" /\ a = "setAttributes"
        \/ l = "setAttributes" /\ a = "arguments"
        \/ l = "arguments" /\ a = "createProcess"
        \/ l = "createProcess" /\ a = "assignJob"
        \/ l = "assignJob" /\ a = "platform"
    BY <1>2, <1>3
  <1> HIDE DEF a, l
  <1>5. l \in Early /\ a \in Early
    BY <1>4 DEF Early
  <1>6. (Held(l) \cup Acquires(l)) \ LetsGo(l) = Held(a)
    BY <1>4 DEF Held, Acquires, LetsGo
  <1>7. Held(l) \ ClosesAll(l) = {}
    BY <1>4 DEF Held, ClosesAll
  <1> QED
    BY <1>5, <1>6, <1>7 DEF a, l

\* The program it leaves.
LEMMA Programs ==
  ASSUME TypeInv
  PROVE  /\ Killed \in {"none", "suspended", "running", "dead"}
         /\ program \in {"none", "suspended", "running", "dead"}
  BY DEF TypeInv, Killed

\* The bootstrap changes the program and what it holds.
LEMMA ProgramStepKeeps ==
  ASSUME IInv, NEW l, NEW n \in Labels, NEW h, NEW s \in {"none", "suspended", "running", "dead"},
         ProgramStep(l, s, h, n), h = Held(n), n \notin {"inline", "unstartedInline"},
         n \in Early => l \in Early, l \in Before("boot") => n \in Before("boot")
  PROVE  IInv'
  <1>1. "boot" \in Threads
    BY DEF Threads, Workers
  <1>2. /\ Go("boot", l, n) /\ program' = s /\ boot' = [boot EXCEPT !.held = h]
        /\ UNCHANGED <<events, sessionVars, flags, console, closes, flowVars, dartVars>>
    BY DEF ProgramStep
  <1>3. h \subseteq Handles
    BY DEF Held, Handles
  <1>4. boot' \in [reserved : BOOLEAN, cancelled : BOOLEAN, held : SUBSET Handles]
        /\ boot'.held = Held(n)
    BY <1>2, <1>3 DEF IInv, BootOK
  <1>5. /\ pc' \in [Threads -> Labels] /\ pc["boot"] = l
        /\ \A u \in Threads : Shifts(u, IF u = "boot" THEN n ELSE pc[u], pc'[u])
    BY <1>1, <1>2, Went DEF IInv
  <1>6. TypeInv'
    BY <1>2, <1>5 DEF IInv, TypeInv, sessionVars, flowVars, dartVars
  <1>7. UNCHANGED <<console, closes, pending>>
    BY <1>2 DEF flowVars
  <1> QED
    BY <1>4, <1>5, <1>6, <1>7, BootKeeps

\* A call of pty_windows_create_process succeeds or fails.
LEMMA BootCreatesKeeps ==
  ASSUME IInv, NEW i \in 1 .. Len(Stages), BootCreates(i)
  PROVE  IInv'
  <1> DEFINE l == Stages[i]
             n == StageAfter[i]
             h == (boot.held \cup Acquires(l)) \ LetsGo(l)
             s == IF l = "createProcess" THEN "suspended" ELSE program
  <1>1. l \in Early /\ n \in Early
    BY StageHolds
  <1>2. n \in Labels /\ n \notin {"inline", "unstartedInline"} /\ n \in Before("boot")
    <2> HIDE DEF n, l
    <2>1. \A e \in Early : e \notin {"inline", "unstartedInline"} /\ e \in Before("boot")
      BY DEF Early, Before
    <2>2. n \in {Stages[j] : j \in 1 .. Len(Stages)} \cup {"platform"}
      BY DEF n, StageAfter, Stages
    <2>3. n \in Labels
      BY <2>2 DEF Labels
    <2> QED
      BY <1>1, <2>1, <2>3
  <1>3. CASE ProgramStep(l, s, h, n)
    <2>1. pc["boot"] = l
      BY <1>3 DEF ProgramStep, Go
    <2>2. boot.held = Held(l)
      BY <2>1 DEF IInv, BootOK
    <2>3. h = Held(n)
      BY <2>2, StageHolds
    <2>4. s \in {"none", "suspended", "running", "dead"}
      BY Programs DEF IInv
    <2> HIDE DEF l, n, h, s
    <2> QED
      BY <1>1, <1>2, <1>3, <2>3, <2>4, ProgramStepKeeps
  <1>4. CASE /\ MayFail("spawn") /\ Go("boot", l, "failed")
             /\ program' = Killed /\ boot' = [boot EXCEPT !.held = @ \ ClosesAll(l)]
             /\ UNCHANGED <<sessionVars, flags, console, closes, flowVars, dartVars>>
    <2>1. pc["boot"] = l /\ "boot" \in Threads
      BY <1>4 DEF Go, Threads, Workers
    <2>2. boot.held = Held(l)
      BY <2>1 DEF IInv, BootOK
    <2>3. boot' = [boot EXCEPT !.held = {}]
      BY <1>4, <2>2, StageHolds
    <2>4. Held("failed") = {} /\ "failed" \in Labels /\ "failed" \in Before("boot")
          /\ "failed" \notin Early
      BY DEF Held, Labels, Before, Early
    <2>5. boot' \in [reserved : BOOLEAN, cancelled : BOOLEAN, held : SUBSET Handles]
          /\ boot'.held = Held("failed")
      BY <2>3, <2>4 DEF IInv, BootOK
    <2>6. /\ pc' \in [Threads -> Labels]
          /\ \A u \in Threads : Shifts(u, IF u = "boot" THEN "failed" ELSE pc[u], pc'[u])
      BY <1>4, <2>1, <2>4, Went DEF IInv
    <2>7. events' \in 0 .. MaxEvents
      BY <1>4, WindowsAssumption DEF MayFail, Rarely, IInv, TypeInv
    <2> HIDE DEF l, n, h, s
    <2>8. TypeInv'
      BY <1>4, <2>6, <2>7, Programs DEF IInv, TypeInv, sessionVars, flowVars, dartVars
    <2>9. UNCHANGED <<console, closes, pending>>
      BY <1>4 DEF flowVars
    <2> QED
      BY <2>1, <2>4, <2>5, <2>6, <2>8, <2>9, BootKeeps
  <1> QED
    BY <1>3, <1>4 DEF BootCreates

\* The bootstrap stops the program and has no more use for its thread.
LEMMA BootStopsKeeps ==
  ASSUME IInv, NEW l, NEW n \in Labels, BootStops(l, n), Held(n) = Held(l) \ {"thread"},
         n \notin Early, n \notin {"inline", "unstartedInline"}, l \notin Before("boot")
  PROVE  IInv'
  <1>1. "boot" \in Threads
    BY DEF Threads, Workers
  <1>2. /\ pc["boot"] = l /\ pc' \in Interrupted([pc EXCEPT !["boot"] = n])
        /\ flags' = flags \cup {"stopping"} /\ program' = Killed
        /\ boot' = [boot EXCEPT !.held = @ \ {"thread"}]
        /\ UNCHANGED <<events, sessionVars, console, closes, flowVars, dartVars>>
    BY DEF BootStops
  <1>3. boot.held = Held(l)
    BY <1>2 DEF IInv, BootOK
  <1>4. boot' \in [reserved : BOOLEAN, cancelled : BOOLEAN, held : SUBSET Handles]
        /\ boot'.held = Held(n)
    BY <1>2, <1>3 DEF IInv, BootOK
  <1>5. /\ pc' \in [Threads -> Labels]
        /\ \A u \in Threads : Shifts(u, IF u = "boot" THEN n ELSE pc[u], pc'[u])
    BY <1>1, <1>2, Cut DEF IInv
  <1>6. TypeInv'
    BY <1>2, <1>5, CloseFlags, Programs DEF IInv, TypeInv, sessionVars, flowVars, dartVars
  <1>7. UNCHANGED <<console, closes, pending>>
    BY <1>2 DEF flowVars
  <1> QED
    BY <1>2, <1>4, <1>5, <1>6, <1>7, BootKeeps

\* The bootstrap creates a thread, for which it has retained the session.
LEMMA StartThreadKeeps ==
  ASSUME IInv, NEW l, NEW n, NEW w \in {"reader", "writer", "waiter"}, NEW f \in FlagNames,
         StartThread(l, w, f, n), Onward("boot", l, n), l \notin Before("boot")
  PROVE  IInv'
  <1>1. "boot" \in Threads /\ w \in Threads /\ w # "boot"
    BY DEF Threads, Workers
  <1>2. /\ pc["boot"] = l /\ pc' = [pc EXCEPT !["boot"] = n, ![w] = "top"]
        /\ flags' = flags \cup {f} /\ refCount' = refCount + 1
        /\ UNCHANGED <<bootVars, lifecycle, abandoned, handed, hostVars, flowVars, dartVars>>
    BY DEF StartThread
  <1>3. n \in Labels /\ "top" \in Labels
    BY DEF Onward, Labels
  <1>4. Published
    BY <1>1, <1>2 DEF IInv, ConsoleOK, PlaceOK, Published
  <1>5. /\ pc' \in [Threads -> Labels] /\ pc'[w] = "top"
        /\ \A u \in Threads \ {w} : pc'[u] = IF u = "boot" THEN n ELSE pc[u]
    BY <1>1, <1>2, <1>3 DEF IInv, TypeInv
  <1>6. \A u \in Threads : Shifts(u, IF u = "boot" THEN n ELSE pc[u], pc'[u])
    BY <1>4, <1>5 DEF Shifts
  <1>7. TypeInv'
    BY <1>2, <1>5 DEF IInv, TypeInv, bootVars, hostVars, flowVars, dartVars
  <1>8. Moves("boot", l, n)
    BY <1>2, <1>6, <1>7 DEF Moves, bootVars, hostVars, flowVars
  <1> QED
    BY <1>1, <1>8, OnwardKeeps

\* The bootstrap gives up, and reserves the close.
LEMMA GivesUpKeeps ==
  ASSUME IInv, NEW l, NEW c \in BOOLEAN, GivesUp(l, c), l \notin Before("boot"),
         Held(l) = {"thread"}
  PROVE  IInv'
  <1>1. "boot" \in Threads
    BY DEF Threads, Workers
  <1>2. /\ Held("stop") = {"thread"} /\ "stop" \in Labels /\ "stop" \notin Early
        /\ "stop" \notin {"inline", "unstartedInline"}
    BY DEF Held, Labels, Early
  <1>3. /\ Go("boot", l, "stop")
        /\ boot' = [boot EXCEPT !.reserved = "closeStarted" \notin flags, !.cancelled = c]
        /\ flags' = flags \cup {"closeStarted"}
        /\ UNCHANGED <<events, sessionVars, hostVars, flowVars, dartVars>>
    BY DEF GivesUp
  <1>4. boot.held = {"thread"} /\ pc["boot"] = l
    BY <1>3 DEF Go, IInv, BootOK
  <1>5. boot' \in [reserved : BOOLEAN, cancelled : BOOLEAN, held : SUBSET Handles]
        /\ boot'.held = Held("stop")
    BY <1>2, <1>3, <1>4 DEF IInv, BootOK
  <1>6. /\ pc' \in [Threads -> Labels]
        /\ \A u \in Threads : Shifts(u, IF u = "boot" THEN "stop" ELSE pc[u], pc'[u])
    BY <1>1, <1>2, <1>3, Went DEF IInv
  <1>7. TypeInv'
    BY <1>3, <1>6, CloseFlags DEF IInv, TypeInv, sessionVars, hostVars, flowVars, dartVars
  <1>8. UNCHANGED <<console, closes, pending>>
    BY <1>3 DEF hostVars, flowVars
  <1> QED
    BY <1>2, <1>4, <1>5, <1>6, <1>7, <1>8, BootKeeps

\* The platform is stored: from here on the console belongs to the session.
LEMMA PlatformKeeps ==
  ASSUME IInv, Go("boot", "platform", "check"), console' = "OWNED",
         boot' = [boot EXCEPT !.held = @ \ PlatformHandles],
         UNCHANGED <<events, sessionVars, flags, closes, program, flowVars, dartVars>>
  PROVE  IInv'
  <1>1. "boot" \in Threads /\ "check" \in Labels
    BY DEF Threads, Workers, Labels
  <1>2. pc["boot"] = "platform" /\ pc' = [pc EXCEPT !["boot"] = "check"]
    BY DEF Go
  <1>3. /\ pc' \in [Threads -> Labels]
        /\ \A u \in Threads : pc'[u] = IF u = "boot" THEN "check" ELSE pc[u]
    BY <1>1, <1>2 DEF IInv, TypeInv
  <1>4. TypeInv'
    BY <1>3 DEF IInv, TypeInv, sessionVars, flowVars, dartVars
  <1>5. console = "none" /\ closes = 0
    <2>1. "platform" \in Early
      BY DEF Early
    <2> QED
      BY <1>1, <1>2, <2>1 DEF IInv, ConsoleOK, PlaceOK
  <1>6. \A u \in Threads : pc[u] \in Before(u)
    BY <1>5 DEF IInv, ConsoleOK, PlaceOK
  <1>7. \A u \in Threads : ~AtClose(u, pc'[u])
    BY <1>3, <1>6 DEF AtClose, Before, Early
  <1>8. /\ pc'["boot"] = "check" /\ pc'["waiter"] = "off" /\ pc'["writer"] = "off"
    BY <1>3, <1>6 DEF Before, Threads, Workers
  <1>9. ConsoleOK'
    <2>1. "check" \notin Early
      BY DEF Early
    <2>2. \A u \in Threads : PlaceOK(u, pc'[u], "OWNED")
      BY <1>7, <1>8, <2>1 DEF PlaceOK
    <2> QED
      BY <1>5, <1>7, <2>2 DEF ConsoleOK
  <1>10. BootOK'
    <2>1. boot.held = Held("platform")
      BY <1>2 DEF IInv, BootOK
    <2>2. boot.held \ PlatformHandles = Held("check")
      BY <2>1 DEF Held, PlatformHandles
    <2> QED
      BY <1>8, <2>2 DEF IInv, BootOK
  <1>11. QueueOK'
    BY <1>8 DEF QueueOK, WritingAt
  <1> QED
    BY <1>4, <1>9, <1>10, <1>11 DEF IInv

\* No process, or no platform for it.
LEMMA BootFailsKeeps ==
  ASSUME IInv, BootFails
  PROVE  IInv'
  <1>1. "boot" \in Threads
    BY DEF Threads, Workers
  <1>2. CASE Fails("memory", "boot", "platform", "kill")
    <2>1. Onward("boot", "platform", "kill")
      BY DEF Onward, AtClose, Labels, Early, Held, Before, WritingAt
    <2> QED
      BY <1>1, <1>2, <2>1, FailsKeep
  <1>3. CASE ProgramStep("kill", "dead", boot.held \ (PlatformHandles \cup {"thread"}), "failed")
    <2>1. boot.held = Held("kill")
      BY <1>3 DEF ProgramStep, Go, IInv, BootOK
    <2>2. boot.held \ (PlatformHandles \cup {"thread"}) = Held("failed")
      BY <2>1 DEF Held, PlatformHandles
    <2>3. "failed" \in Labels /\ "failed" \notin Early /\ "failed" \in Before("boot")
      BY DEF Labels, Early, Before
    <2> QED
      BY <1>3, <2>2, <2>3, ProgramStepKeeps
  <1>4. CASE PostStep("boot", "failed", "SPAWN_FAILED", "failedOutput")
    <2>1. Onward("boot", "failed", "failedOutput")
      BY DEF Onward, AtClose, Labels, Early, Held, Before, WritingAt
    <2> QED
      BY <1>1, <1>4, <2>1, PostStepKeeps
  <1>5. CASE PostStep("boot", "failedOutput", "OUTPUT_CLOSED", "markClosed")
    <2>1. Onward("boot", "failedOutput", "markClosed")
      BY DEF Onward, AtClose, Labels, Early, Held, Before, WritingAt
    <2> QED
      BY <1>1, <1>5, <2>1, PostStepKeeps
  <1> QED
    BY <1>2, <1>3, <1>4, <1>5 DEF BootFails

\* A session that never had threads is over.
LEMMA BootMarksClosedKeeps ==
  ASSUME IInv, BootMarksClosed
  PROVE  IInv'
  <1>1. /\ "boot" \in Threads
        /\ Onward("boot", "markClosed", "sessionClosed")
        /\ Onward("boot", "sessionClosed", "release")
    BY DEF Threads, Workers, Onward, AtClose, Labels, Early, Held, Before, WritingAt
  <1> QED
    BY <1>1, LifeStepKeeps, PostStepKeeps DEF BootMarksClosed

\* A close that came before the platform.
LEMMA BootFinishesUnstartedKeeps ==
  ASSUME IInv, BootFinishesUnstarted
  PROVE  IInv'
  <1>1. "boot" \in Threads /\ "boot" \in Threads \ {"console", "writer"}
    BY DEF Threads, Workers
  <1>2. CASE BootStops("unstarted", "unstartedClose")
    <2>1. /\ Held("unstartedClose") = Held("unstarted") \ {"thread"}
          /\ "unstartedClose" \in Labels /\ "unstartedClose" \notin Early
          /\ "unstarted" \notin Before("boot")
      BY DEF Held, Labels, Early, Before
    <2> QED
      BY <1>2, <2>1, BootStopsKeeps
  <1>3. CASE Closes("boot", "unstartedClose", "unstartedInline", "unstartedWait", "unstartedFlags")
    <2>1. /\ Onward("boot", "unstartedClose", "unstartedWait")
          /\ Onward("boot", "unstartedWait", "unstartedFlags")
          /\ "unstartedWait" \in Labels /\ "unstartedFlags" \in Labels
          /\ "unstartedClose" \notin Before("boot")
          /\ Held("unstartedClose") = {} /\ Held("unstartedWait") = {}
          /\ "unstartedWait" \notin Early
      BY DEF Onward, AtClose, Labels, Early, Held, Before, WritingAt
    <2> QED
      BY <1>1, <1>3, <2>1, ClosesKeeps
  <1>4. CASE FlagStep("boot", "unstartedFlags", AllParts \cup {"closedPosted"}, "unstartedAnswer")
    <2>1. Onward("boot", "unstartedFlags", "unstartedAnswer")
      BY DEF Onward, AtClose, Labels, Early, Held, Before, WritingAt
    <2>2. AllParts \cup {"closedPosted"} \in SUBSET FlagNames
      BY DEF FlagNames
    <2> QED
      BY <1>1, <1>4, <2>1, <2>2, FlagStepKeeps
  <1>5. /\ Onward("boot", "unstartedAnswer", "unstartedOutput")
        /\ Onward("boot", "unstartedOutput", "unstartedInput")
        /\ Onward("boot", "unstartedInput", "markClosed")
    BY DEF Onward, AtClose, Labels, Early, Held, Before, WritingAt
  <1>6. CASE PostStep("boot", "unstartedAnswer", "SPAWN_FAILED", "unstartedOutput")
    BY <1>1, <1>5, <1>6, PostStepKeeps
  <1>7. CASE OutputClosed("boot", "unstartedOutput", "unstartedInput")
    BY <1>1, <1>5, <1>7, OutputClosedKeeps
  <1>8. CASE InputClosed("boot", "unstartedInput", "markClosed")
    BY <1>1, <1>5, <1>8, InputClosedKeeps
  <1> QED
    BY <1>2, <1>3, <1>4, <1>6, <1>7, <1>8 DEF BootFinishesUnstarted

\* The platform and the threads.
LEMMA BootStartsKeeps ==
  ASSUME IInv, BootStarts
  PROVE  IInv'
  <1>1. /\ "boot" \in Threads
        /\ {"readerStarted", "writerStarted", "waiterStarted"} \subseteq FlagNames
    BY DEF Threads, Workers, FlagNames, StartedFlags
  <1>2. /\ Onward("boot", "check", "unstarted") /\ Onward("boot", "check", "reader")
        /\ Onward("boot", "reader", "writer") /\ Onward("boot", "writer", "waiter")
        /\ Onward("boot", "waiter", "started")
    BY DEF Onward, AtClose, Labels, Early, Held, Before, WritingAt
  <1>3. \A l \in {"reader", "writer", "waiter"} : l \notin Before("boot")
    BY DEF Before, Early
  <1>4. CASE Go("boot", "platform", "check") /\ console' = "OWNED"
             /\ boot' = [boot EXCEPT !.held = @ \ PlatformHandles]
             /\ UNCHANGED <<events, sessionVars, flags, closes, program, flowVars, dartVars>>
    BY <1>4, PlatformKeeps
  <1>5. CASE FlagStep("boot", "check", {}, IF lifecycle = "CLOSING" THEN "unstarted" ELSE "reader")
    BY <1>1, <1>2, <1>5, LookKeeps
  <1>6. CASE \/ StartThread("reader", "reader", "readerStarted", "writer")
             \/ StartThread("writer", "writer", "writerStarted", "waiter")
             \/ StartThread("waiter", "waiter", "waiterStarted", "started")
    BY <1>1, <1>2, <1>3, <1>6, StartThreadKeeps
  <1>7. CASE \/ Fails("reader", "boot", "reader", "writer")
             \/ Fails("writer", "boot", "writer", "waiter")
             \/ Fails("waiter", "boot", "waiter", "started")
    BY <1>1, <1>2, <1>7, FailsKeep
  <1> QED
    BY <1>4, <1>5, <1>6, <1>7 DEF BootStarts

\* The program runs.
LEMMA BootRunsKeeps ==
  ASSUME IInv, BootRuns
  PROVE  IInv'
  <1>1. "boot" \in Threads
    BY DEF Threads, Workers
  <1>2. Onward("boot", "started", "resume") /\ Onward("boot", "spawned", "release")
    BY DEF Onward, AtClose, Labels, Early, Held, Before, WritingAt
  <1>3. CASE LifeStep("boot", "started", "RUNNING", "resume")
    BY <1>1, <1>2, <1>3, LifeStepKeeps
  <1>4. CASE ProgramStep("resume", IF program = "suspended" THEN "running" ELSE program,
                         boot.held \ {"thread"}, "spawned")
    <2> DEFINE s == IF program = "suspended" THEN "running" ELSE program
    <2>1. boot.held = Held("resume")
      BY <1>4 DEF ProgramStep, Go, IInv, BootOK
    <2>2. boot.held \ {"thread"} = Held("spawned")
      BY <2>1 DEF Held
    <2>3. "spawned" \in Labels /\ "spawned" \notin Early /\ "resume" \notin Before("boot")
      BY DEF Labels, Early, Before
    <2>4. /\ s \in {"none", "suspended", "running", "dead"}
          /\ ProgramStep("resume", s, boot.held \ {"thread"}, "spawned")
      BY <1>4, Programs DEF IInv
    <2> HIDE DEF s
    <2> QED
      BY <2>2, <2>3, <2>4, ProgramStepKeeps
  <1>5. CASE PostStep("boot", "spawned", "SPAWNED", "release")
    BY <1>1, <1>2, <1>5, PostStepKeeps
  <1> QED
    BY <1>3, <1>4, <1>5 DEF BootRuns

\* The startup fails or is cancelled with threads at work.
LEMMA BootGivesUpKeeps ==
  ASSUME IInv, BootGivesUp
  PROVE  IInv'
  <1>1. /\ "boot" \in Threads /\ Onward("boot", "resume", "unresumed")
        /\ "started" \notin Before("boot") /\ "unresumed" \notin Before("boot")
        /\ Held("started") = {"thread"} /\ Held("unresumed") = {"thread"}
    BY DEF Threads, Workers, Onward, AtClose, Labels, Early, Held, Before, WritingAt
  <1>2. CASE GivesUp("started", FALSE) \/ GivesUp("started", TRUE) \/ GivesUp("unresumed", FALSE)
    BY <1>1, <1>2, GivesUpKeeps
  <1>3. CASE Fails("resume", "boot", "resume", "unresumed")
    BY <1>1, <1>3, FailsKeep
  <1> QED
    BY <1>2, <1>3 DEF BootGivesUp

\* The bootstrap closes the session it failed to start.
LEMMA BootTearsDownKeeps ==
  ASSUME IInv, BootTearsDown
  PROVE  IInv'
  <1>1. "boot" \in Threads /\ "boot" \in Threads \ {"console", "writer"}
    BY DEF Threads, Workers
  <1>2. /\ Onward("boot", "join", "close") /\ Onward("boot", "close", "wait")
        /\ Onward("boot", "wait", "account") /\ Onward("boot", "account", "answer")
        /\ Onward("boot", "account", "mark") /\ Onward("boot", "mark", "answer")
        /\ Onward("boot", "outputClosed", "inputClosed") /\ Onward("boot", "inputClosed", "maybe")
    BY DEF Onward, AtClose, Labels, Early, Held, Before, WritingAt
  <1>3. CASE BootStops("stop", "join")
    <2>1. /\ Held("join") = Held("stop") \ {"thread"} /\ "join" \in Labels
          /\ "join" \notin Early /\ "stop" \notin Before("boot")
      BY DEF Held, Labels, Early, Before
    <2> QED
      BY <1>3, <2>1, BootStopsKeeps
  <1>4. CASE FlagStep("boot", "join", {}, "close")
    BY <1>1, <1>2, <1>4, LookKeeps
  <1>5. CASE Closes("boot", "close", "inline", "wait", "account")
    <2>1. /\ "wait" \in Labels /\ "account" \in Labels /\ "close" \notin Before("boot")
          /\ Held("close") = {} /\ Held("wait") = {} /\ "wait" \notin Early
      BY DEF Held, Labels, Early, Before
    <2> QED
      BY <1>1, <1>2, <1>5, <2>1, ClosesKeeps
  <1>6. CASE FlagStep("boot", "account",
                      NeverRan \cup (IF boot.reserved THEN {"closeDone"} ELSE {}),
                      IF boot.cancelled THEN "answer" ELSE "mark")
    <2>1. NeverRan \cup (IF boot.reserved THEN {"closeDone"} ELSE {}) \in SUBSET FlagNames
      BY DEF NeverRan, FlagNames, AllParts
    <2> QED
      BY <1>1, <1>2, <1>6, <2>1, FlagStepKeeps
  <1>7. CASE LifeStep("boot", "mark", "CLOSING", "answer")
    BY <1>1, <1>2, <1>7, LifeStepKeeps
  <1>8. CASE OutputClosed("boot", "outputClosed", "inputClosed")
    BY <1>1, <1>2, <1>8, OutputClosedKeeps
  <1>9. CASE InputClosed("boot", "inputClosed", "maybe")
    BY <1>1, <1>2, <1>9, InputClosedKeeps
  <1> QED
    BY <1>3, <1>4, <1>5, <1>6, <1>7, <1>8, <1>9 DEF BootTearsDown

\* Every step of the bootstrap.
LEMMA BootThreadKeeps ==
  ASSUME IInv, Boot
  PROVE  IInv'
  <1>1. "boot" \in Threads
    BY DEF Threads, Workers
  <1>2. CASE BootAnswers
    <2>1. Onward("boot", "answer", "maybe") /\ Onward("boot", "answer", "outputClosed")
      BY DEF Onward, AtClose, Labels, Early, Held, Before, WritingAt
    <2> QED
      BY <1>1, <1>2, <2>1, PostStepKeeps DEF BootAnswers
  <1>3. CASE \E i \in 1 .. Len(Stages) : BootCreates(i)
    BY <1>3, BootCreatesKeeps
  <1> QED
    BY <1>1, <1>2, <1>3, BootFailsKeeps, BootMarksClosedKeeps, BootFinishesUnstartedKeeps,
       BootStartsKeeps, BootRunsKeeps, BootGivesUpKeeps, BootTearsDownKeeps, EndingKeeps DEF Boot

-----------------------------------------------------------------------------
(* The reader, the writer, the waiter and the close thread                 *)

\* The reader, and what it takes off its credit.
LEMMA ReaderKeeps ==
  ASSUME IInv, Reader \/ ReaderReads
  PROVE  IInv'
  <1>1. "reader" \in Threads /\ {"readerDone"} \in SUBSET FlagNames
    BY DEF Threads, Workers, FlagNames, AllParts
  <1>2. /\ Onward("reader", "top", "closing") /\ Onward("reader", "top", "read")
        /\ Onward("reader", "read", "charge") /\ Onward("reader", "charge", "top")
        /\ Onward("reader", "charge", "closing") /\ Onward("reader", "read", "failed")
        /\ Onward("reader", "failed", "closing") /\ Onward("reader", "closing", "done")
        /\ Onward("reader", "done", "maybe")
    BY DEF Onward, AtClose, Labels, Early, Held, Before, WritingAt
  <1>3. CASE ReaderWaits \/ ReaderReads
    BY <1>1, <1>2, <1>3, LookKeeps DEF ReaderWaits, ReaderReads
  <1>4. CASE ReaderPosts
    <2>1. CASE FlagStep("reader", "charge", {}, "top") \/ FlagStep("reader", "charge", {}, "closing")
      BY <1>1, <1>2, <2>1, LookKeeps
    <2>2. CASE /\ Go("reader", "charge", "top")
               /\ credit' = IF credit > 0 THEN credit - 1 ELSE 0
               /\ UNCHANGED <<bootVars, sessionVars, flags, hostVars, pending, dartVars>>
      <3>1. "top" \in Labels
        BY DEF Labels
      <3>2. credit' \in 0 .. Window
        BY <2>2, WindowsAssumption DEF IInv, TypeInv
      <3>3. TypeInv'
        BY <1>1, <2>2, <3>1, <3>2, Went DEF IInv, TypeInv, bootVars, sessionVars, hostVars, dartVars
      <3>4. Moves("reader", "charge", "top")
        BY <1>1, <2>2, <3>1, <3>3, Went DEF IInv, Moves, bootVars, hostVars
      <3> QED
        BY <1>1, <1>2, <3>4, OnwardKeeps
    <2>3. CASE pc["reader"] = "charge" /\ Abandon("reader", {}, "closing")
      <3>1. "closing" \in Labels /\ {} \in SUBSET FlagNames
        BY DEF Labels
      <3>2. Moves("reader", "charge", "closing")
        BY <1>1, <2>3, <3>1, AbandonMoves DEF IInv
      <3> QED
        BY <1>1, <1>2, <3>2, OnwardKeeps
    <2> QED
      BY <1>4, <2>1, <2>2, <2>3 DEF ReaderPosts
  <1>5. CASE ReaderLeaves
    <2>1. CASE FlagStep("reader", "read", {}, "failed") \/ FlagStep("reader", "failed", {}, "closing")
      BY <1>1, <1>2, <2>1, LookKeeps
    <2>2. CASE PostStep("reader", "failed", "ASYNC_ERROR", "closing")
      BY <1>1, <1>2, <2>2, PostStepKeeps
    <2>3. CASE OutputClosed("reader", "closing", "done")
      BY <1>1, <1>2, <2>3, OutputClosedKeeps
    <2>4. CASE FlagStep("reader", "done", {"readerDone"}, "maybe")
      BY <1>1, <1>2, <2>4, FlagStepKeeps
    <2>5. CASE Ending("reader")
      BY <1>1, <2>5, EndingKeeps
    <2> QED
      BY <1>5, <2>1, <2>2, <2>3, <2>4, <2>5 DEF ReaderLeaves
  <1> QED
    BY <1>3, <1>4, <1>5 DEF Reader

\* The writer puts down its chunk, or all of the queue.
LEMMA WriterPutsDown ==
  ASSUME IInv, NEW l, NEW n \in Labels, Go("writer", l, n), l # "off",
         n \notin WritingAt, n \notin {"inline", "unstartedInline"},
         pending' \in 0 .. Limit, flags' \subseteq FlagNames,
         UNCHANGED <<bootVars, sessionVars, hostVars, credit, dartVars>>
  PROVE  IInv'
  <1>1. "writer" \in Threads /\ "boot" \in Threads /\ "boot" # "writer"
    BY DEF Threads, Workers
  <1>2. /\ pc' \in [Threads -> Labels] /\ pc["writer"] = l
        /\ \A u \in Threads : pc'[u] = IF u = "writer" THEN n ELSE pc[u]
    BY <1>1 DEF Go, IInv, TypeInv
  <1>3. TypeInv'
    BY <1>2 DEF IInv, TypeInv, bootVars, sessionVars, hostVars, dartVars
  <1>4. PlaceOK("writer", n, console) /\ ~AtClose("writer", n)
    BY <1>1, <1>2 DEF IInv, ConsoleOK, PlaceOK, AtClose, Before
  <1>5. ConsoleOK'
    BY <1>2, <1>4 DEF IInv, ConsoleOK, hostVars
  <1>6. BootOK'
    BY <1>1, <1>2 DEF IInv, BootOK, bootVars
  <1>7. QueueOK'
    BY <1>1, <1>2 DEF QueueOK
  <1> QED
    BY <1>3, <1>5, <1>6, <1>7 DEF IInv

\* The writer takes a chunk, writes it and puts it down.
LEMMA WriterKeeps ==
  ASSUME IInv, Writer \/ WriterWrites
  PROVE  IInv'
  <1>1. "writer" \in Threads /\ {"writerDone"} \in SUBSET FlagNames
    BY DEF Threads, Workers, FlagNames, AllParts
  <1>2. /\ Onward("writer", "top", "closing") /\ Onward("writer", "writable", "write")
        /\ Onward("writer", "write", "written") /\ Onward("writer", "written", "complete")
        /\ Onward("writer", "drained", "top") /\ Onward("writer", "write", "unwritten")
        /\ Onward("writer", "unwritten", "discard") /\ Onward("writer", "closing", "done")
        /\ Onward("writer", "done", "maybe")
    BY DEF Onward, AtClose, Labels, Early, Held, Before, WritingAt
  <1>3. flags \ {"backpressured"} \subseteq FlagNames
    BY DEF IInv, TypeInv
  <1>4. CASE WriterTakes
    <2>1. CASE FlagStep("writer", "top", {}, "closing")
      BY <1>1, <1>2, <2>1, LookKeeps
    <2>2. CASE Queued > 0 /\ MaybeWritable("top", pending, "writable", "write")
      <3> DEFINE n == IF "backpressured" \in flags /\ LowWater(pending) THEN "writable" ELSE "write"
      <3>1. /\ Go("writer", "top", n) /\ pending' = pending
            /\ flags' = flags \ {"backpressured"} \/ flags' = flags
            /\ UNCHANGED <<bootVars, sessionVars, hostVars, credit, dartVars>>
        BY <2>2 DEF MaybeWritable
      <3>2. n \in Labels /\ ~AtClose("writer", n) /\ n \notin {"off"}
        BY DEF Labels, AtClose
      <3> HIDE DEF n
      <3>3. pc["writer"] = "top"
        BY <3>1 DEF Go
      <3>4. pending > 0
        BY <2>2, <3>3 DEF Queued, Writing, IInv, TypeInv
      <3>5. /\ pc' \in [Threads -> Labels]
            /\ \A u \in Threads : Shifts(u, IF u = "writer" THEN n ELSE pc[u], pc'[u])
        BY <1>1, <3>1, <3>2, Went DEF IInv
      <3>6. TypeInv'
        BY <1>3, <3>1, <3>5 DEF IInv, TypeInv, bootVars, sessionVars, hostVars, dartVars
      <3>7. Moves("writer", "top", n)
        BY <3>1, <3>3, <3>5, <3>6 DEF Moves, bootVars, hostVars
      <3>8. PlaceOK("writer", n, console)
        BY <1>1, <3>2, <3>3 DEF IInv, ConsoleOK, PlaceOK, Before
      <3> QED
        BY <1>1, <3>2, <3>4, <3>7, <3>8, MovesKeep
    <2>3. CASE PostStep("writer", "writable", "WRITABLE", "write")
      BY <1>1, <1>2, <2>3, PostStepKeeps
    <2> QED
      BY <1>4, <2>1, <2>2, <2>3 DEF WriterTakes
  <1>5. CASE WriterWrites
    BY <1>1, <1>2, <1>5, LookKeeps DEF WriterWrites
  <1>6. CASE WriterCompletes
    <2>1. CASE PostStep("writer", "written", "WRITE_COMPLETE", "complete")
      BY <1>1, <1>2, <2>1, PostStepKeeps
    <2>2. CASE MaybeWritable("complete", pending - 1, "drained", "top")
      <3> DEFINE n == IF "backpressured" \in flags /\ LowWater(pending - 1) THEN "drained" ELSE "top"
      <3>1. /\ Go("writer", "complete", n) /\ pending' = pending - 1
            /\ flags' = flags \ {"backpressured"} \/ flags' = flags
            /\ UNCHANGED <<bootVars, sessionVars, hostVars, credit, dartVars>>
        BY <2>2 DEF MaybeWritable
      <3>2. n \in Labels /\ n \notin WritingAt /\ n \notin {"inline", "unstartedInline"}
        BY DEF Labels, WritingAt
      <3> HIDE DEF n
      <3>3. pending > 0
        BY <3>1 DEF Go, IInv, QueueOK, WritingAt
      <3>4. pending' \in 0 .. Limit
        BY <3>1, <3>3, WindowsAssumption DEF IInv, TypeInv
      <3>5. flags' \subseteq FlagNames
        BY <1>3, <3>1 DEF IInv, TypeInv
      <3> QED
        BY <3>1, <3>2, <3>4, <3>5, WriterPutsDown
    <2>3. CASE PostStep("writer", "drained", "WRITABLE", "top")
      BY <1>1, <1>2, <2>3, PostStepKeeps
    <2> QED
      BY <1>6, <2>1, <2>2, <2>3 DEF WriterCompletes
  <1>7. CASE WriterLeaves
    <2>1. CASE FlagStep("writer", "write", {}, "unwritten")
      BY <1>1, <1>2, <2>1, LookKeeps
    <2>2. CASE InputClosed("writer", "unwritten", "discard") \/ InputClosed("writer", "closing", "done")
      BY <1>1, <1>2, <2>2, InputClosedKeeps
    <2>3. CASE /\ Go("writer", "discard", "closing")
               /\ pending' = 0 /\ flags' = flags \ {"backpressured"}
               /\ UNCHANGED <<bootVars, sessionVars, hostVars, credit, dartVars>>
      <3>1. "closing" \in Labels /\ "closing" \notin WritingAt
        BY DEF Labels, WritingAt
      <3>2. pending' \in 0 .. Limit
        BY <2>3, WindowsAssumption
      <3> QED
        BY <1>3, <2>3, <3>1, <3>2, WriterPutsDown
    <2>4. CASE FlagStep("writer", "done", {"writerDone"}, "maybe")
      BY <1>1, <1>2, <2>4, FlagStepKeeps
    <2>5. CASE Ending("writer")
      BY <1>1, <2>5, EndingKeeps
    <2> QED
      BY <1>7, <2>1, <2>2, <2>3, <2>4, <2>5 DEF WriterLeaves
  <1> QED
    BY <1>4, <1>5, <1>6, <1>7 DEF Writer

\* The waiter reports the exit and gives the console up.
LEMMA WaiterKeeps ==
  ASSUME IInv, Waiter
  PROVE  IInv'
  <1>1. /\ "waiter" \in Threads /\ "waiter" \in Threads \ {"console", "writer"}
        /\ {"exited"} \in SUBSET FlagNames /\ {"exited", "waiterDone"} \in SUBSET FlagNames
    BY DEF Threads, Workers, FlagNames, AllParts
  <1>2. /\ Onward("waiter", "top", "exit") /\ Onward("waiter", "exit", "ownership")
        /\ Onward("waiter", "unreadable", "ownership") /\ Onward("waiter", "ownership", "done")
        /\ Onward("waiter", "ownership", "close") /\ Onward("waiter", "close", "done")
        /\ Onward("waiter", "waitFailed", "done") /\ Onward("waiter", "done", "maybe")
    BY DEF Onward, AtClose, Labels, Early, Held, Before, WritingAt
  <1>3. CASE FlagStep("waiter", "top", {"exited"}, "exit")
             \/ FlagStep("waiter", "done", {"exited", "waiterDone"}, "maybe")
    BY <1>1, <1>2, <1>3, FlagStepKeeps
  <1>4. CASE \/ PostStep("waiter", "exit", "PROCESS_EXIT", "ownership")
             \/ PostStep("waiter", "unreadable", "ASYNC_ERROR", "ownership")
             \/ PostStep("waiter", "waitFailed", "ASYNC_ERROR", "done")
    BY <1>1, <1>2, <1>4, PostStepKeeps
  <1>5. CASE Releases
    <2>1. CASE FlagStep("waiter", "ownership", {}, "done")
      BY <1>1, <1>2, <2>1, LookKeeps
    <2>2. CASE Fails("release", "waiter", "ownership", "close")
      BY <1>1, <1>2, <2>2, FailsKeep
    <2>3. CASE console = "OWNED" /\ ConsoleStep("waiter", "ownership", "RELEASING", "releasing")
      BY <2>3, WaiterConsoleKeeps
    <2>4. pc["waiter"] \in {"releasing", "unreleased"} => console = "RELEASING"
      BY <1>1 DEF IInv, ConsoleOK, PlaceOK
    <2>5. CASE ConsoleStep("waiter", "releasing", "RELEASED", "done")
      BY <2>4, <2>5, WaiterConsoleKeeps DEF ConsoleStep, Go
    <2>6. CASE ConsoleStep("waiter", "unreleased", "OWNED", "close")
      BY <2>4, <2>6, WaiterConsoleKeeps DEF ConsoleStep, Go
    <2>7. CASE Fails("release", "waiter", "releasing", "unreleased")
      <3>1. "unreleased" \in Labels
        BY DEF Labels
      <3>2. Moves("waiter", "releasing", "unreleased")
        BY <1>1, <2>7, <3>1, FailsMoves DEF IInv
      <3>3. PlaceOK("waiter", "unreleased", console) /\ ~AtClose("waiter", "unreleased")
        BY <2>4, <3>2 DEF Moves, PlaceOK, AtClose
      <3> QED
        BY <1>1, <3>2, <3>3, MovesKeep
    <2>8. CASE StartClose("waiter", "close", "inline", "done")
      <3>1. "done" \in Labels /\ "close" \notin Before("waiter")
        BY DEF Labels, Before
      <3> QED
        BY <1>1, <1>2, <2>8, <3>1, StartCloseKeeps
    <2> QED
      BY <1>5, <2>1, <2>2, <2>3, <2>5, <2>6, <2>7, <2>8 DEF Releases
  <1>6. CASE Ending("waiter")
    BY <1>1, <1>6, EndingKeeps
  <1> QED
    BY <1>3, <1>4, <1>5, <1>6 DEF Waiter

\* The close thread.
LEMMA CloserKeeps ==
  ASSUME IInv, Closer
  PROVE  IInv'
  <1>1. /\ "closer" \in Threads /\ "closer" \in Threads \ {"console", "writer"}
        /\ {"closeDone"} \in SUBSET FlagNames
    BY DEF Threads, Workers, FlagNames, AllParts
  <1>2. /\ Onward("closer", "stop", "close") /\ Onward("closer", "close", "wait")
        /\ Onward("closer", "wait", "done") /\ Onward("closer", "done", "maybe")
        /\ "wait" \in Labels /\ "done" \in Labels /\ "close" \notin Before("closer")
    BY DEF Onward, AtClose, Labels, Early, Held, Before, WritingAt
  <1>3. CASE StopStep("closer", "stop", "close")
    BY <1>1, <1>2, <1>3, StopStepKeeps
  <1>4. CASE Closes("closer", "close", "inline", "wait", "done")
    BY <1>1, <1>2, <1>4, ClosesKeeps
  <1>5. CASE FlagStep("closer", "done", {"closeDone"}, "maybe")
    BY <1>1, <1>2, <1>5, FlagStepKeeps
  <1>6. CASE Ending("closer")
    BY <1>1, <1>6, EndingKeeps
  <1> QED
    BY <1>3, <1>4, <1>5, <1>6 DEF Closer

\* Calls of the console and of the process that fail.
LEMMA CallsFailKeeps ==
  ASSUME IInv, CallsFail
  PROVE  IInv'
  <1>1. {"reader", "writer", "waiter"} \subseteq Threads
    BY DEF Threads, Workers
  <1>2. /\ Onward("reader", "read", "failed") /\ Onward("writer", "write", "unwritten")
        /\ Onward("waiter", "top", "waitFailed") /\ Onward("waiter", "exit", "unreadable")
    BY DEF Onward, AtClose, Labels, Early, Held, Before, WritingAt
  <1> QED
    BY <1>1, <1>2, FailsKeep DEF CallsFail

-----------------------------------------------------------------------------
(* The isolate, the user and the program                                   *)

\* A step at which no thread moves.
LEMMA AsideKeeps ==
  ASSUME IInv, TypeInv', UNCHANGED <<pc, boot>>, pending' >= pending,
         \/ UNCHANGED <<console, closes>>
         \/ console \in {"OWNED", "RELEASED"} /\ console' = "CLOSED" /\ closes' = closes + 1
  PROVE  IInv'
  <1>1. BootOK'
    BY DEF IInv, BootOK
  <1>2. QueueOK'
    BY DEF IInv, QueueOK, TypeInv
  <1>3. CASE UNCHANGED <<console, closes>>
    BY <1>1, <1>2, <1>3 DEF IInv, ConsoleOK
  <1>4. CASE console \in {"OWNED", "RELEASED"} /\ console' = "CLOSED" /\ closes' = closes + 1
    <2>1. \A u \in Threads : PlaceOK(u, pc[u], console') /\ ~AtClose(u, pc[u])
      BY <1>4 DEF IInv, ConsoleOK, PlaceOK
    <2>2. closes' = 1
      BY <1>4 DEF IInv, ConsoleOK
    <2>3. ConsoleOK'
      BY <1>4, <2>1, <2>2 DEF ConsoleOK
    <2> QED
      BY <1>1, <1>2, <2>3 DEF IInv
  <1> QED
    BY <1>3, <1>4

\* Dart acts on what it was told, and calls.
LEMMA DartCallsKeeps ==
  ASSUME IInv, NEW l, NEW n, NEW d, pc["owner"] = l, Onward("owner", l, n), DartCalls(n, d)
  PROVE  IInv'
  <1>1. "owner" \in Threads /\ n \in Labels
    BY DEF Threads, Onward
  <1>2. Go("owner", l, n)
    BY DEF DartCalls, Go
  <1>3. TypeInv'
    BY <1>1, <1>2, Went DEF DartCalls, ownerFrame, bootVars, sessionVars, hostVars, flowVars,
       IInv, TypeInv
  <1>4. Moves("owner", l, n)
    BY <1>1, <1>2, <1>3, Went DEF DartCalls, ownerFrame, bootVars, hostVars, flowVars, IInv, Moves
  <1> QED
    BY <1>1, <1>4, OnwardKeeps

\* pty_session_begin_close creates the close thread, and drops its own reference.
LEMMA BeginCloseKeeps ==
  ASSUME IInv, BeginClose
  PROVE  IInv'
  <1>1. "owner" \in Threads /\ {"closeStarted"} \in SUBSET FlagNames
    BY CloseFlags DEF Threads
  <1>2. /\ Onward("owner", "lifecycle", "idle") /\ Onward("owner", "lifecycle", "claim")
        /\ Onward("owner", "claim", "idle") /\ Onward("owner", "create", "unretain")
        /\ Onward("owner", "unretain", "idle")
    BY DEF Onward, AtClose, Labels, Early, Held, Before, WritingAt
  <1>3. CASE LifeStep("owner", "lifecycle", ClosingFrom(lifecycle),
                      IF lifecycle \in {"STARTING", "CLOSED"} THEN "idle" ELSE "claim")
    BY <1>1, <1>2, <1>3, ClosingFromState, LifeStepKeeps DEF IInv
  <1>4. CASE ~Claimable /\ FlagStep("owner", "claim", {}, "idle")
    BY <1>1, <1>2, <1>4, LookKeeps
  <1>5. CASE Claimable /\ FlagStep("owner", "claim", {"closeStarted"}, "create")
    <2>1. "create" \in Labels
      BY DEF Labels
    <2>2. Moves("owner", "claim", "create")
      BY <1>1, <1>5, <2>1, FlagStepMoves DEF IInv
    <2>3. PlaceOK("owner", "create", console) /\ ~AtClose("owner", "create")
      BY <1>5 DEF Claimable, Published, PlaceOK, AtClose
    <2> QED
      BY <1>1, <2>2, <2>3, MovesKeep
  <1>6. CASE /\ pc["owner"] = "create"
             /\ pc' = [pc EXCEPT !["owner"] = "unretain", !["closer"] = "stop"]
             /\ refCount' = refCount + 2
             /\ UNCHANGED <<bootVars, lifecycle, abandoned, handed, flags, hostVars, flowVars,
                            dartVars>>
    <2>1. {"closer", "owner"} \subseteq Threads /\ {"unretain", "stop"} \subseteq Labels
      BY DEF Threads, Workers, Labels
    <2>2. Published
      BY <1>1, <1>6 DEF IInv, ConsoleOK, PlaceOK, Before, Published
    <2>3. /\ pc' \in [Threads -> Labels] /\ pc'["closer"] = "stop"
          /\ \A u \in Threads \ {"closer"} : pc'[u] = IF u = "owner" THEN "unretain" ELSE pc[u]
      BY <1>6, <2>1 DEF IInv, TypeInv
    <2>4. \A u \in Threads : Shifts(u, IF u = "owner" THEN "unretain" ELSE pc[u], pc'[u])
      BY <2>2, <2>3 DEF Shifts
    <2>5. TypeInv'
      BY <1>6, <2>3 DEF IInv, TypeInv, bootVars, hostVars, flowVars, dartVars
    <2>6. Moves("owner", "create", "unretain")
      BY <1>6, <2>4, <2>5 DEF Moves, bootVars, hostVars, flowVars
    <2> QED
      BY <1>1, <1>2, <2>6, OnwardKeeps
  <1>7. CASE /\ Go("owner", "unretain", "idle") /\ Drop
             /\ UNCHANGED <<bootVars, lifecycle, abandoned, handed, flags, program, flowVars,
                            dartVars>>
    <2>1. "idle" \in Labels
      BY DEF Labels
    <2>2. TypeInv'
      BY <1>1, <1>7, <2>1, Went, DropCloses DEF IInv, TypeInv, bootVars, flowVars, dartVars
    <2>3. Moves("owner", "unretain", "idle")
      BY <1>1, <1>7, <2>1, <2>2, Went, DropCloses DEF IInv, Moves, bootVars, flowVars
    <2> QED
      BY <1>1, <1>2, <2>3, OnwardKeeps
  <1> QED
    BY <1>3, <1>4, <1>5, <1>6, <1>7 DEF BeginClose

\* Without a thread the isolate closes by itself.
LEMMA ClosesInlineKeeps ==
  ASSUME IInv, ClosesInline
  PROVE  IInv'
  <1>1. /\ "owner" \in Threads /\ "owner" \in Threads \ {"console", "writer"}
        /\ {"stopping", "closeDone"} \in SUBSET FlagNames
    BY CloseFlags DEF Threads
  <1>2. /\ Onward("owner", "create", "uncreated") /\ Onward("owner", "uncreated", "stop")
        /\ Onward("owner", "stop", "close") /\ Onward("owner", "close", "wait")
        /\ Onward("owner", "wait", "maybe") /\ Onward("owner", "maybe", "SESSION_CLOSED")
        /\ Onward("owner", "SESSION_CLOSED", "idle") /\ Onward("owner", "maybe", "idle")
        /\ "wait" \in Labels /\ "maybe" \in Labels /\ "close" \notin Before("owner")
    BY DEF Onward, AtClose, Labels, Early, Held, Before, WritingAt
  <1>3. CASE Fails("closer", "owner", "create", "uncreated")
    BY <1>1, <1>2, <1>3, FailsKeep
  <1>4. CASE FlagStep("owner", "uncreated", {"stopping", "closeDone"}, "stop")
    BY <1>1, <1>2, <1>4, FlagStepKeeps
  <1>5. CASE StopStep("owner", "stop", "close")
    BY <1>1, <1>2, <1>5, StopStepKeeps
  <1>6. CASE Closes("owner", "close", "inline", "wait", "maybe")
    BY <1>1, <1>2, <1>6, ClosesKeeps
  <1>7. CASE ClaimClosed("owner", "maybe", "idle")
    BY <1>1, <1>2, <1>7, ClaimClosedKeeps
  <1>8. CASE ~Claims /\ FlagStep("owner", "maybe", {}, "idle")
    BY <1>1, <1>2, <1>8, LookKeeps
  <1> QED
    BY <1>3, <1>4, <1>5, <1>6, <1>7, <1>8 DEF ClosesInline

\* Everything the isolate does of itself.
LEMMA OwnerKeeps ==
  ASSUME IInv, Owner
  PROVE  IInv'
  <1>1. "owner" \in Threads /\ (Alive => pc["owner"] = "idle")
    BY DEF Threads, Alive
  <1>2. /\ Onward("owner", "idle", "lifecycle") /\ Onward("owner", "idle", "idle")
        /\ Onward("owner", "finalizer", "end")
    BY DEF Onward, AtClose, Labels, Early, Held, Before, WritingAt
  <1>3. CASE DartFails \/ DriverCloses \/ DartClosed
    BY <1>1, <1>2, <1>3, DartCallsKeeps DEF DartFails, DriverCloses, Close, DartClosed
  <1>4. CASE CloseFinishes
    <2>1. handed' \in Nat
      BY <1>4 DEF CloseFinishes, IInv, TypeInv
    <2>2. TypeInv'
      BY <1>4, <2>1, DropCloses DEF CloseFinishes, IInv, TypeInv, bootVars, flowVars
    <2>3. UNCHANGED <<pc, boot, pending>>
      BY <1>4 DEF CloseFinishes, bootVars, flowVars
    <2>4. pending' >= pending
      BY <2>3 DEF IInv, TypeInv
    <2> QED
      BY <1>4, <2>2, <2>3, <2>4, DropCloses, AsideKeeps DEF CloseFinishes, IInv
  <1>5. CASE Finalizes
    <2>1. "end" \in Labels /\ {} \in SUBSET FlagNames
      BY DEF Labels
    <2>2. CASE FlagStep("owner", "finalizer", {}, "end")
      BY <1>1, <1>2, <2>2, LookKeeps
    <2>3. CASE pc["owner"] = "finalizer" /\ Abandon("owner", {}, "end")
      <3>1. Moves("owner", "finalizer", "end")
        BY <1>1, <2>1, <2>3, AbandonMoves DEF IInv
      <3> QED
        BY <1>1, <1>2, <3>1, OnwardKeeps
    <2> QED
      BY <1>5, <2>2, <2>3 DEF Finalizes
  <1> QED
    BY <1>3, <1>4, <1>5, BeginCloseKeeps, ClosesInlineKeeps DEF Owner

\* Everything the user does.
LEMMA UserKeeps ==
  ASSUME IInv, User
  PROVE  IInv'
  <1>1. "owner" \in Threads /\ (Alive => pc["owner"] = "idle")
    BY DEF Threads, Alive
  <1>2. Onward("owner", "idle", "lifecycle") /\ Onward("owner", "idle", "finalizer")
    BY DEF Onward, AtClose, Labels, Early, Held, Before, WritingAt
  <1>3. CASE UserCloses
    BY <1>1, <1>2, <1>3, DartCallsKeeps DEF UserCloses, Close
  <1>4. CASE Acknowledges
    <2>1. credit' \in 0 .. Window
      BY <1>4, WindowsAssumption DEF Acknowledges, IInv, TypeInv
    <2>2. TypeInv'
      BY <1>4, <2>1 DEF Acknowledges, ownerFrame, bootVars, sessionVars, hostVars, dartVars,
         IInv, TypeInv
    <2>3. pending' >= pending
      BY <1>4 DEF Acknowledges, IInv, TypeInv
    <2> QED
      BY <1>4, <2>2, <2>3, AsideKeeps DEF Acknowledges, ownerFrame, bootVars, hostVars
  <1>5. CASE Discards
    <2>1. /\ Rarely /\ flags' = flags \cup {"discard"} /\ credit' = Window
          /\ UNCHANGED <<pc, boot, sessionVars, hostVars, pending, dartVars>>
      BY <1>5 DEF Discards
    <2>2. credit' \in 0 .. Window /\ events' \in 0 .. MaxEvents
      BY <2>1, WindowsAssumption DEF Rarely, IInv, TypeInv
    <2>3. flags' \subseteq FlagNames
      BY <2>1 DEF IInv, TypeInv, FlagNames
    <2>4. TypeInv'
      BY <2>1, <2>2, <2>3 DEF sessionVars, hostVars, dartVars, IInv, TypeInv
    <2>5. pending' >= pending
      BY <2>1 DEF IInv, TypeInv
    <2> QED
      BY <2>1, <2>4, <2>5, AsideKeeps DEF hostVars
  <1>6. CASE TryWrites
    <2>1. UNCHANGED <<pc, boot, sessionVars, hostVars, credit, dartVars>>
      BY <1>6 DEF TryWrites
    <2>2. CASE Fits /\ pending' = pending + 1 /\ UNCHANGED <<flags, events>>
      <3>1. pending' \in 0 .. Limit /\ pending' >= pending
        BY <2>2, WindowsAssumption DEF Fits, IInv, TypeInv
      <3>2. TypeInv'
        BY <2>1, <2>2, <3>1 DEF sessionVars, hostVars, dartVars, IInv, TypeInv
      <3> QED
        BY <2>1, <3>1, <3>2, AsideKeeps DEF hostVars
    <2>3. CASE Rarely /\ flags' = flags \cup {"backpressured"} /\ UNCHANGED pending
      <3>1. events' \in 0 .. MaxEvents
        BY <2>3, WindowsAssumption DEF Rarely, IInv, TypeInv
      <3>2. flags' \subseteq FlagNames
        BY <2>3 DEF IInv, TypeInv, FlagNames
      <3>3. TypeInv'
        BY <2>1, <2>3, <3>1, <3>2 DEF sessionVars, hostVars, dartVars, IInv, TypeInv
      <3>4. pending' >= pending
        BY <2>3 DEF IInv, TypeInv
      <3> QED
        BY <2>1, <3>3, <3>4, AsideKeeps DEF hostVars
    <2> QED
      BY <1>6, <2>2, <2>3 DEF TryWrites
  <1>7. CASE Kills
    <2>1. UNCHANGED <<pc, boot, sessionVars, console, closes, flowVars, dartVars>>
      BY <1>7 DEF Kills
    <2>2. events' \in 0 .. MaxEvents
      BY <1>7, WindowsAssumption DEF Kills, MayFail, Rarely, IInv, TypeInv
    <2>3. flags' \subseteq FlagNames
      BY <1>7 DEF Kills, IInv, TypeInv, FlagNames
    <2>4. program' \in {"none", "suspended", "running", "dead"}
      BY <1>7, Programs DEF Kills, IInv
    <2>5. TypeInv'
      BY <2>1, <2>2, <2>3, <2>4 DEF sessionVars, flowVars, dartVars, IInv, TypeInv
    <2>6. pending' >= pending
      BY <2>1 DEF flowVars, IInv, TypeInv
    <2> QED
      BY <2>1, <2>5, <2>6, AsideKeeps
  <1>8. CASE IsolateExits
    <2>1. /\ pc["owner"] = "idle" /\ pc' = [pc EXCEPT !["owner"] = "finalizer"]
          /\ posted' = [e \in Events |-> 0] /\ UNCHANGED <<flags, flowVars, ownerFrame>>
      BY <1>1, <1>8 DEF IsolateExits
    <2>2. Go("owner", "idle", "finalizer") /\ "finalizer" \in Labels
      BY <2>1 DEF Go, Labels
    <2>3. posted' \in [Events -> 0 .. 2]
      BY <2>1
    <2>4. TypeInv'
      BY <1>1, <2>1, <2>2, <2>3, Went DEF ownerFrame, bootVars, sessionVars, hostVars, flowVars,
         IInv, TypeInv
    <2>5. Moves("owner", "idle", "finalizer")
      BY <1>1, <2>1, <2>2, <2>4, Went DEF ownerFrame, bootVars, hostVars, flowVars, IInv, Moves
    <2> QED
      BY <1>1, <1>2, <2>5, OnwardKeeps
  <1> QED
    BY <1>3, <1>4, <1>5, <1>6, <1>7, <1>8 DEF User

\* The program exits, outside the session.
LEMMA ProgramExitsKeeps ==
  ASSUME IInv, ProgramExits
  PROVE  IInv'
  <1>1. TypeInv'
    BY DEF ProgramExits, IInv, TypeInv, bootVars, sessionVars, flowVars, dartVars
  <1>2. pending' >= pending
    BY DEF ProgramExits, IInv, TypeInv, flowVars
  <1> QED
    BY <1>1, <1>2, AsideKeeps DEF ProgramExits, bootVars

\* Every step of the session keeps the invariant.
LEMMA NextKeeps ==
  ASSUME IInv, [Next]_vars
  PROVE  IInv'
  <1>1. CASE UNCHANGED vars
    BY <1>1 DEF vars, bootVars, sessionVars, hostVars, flowVars, dartVars, IInv, TypeInv, BootOK,
       ConsoleOK, QueueOK
  <1>2. CASE Next
    BY <1>2, BootThreadKeeps, ReaderKeeps, WriterKeeps, WaiterKeeps, CloserKeeps,
       ConsoleWorkerKeeps, OwnerKeeps, UserKeeps, CallsFailKeeps, ProgramExitsKeeps
       DEF Next, ByItself
  <1> QED
    BY <1>1, <1>2

-----------------------------------------------------------------------------
(* What follows                                                            *)

\* A session starts with its bootstrap and nothing else.
LEMMA InitOK ==
  ASSUME Init
  PROVE  IInv
  <1>1. Stages[1] = "inputPipe" /\ Stages[1] \in Labels
    <2>1. Stages[1] = "inputPipe" /\ 1 \in 1 .. Len(Stages)
      BY DEF Stages
    <2> QED
      BY <2>1 DEF Labels
  <1>2. /\ pc \in [Threads -> Labels] /\ pc["boot"] = "inputPipe" /\ pc["owner"] = "idle"
        /\ \A u \in Threads \ {"boot", "owner"} : pc[u] = "off"
    BY <1>1 DEF Init, Threads, Workers, Labels
  <1>3. TypeInv
    <2>1. posted \in [Events -> 0 .. 2]
      BY DEF Init
    <2>2. events \in 0 .. MaxEvents /\ credit \in 0 .. Window /\ pending \in 0 .. Limit
      BY WindowsAssumption DEF Init
    <2>3. /\ lifecycle \in {"STARTING", "RUNNING", "CLOSING", "CLOSED"}
          /\ console \in {"none", "OWNED", "RELEASING", "RELEASED", "CLOSING", "CLOSED"}
          /\ program \in {"none", "suspended", "running", "dead"}
          /\ refCount \in Int /\ handed \in Nat
      BY DEF Init
    <2>4. flags \subseteq FlagNames
      BY DEF Init
    <2>5. abandoned \in BOOLEAN
      BY DEF Init
    <2> QED
      BY <1>2, <2>1, <2>2, <2>3, <2>4, <2>5 DEF TypeInv
  <1>4. BootOK
    BY <1>2 DEF Init, BootOK, Held
  <1>5. ConsoleOK
    <2>1. \A u \in Threads : PlaceOK(u, pc[u], "none") /\ ~AtClose(u, pc[u])
      BY <1>2 DEF PlaceOK, AtClose, Before, Early
    <2> QED
      BY <2>1 DEF Init, ConsoleOK
  <1>6. QueueOK
    BY <1>2 DEF QueueOK, WritingAt, Threads, Workers
  <1> QED
    BY <1>3, <1>4, <1>5, <1>6 DEF IInv

\* The bootstrap holds nothing but what some call of it acquired.
LEMMA HandlesAcquired ==
  Handles \subseteq UNION {Acquires(Stages[i]) : i \in 1 .. Len(Stages)}
  <1>1. /\ Len(Stages) = 10 /\ Stages[1] = "inputPipe" /\ Stages[2] = "outputPipe"
        /\ Stages[3] = "pseudoConsole" /\ Stages[4] = "createJob" /\ Stages[6] = "attributes"
        /\ Stages[8] = "arguments" /\ Stages[9] = "createProcess"
    BY DEF Stages
  <1>2. /\ \A h \in {"inputRead", "inputWrite"} : h \in Acquires(Stages[1])
        /\ \A h \in {"outputRead", "outputWrite"} : h \in Acquires(Stages[2])
        /\ "console" \in Acquires(Stages[3]) /\ "job" \in Acquires(Stages[4])
        /\ "attributes" \in Acquires(Stages[6]) /\ "strings" \in Acquires(Stages[8])
        /\ \A h \in {"process", "thread"} : h \in Acquires(Stages[9])
    BY <1>1 DEF Acquires
  <1> DEFINE all == UNION {Acquires(Stages[i]) : i \in 1 .. Len(Stages)}
  <1>3. ASSUME NEW i \in 1 .. 10, NEW h \in Acquires(Stages[i]) PROVE h \in all
    BY <1>1
  <1> HIDE DEF all
  <1>4. {1, 2, 3, 4, 6, 8, 9} \subseteq 1 .. 10
    OBVIOUS
  <1>5. Handles \subseteq all
    BY <1>2, <1>3, <1>4 DEF Handles
  <1> QED
    BY <1>5 DEF all

\* The invariant holds in every state, whatever fails and however often.
THEOREM Invariant == Spec => []IInv
  <1>1. Init => IInv
    BY InitOK
  <1>2. IInv /\ [Next]_vars => IInv'
    BY NextKeeps
  <1> QED
    BY <1>1, <1>2, PTL DEF Spec

\* Whoever closes the pseudo console -- the waiter, the close thread, the
\* isolate or the bootstrap inline, the console's own thread or the session's
\* last reference -- is the only one (pseudo_console_state under the platform
\* mutex), and the session is well-typed.
THEOREM ConsoleClosedOnce == Spec => []ClosedOnce
  <1>1. IInv => ClosedOnce
    <2> SUFFICES ASSUME IInv PROVE ClosedOnce
      OBVIOUS
    <2>1. /\ boot.reserved \in BOOLEAN /\ boot.cancelled \in BOOLEAN
          /\ boot.held \subseteq UNION {Acquires(Stages[i]) : i \in 1 .. Len(Stages)}
      BY HandlesAcquired DEF IInv, BootOK
    <2>2. closes \in Nat /\ closes <= 1 /\ (closes = 1) = (console = "CLOSED")
      BY DEF IInv, ConsoleOK
    <2>3. TypeOK
      BY <2>1, <2>2 DEF IInv, TypeInv, TypeOK
    <2> QED
      BY <2>2, <2>3 DEF ClosedOnce
  <1> QED
    BY <1>1, Invariant, PTL

\* At whichever call pty_windows_create_process fails, and whenever a close
\* cancels the startup, the bootstrap has given every handle back when it
\* answers, or handed it to the platform.
THEOREM NoHandleLost == Spec => []HandlesGivenBack
  <1>1. IInv => HandlesGivenBack
    BY DEF IInv, BootOK, HandlesGivenBack, Held, PlatformHandles
  <1> QED
    BY <1>1, Invariant, PTL

-----------------------------------------------------------------------------
(* A session that is over leaves nothing behind                            *)

\* A worker of the session that runs, as a number, and how many run.
Runs(l) == IF l \in {"off", "end"} THEN 0 ELSE 1
Running ==
  Runs(pc["boot"]) + Runs(pc["reader"]) + Runs(pc["writer"]) + Runs(pc["waiter"])
  + Runs(pc["closer"]) + Runs(pc["console"])

\* There is a reference for every worker that runs, one while close() creates
\* one, and Dart's, which close() or an abandonment gives up.
RefsOK ==
  /\ refCount + handed = 1 + Running + (IF pc["owner"] = "unretain" THEN 1 ELSE 0)
  /\ handed = (IF abandoned THEN 1 ELSE 0) + (IF dart.finalizer = "detached" THEN 1 ELSE 0)

\* The reader and the writer are through with the console, or were never to start.
BeforeReader == Early \cup {"check", "reader"}
BeforeWriter == BeforeReader \cup {"writer"}
ReadingAt == {"top", "read", "charge"}
BusyAt == WritingAt \cup {"top", "drained"}
ReaderOver == pc["reader"] \notin ReadingAt /\ pc["boot"] \notin BeforeReader
WriterOver == pc["writer"] \notin BusyAt /\ pc["boot"] \notin BeforeWriter

\* Nothing is left behind, and nothing will be started any more.
Shut ==
  console \in {"none", "CLOSED"} /\ program \in {"none", "dead"} /\ ReaderOver /\ WriterOver

\* Labels of a thread t that has found nothing left.
ShutAt(t) ==
  {"SESSION_CLOSED"} \cup
  IF t = "boot" THEN {"failed", "failedOutput", "markClosed", "sessionClosed", "unstartedFlags",
                      "unstartedAnswer", "unstartedOutput", "unstartedInput"}
                ELSE {}

\* The isolate has let go of the session, other than by its own exit.
LetGo == ~dart.portOpen /\ pc["owner"] \notin {"finalizer", "end"}
Never == console = "none" /\ pc["boot"] \notin Early \cup {"kill"}

ShutOK ==
  /\ posted["SESSION_CLOSED"] > 0 => Shut
  /\ refCount <= 0 => Shut
  /\ lifecycle = "CLOSED" => Shut
  /\ \A t \in Threads : pc[t] \in ShutAt(t) => Shut
  /\ dart.finalizer = "detached" => Shut
  /\ LetGo => Shut
  /\ Never => Shut

\* Labels that a thread reaches once the program is dead.
DeadAt(t) ==
  CASE t = "boot"   -> {"join", "close", "inline", "wait", "account", "unstartedClose",
                        "unstartedInline", "unstartedWait", "unstartedFlags"}
    [] t = "closer" -> {"close", "inline", "wait", "done", "maybe", "SESSION_CLOSED",
                        "release", "end"}
    [] t = "owner"  -> {"close", "inline", "wait", "maybe"}
    [] t = "waiter" -> {"exit", "unreadable", "ownership", "releasing", "unreleased",
                        "close", "inline"}
    [] OTHER        -> {}

\* The console is closed after the program has died, and created before it.
Unborn == Early \ {"assignJob", "platform"}
DeadOK ==
  /\ \A t \in Threads : pc[t] \in DeadAt(t) => program = "dead"
  /\ console \in {"CLOSING", "CLOSED"} => program = "dead"
  /\ console # "none" \/ pc["boot"] \in {"assignJob", "platform", "kill"} => program # "none"
  /\ pc["boot"] \in Unborn => program = "none"
  /\ pc["boot"] = "kill" => console = "none"

\* Labels of the bootstrap at which a thread has not been created.
Unstarted == {"unstarted", "unstartedClose", "unstartedInline", "unstartedWait"}
NotYet(t) ==
  CASE t = "reader" -> BeforeReader \cup Unstarted \cup {"kill"}
    [] t = "writer" -> BeforeWriter \cup Unstarted \cup {"kill"}
    [] t = "waiter" -> BeforeWriter \cup Unstarted \cup {"kill", "waiter"}
    [] OTHER        -> {}

\* What the flags and the labels say of threads that were created.
StartOK ==
  /\ \A t \in Threads : pc["boot"] \in NotYet(t) => pc[t] = "off"
  /\ "readerStarted" \notin flags => pc["reader"] = "off"
  /\ "writerStarted" \notin flags => pc["writer"] = "off"
  /\ "readerDone" \in flags => ReaderOver
  /\ "writerDone" \in flags => WriterOver
  /\ pc["closer"] # "off" => "closeStarted" \in flags
  /\ pc["owner"] = "create" => "closeStarted" \in flags /\ pc["closer"] = "off"
  /\ pc["console"] # "off" => console \in {"CLOSING", "CLOSED"}

\* Who claims the close stops the program next ...
StopAt(t) ==
  CASE t = "closer" -> {"stop"}
    [] t = "owner"  -> {"create", "uncreated", "stop"}
    [] t = "boot"   -> {"stop"}
    [] OTHER        -> {}
Stops == program = "dead" \/ \E t \in Threads : pc[t] \in StopAt(t)
Claimed == "closeStarted" \in flags \/ "closeDone" \in flags

\* ... and who abandons the session claims it, or finds it claimed, or leaves it to
\* the bootstrap, which looks at the lifecycle once more before the program runs.
Undecided == Early \cup {"kill", "check", "reader", "writer", "waiter", "started"}
WillEnd ==
  \/ Shut \/ Claimed \/ program = "dead" \/ pc["boot"] = "unstarted"
  \/ pc["boot"] \in Undecided /\ lifecycle # "STARTING"
CloseOK ==
  /\ Claimed => Stops
  /\ abandoned => WillEnd /\ ~dart.portOpen
  /\ lifecycle = "STARTING" => Shut \/ pc["boot"] \in Undecided \/ Claimed
  /\ lifecycle = "RUNNING" => console # "none"

\* Who releases or closes the console is at it.
HostOK ==
  /\ console = "RELEASING" => pc["waiter"] \in {"releasing", "unreleased"}
  /\ console = "CLOSING" => \E t \in Threads : AtClose(t, pc[t])
  /\ pc["boot"] = "unstartedWait" => console \in {"CLOSING", "CLOSED"}

SafeInv == RefsOK /\ ShutOK /\ DeadOK /\ StartOK /\ CloseOK /\ HostOK
-----------------------------------------------------------------------------
(* Steps along a thread, and what they leave as it was                     *)

\* A thread is interrupted, or the close thread or the console's is created.
Alters(u, a, b) ==
  \/ b = a
  \/ u = "reader" /\ a = "read" /\ b = "failed"
  \/ u = "writer" /\ a = "write" /\ b = "unwritten"
  \/ u = "closer" /\ a = "off" /\ b = "stop" /\ "closeStarted" \in flags'
     /\ pc'["owner"] # "create"
  \/ u = "console" /\ a = "off" /\ b = "close" /\ console' \in {"CLOSING", "CLOSED"}

Goes(t, l, n) ==
  /\ pc[t] = l /\ pc' \in [Threads -> Labels]
  /\ \A u \in Threads : Alters(u, IF u = t THEN n ELSE pc[u], pc'[u])

\* The bootstrap goes from l to n: it has decided by then that the session will
\* end, or that it runs; no label brings a thread back that is over.
BootAlong(l, n) ==
  /\ n \in BeforeReader => l \in BeforeReader
  /\ n \in BeforeWriter => l \in BeforeWriter
  /\ \A u \in {"reader", "writer", "waiter"} : n \in NotYet(u) => l \in NotYet(u)
  /\ n \in Early \cup {"kill"} \/ l \notin Early \cup {"kill"} \/ Shut' \/ console' # "none"
  /\ n \in {"assignJob", "platform", "kill"} =>
       l \in {"assignJob", "platform", "kill"} \/ program' # "none"
  /\ n \in Unborn => l \in Unborn
  /\ n = "kill" => l = "kill" \/ console = "none"
  /\ l \in Undecided => \/ n \in Undecided \/ Claimed' \/ Shut'
                        \/ lifecycle = "STARTING" /\ lifecycle' = "RUNNING"
                        \/ n = "unstarted" /\ lifecycle' # "STARTING"
  /\ l = "unstarted" => n = "unstarted" \/ program' = "dead"
  /\ n = "unstartedWait" => l = "unstartedWait" \/ console' \in {"CLOSING", "CLOSED"}

Along(t, l, n) ==
  /\ n \in ShutAt(t) => l \in ShutAt(t) \/ Shut'
  /\ n \in DeadAt(t) => l \in DeadAt(t) \/ program' = "dead"
  /\ l \in StopAt(t) => n \in StopAt(t) \/ program' = "dead" \/ pc'["closer"] = "stop"
  /\ t # "boot" /\ t # "owner" => l # "off"
  /\ t = "reader" /\ n \in ReadingAt => l \in ReadingAt
  /\ t = "writer" /\ n \in BusyAt => l \in BusyAt
  /\ t = "owner" /\ n = "create" =>
       l = "create" \/ ("closeStarted" \in flags' /\ pc'["closer"] = "off")
  /\ t = "owner" /\ l \in {"finalizer", "end"} => n \in {"finalizer", "end"}
  /\ t = "boot" => BootAlong(l, n)

\* What such a step may do to the console, the program, the lifecycle, the flags,
\* the references and the isolate's side.
HostMild ==
  /\ console \in {"none", "CLOSED"} => console' = console
  /\ console # "none" => console' # "none"
  /\ console = "CLOSING" => console' \in {"CLOSING", "CLOSED"}
  /\ console' \in {"CLOSING", "CLOSED"} =>
       console \in {"CLOSING", "CLOSED"} \/ program' = "dead"
  /\ refCount' <= 0 => refCount <= 0 \/ Shut'

Gentle ==
  /\ program \in {"none", "dead"} => program' = program
  /\ program # "none" => program' # "none"
  /\ lifecycle' = "STARTING" => lifecycle = "STARTING"
  /\ lifecycle' = "CLOSED" => lifecycle = "CLOSED" \/ Shut'
  /\ lifecycle' = "RUNNING" => lifecycle = "RUNNING" \/ console # "none"
  /\ posted'["SESSION_CLOSED"] > 0 => posted["SESSION_CLOSED"] > 0 \/ Shut'
  /\ \A f \in {"readerStarted", "writerStarted", "closeStarted", "closeDone"} :
       f \in flags => f \in flags'
  /\ "readerDone" \in flags' => "readerDone" \in flags \/ ReaderOver'
  /\ "writerDone" \in flags' => "writerDone" \in flags \/ WriterOver'
  /\ Claimed' => Claimed \/ Stops'
  /\ dart'.finalizer = "detached" => dart.finalizer = "detached" \/ Shut'
  /\ ~dart'.portOpen => ~dart.portOpen \/ Shut' \/ pc'["owner"] \in {"finalizer", "end"}
  /\ dart'.portOpen => dart.portOpen
  /\ abandoned' => abandoned \/ (WillEnd' /\ ~dart'.portOpen)

Mild == HostMild /\ Gentle

\* What is over stays over.
LEMMA OverStays ==
  ASSUME NEW t \in Threads, NEW l, NEW n, Goes(t, l, n), Along(t, l, n)
  PROVE  /\ pc'["boot"] = IF t = "boot" THEN n ELSE pc["boot"]
         /\ pc'["owner"] = IF t = "owner" THEN n ELSE pc["owner"]
         /\ ReaderOver => ReaderOver'
         /\ WriterOver => WriterOver'
  <1>1. {"boot", "owner", "reader", "writer"} \subseteq Threads
    BY DEF Threads, Workers
  <1>2. /\ pc'["boot"] = IF t = "boot" THEN n ELSE pc["boot"]
        /\ pc'["owner"] = IF t = "owner" THEN n ELSE pc["owner"]
        /\ Alters("reader", IF t = "reader" THEN n ELSE pc["reader"], pc'["reader"])
        /\ Alters("writer", IF t = "writer" THEN n ELSE pc["writer"], pc'["writer"])
    BY <1>1 DEF Goes, Alters
  <1>3. pc[t] = l
    BY DEF Goes
  <1>4. ReaderOver => ReaderOver'
    BY <1>2, <1>3 DEF Along, BootAlong, Alters, ReaderOver, ReadingAt
  <1>5. WriterOver => WriterOver'
    BY <1>2, <1>3 DEF Along, BootAlong, Alters, WriterOver, BusyAt, WritingAt
  <1> QED
    BY <1>2, <1>4, <1>5

\* Nothing that is over begins again along a thread.
LEMMA ShutStays ==
  ASSUME NEW t \in Threads, NEW l, NEW n, Goes(t, l, n), Along(t, l, n), Shut,
         console \in {"none", "CLOSED"} => console' = console,
         program \in {"none", "dead"} => program' = program
  PROVE  Shut'
  BY OverStays DEF Shut

\* A mild step along a thread keeps what is known of a session's end, ...
LEMMA ShutKeeps ==
  ASSUME ShutOK, NEW t \in Threads, NEW l, NEW n, Goes(t, l, n), Along(t, l, n), Mild
  PROVE  ShutOK'
  <1>1. Shut => Shut'
    BY ShutStays DEF Mild, HostMild, Gentle
  <1>2. pc[t] = l
    BY DEF Goes
  <1>3. /\ posted'["SESSION_CLOSED"] > 0 => Shut'
        /\ refCount' <= 0 => Shut'
        /\ lifecycle' = "CLOSED" => Shut'
        /\ dart'.finalizer = "detached" => Shut'
    BY <1>1 DEF Mild, HostMild, Gentle, ShutOK
  <1>4. ASSUME NEW u \in Threads, pc'[u] \in ShutAt(u) PROVE Shut'
    <2>1. Alters(u, IF u = t THEN n ELSE pc[u], pc'[u])
      BY DEF Goes
    <2>2. (IF u = t THEN n ELSE pc[u]) \in ShutAt(u)
      BY <1>4, <2>1 DEF Alters, ShutAt
    <2>3. pc[u] \in ShutAt(u) \/ Shut'
      BY <1>2, <2>2 DEF Along
    <2> QED
      BY <1>1, <2>3 DEF ShutOK
  <1>5. LetGo' => Shut'
    <2>1. pc'["owner"] = IF t = "owner" THEN n ELSE pc["owner"]
      BY OverStays
    <2>2. pc["owner"] \in {"finalizer", "end"} => pc'["owner"] \in {"finalizer", "end"}
      BY <1>2, <2>1 DEF Along
    <2> QED
      BY <1>1, <2>2 DEF Mild, HostMild, Gentle, LetGo, ShutOK
  <1>6. Never' => Shut'
    <2>1. pc'["boot"] = IF t = "boot" THEN n ELSE pc["boot"]
      BY OverStays
    <2>2. pc'["boot"] \in Early \cup {"kill"} \/ pc["boot"] \notin Early \cup {"kill"}
          \/ Shut' \/ console' # "none"
      BY <1>2, <2>1 DEF Along, BootAlong
    <2>3. console' = "none" => console = "none"
      BY DEF Mild, HostMild, Gentle
    <2> QED
      BY <1>1, <2>2, <2>3 DEF Never, ShutOK
  <1> QED
    BY <1>3, <1>4, <1>5, <1>6 DEF ShutOK

\* ... of the program's death, ...
LEMMA DeadKeeps ==
  ASSUME DeadOK, NEW t \in Threads, NEW l, NEW n, Goes(t, l, n), Along(t, l, n), Mild
  PROVE  DeadOK'
  <1>1. pc[t] = l /\ pc'["boot"] = IF t = "boot" THEN n ELSE pc["boot"]
    BY OverStays DEF Goes
  <1>2. program = "dead" => program' = "dead"
    BY DEF Mild, HostMild, Gentle
  <1>3. ASSUME NEW u \in Threads, pc'[u] \in DeadAt(u) PROVE program' = "dead"
    <2>1. Alters(u, IF u = t THEN n ELSE pc[u], pc'[u])
      BY DEF Goes
    <2>2. (IF u = t THEN n ELSE pc[u]) \in DeadAt(u)
      BY <1>3, <2>1 DEF Alters, DeadAt
    <2>3. pc[u] \in DeadAt(u) \/ program' = "dead"
      BY <1>1, <2>2 DEF Along
    <2> QED
      BY <1>2, <2>3 DEF DeadOK
  <1>4. console' \in {"CLOSING", "CLOSED"} => program' = "dead"
    BY <1>2 DEF Mild, HostMild, Gentle, DeadOK
  <1>5. console' # "none" \/ pc'["boot"] \in {"assignJob", "platform", "kill"} => program' # "none"
    <2>1. console' # "none" => console # "none"
      BY DEF Mild, HostMild, Gentle
    <2>2. pc'["boot"] \in {"assignJob", "platform", "kill"} =>
            pc["boot"] \in {"assignJob", "platform", "kill"} \/ program' # "none"
      BY <1>1 DEF Along, BootAlong
    <2> QED
      BY <2>1, <2>2 DEF Mild, HostMild, Gentle, DeadOK
  <1>6. pc'["boot"] \in Unborn => program' = "none"
    <2>1. pc'["boot"] \in Unborn => pc["boot"] \in Unborn
      BY <1>1 DEF Along, BootAlong
    <2> QED
      BY <2>1 DEF Mild, HostMild, Gentle, DeadOK
  <1>7. pc'["boot"] = "kill" => console' = "none"
    <2>1. pc'["boot"] = "kill" => pc["boot"] = "kill" \/ console = "none"
      BY <1>1 DEF Along, BootAlong
    <2> QED
      BY <2>1 DEF Mild, HostMild, DeadOK
  <1> QED
    BY <1>3, <1>4, <1>5, <1>6, <1>7 DEF DeadOK

\* ... of the threads that were created, ...
LEMMA StartKeeps ==
  ASSUME StartOK, NEW t \in Threads, NEW l, NEW n, Goes(t, l, n), Along(t, l, n), Mild
  PROVE  StartOK'
  <1>1. pc[t] = l /\ pc'["boot"] = (IF t = "boot" THEN n ELSE pc["boot"])
        /\ pc'["owner"] = (IF t = "owner" THEN n ELSE pc["owner"])
    BY OverStays DEF Goes
  <1>2. \A u \in Threads : Alters(u, IF u = t THEN n ELSE pc[u], pc'[u])
    BY DEF Goes
  <1>3. {"reader", "writer", "waiter", "closer", "console"} \subseteq Threads
    BY DEF Threads, Workers
  <1>4. \A u \in {"reader", "writer", "waiter"} : pc[u] = "off" => pc'[u] = "off"
    BY <1>1, <1>2, <1>3 DEF Along, Alters
  <1>5. \A u \in Threads : pc'["boot"] \in NotYet(u) => pc'[u] = "off"
    <2>1. \A u \in {"reader", "writer", "waiter"} :
            pc'["boot"] \in NotYet(u) => pc["boot"] \in NotYet(u)
      BY <1>1 DEF Along, BootAlong
    <2>2. \A u \in Threads \ {"reader", "writer", "waiter"} : NotYet(u) = {}
      BY DEF NotYet
    <2> QED
      BY <1>3, <1>4, <2>1, <2>2 DEF StartOK
  <1>6. /\ "readerStarted" \notin flags' => pc'["reader"] = "off"
        /\ "writerStarted" \notin flags' => pc'["writer"] = "off"
    BY <1>4 DEF Mild, HostMild, Gentle, StartOK
  <1>7. ("readerDone" \in flags' => ReaderOver') /\ ("writerDone" \in flags' => WriterOver')
    BY OverStays DEF Mild, HostMild, Gentle, StartOK
  <1>8. pc'["closer"] # "off" => "closeStarted" \in flags'
    <2>1. pc'["closer"] # "off" => pc["closer"] # "off" \/ "closeStarted" \in flags'
      BY <1>1, <1>2, <1>3 DEF Along, Alters
    <2> QED
      BY <2>1 DEF Mild, HostMild, Gentle, StartOK
  <1>9. pc'["owner"] = "create" => "closeStarted" \in flags' /\ pc'["closer"] = "off"
    <2>1. ASSUME pc'["owner"] = "create", pc["owner"] = "create"
          PROVE  "closeStarted" \in flags' /\ pc'["closer"] = "off"
      <3>1. "closeStarted" \in flags' /\ pc["closer"] = "off"
        BY <2>1 DEF Mild, HostMild, Gentle, StartOK
      <3>2. t # "closer"
        BY <1>1, <3>1 DEF Along
      <3> QED
        BY <1>2, <1>3, <2>1, <3>1, <3>2 DEF Alters
    <2>2. ASSUME pc'["owner"] = "create", pc["owner"] # "create"
          PROVE  "closeStarted" \in flags' /\ pc'["closer"] = "off"
      BY <1>1, <2>2 DEF Along
    <2> QED
      BY <2>1, <2>2
  <1>10. pc'["console"] # "off" => console' \in {"CLOSING", "CLOSED"}
    <2>1. pc'["console"] # "off" => pc["console"] # "off" \/ console' \in {"CLOSING", "CLOSED"}
      BY <1>1, <1>2, <1>3 DEF Along, Alters
    <2> QED
      BY <2>1 DEF Mild, HostMild, Gentle, StartOK
  <1> QED
    BY <1>5, <1>6, <1>7, <1>8, <1>9, <1>10 DEF StartOK

\* Who has claimed the close still stops the program after a gentle step, ...
LEMMA StopsStays ==
  ASSUME Stops, NEW t \in Threads, NEW l, NEW n, Goes(t, l, n), Along(t, l, n), Gentle
  PROVE  Stops'
  <1>1. CASE program = "dead"
    BY <1>1 DEF Gentle, Stops
  <1>2. ASSUME NEW u \in Threads, pc[u] \in StopAt(u) PROVE Stops'
    <2>1. Alters(u, IF u = t THEN n ELSE pc[u], pc'[u]) /\ pc[t] = l
      BY DEF Goes
    <2>2. CASE u # t
      <3>1. pc'[u] \in StopAt(u)
        BY <1>2, <2>1, <2>2 DEF StopAt, Alters
      <3> QED
        BY <3>1 DEF Stops
    <2>3. CASE u = t
      <3>1. n \in StopAt(t) \/ program' = "dead" \/ pc'["closer"] = "stop"
        BY <1>2, <2>1, <2>3 DEF Along
      <3>2. n \in StopAt(t) => pc'[u] \in StopAt(u)
        BY <2>1, <2>3 DEF StopAt, Alters
      <3>3. "closer" \in Threads /\ "stop" \in StopAt("closer")
        BY DEF Threads, Workers, StopAt
      <3> QED
        BY <3>1, <3>2, <3>3 DEF Stops
    <2> QED
      BY <2>2, <2>3
  <1> QED
    BY <1>1, <1>2 DEF Stops

\* ... and a session that will end still will.
LEMMA WillEndStays ==
  ASSUME WillEnd, NEW t \in Threads, NEW l, NEW n, Goes(t, l, n), Along(t, l, n), Gentle,
         Shut => Shut'
  PROVE  WillEnd'
  <1>1. pc[t] = l /\ pc'["boot"] = (IF t = "boot" THEN n ELSE pc["boot"])
    BY OverStays DEF Goes
  <1>2. (Claimed => Claimed') /\ (program = "dead" => program' = "dead")
    BY DEF Gentle, Claimed
  <1>3. pc["boot"] \in Undecided =>
          \/ pc'["boot"] \in Undecided \/ Claimed' \/ Shut'
          \/ lifecycle = "STARTING" /\ lifecycle' = "RUNNING"
          \/ pc'["boot"] = "unstarted" /\ lifecycle' # "STARTING"
    BY <1>1 DEF Along, BootAlong
  <1>4. pc["boot"] = "unstarted" => pc'["boot"] = "unstarted" \/ program' = "dead"
    BY <1>1 DEF Along, BootAlong
  <1>5. lifecycle' = "STARTING" => lifecycle = "STARTING"
    BY DEF Gentle
  <1> QED
    BY <1>2, <1>3, <1>4, <1>5 DEF WillEnd

\* A mild step along a thread keeps what is known of the claim to close.
LEMMA CloseKeeps ==
  ASSUME CloseOK, NEW t \in Threads, NEW l, NEW n, Goes(t, l, n), Along(t, l, n), Mild
  PROVE  CloseOK'
  <1>1. pc[t] = l /\ pc'["boot"] = (IF t = "boot" THEN n ELSE pc["boot"])
    BY OverStays DEF Goes
  <1>2. (Shut => Shut') /\ (Claimed => Claimed') /\ (program = "dead" => program' = "dead")
    BY ShutStays DEF Mild, HostMild, Gentle, Claimed
  <1>3. Claimed' => Stops'
    BY StopsStays DEF Mild, Gentle, CloseOK
  <1>4. pc["boot"] \in Undecided =>
          \/ pc'["boot"] \in Undecided \/ Claimed' \/ Shut'
          \/ lifecycle = "STARTING" /\ lifecycle' = "RUNNING"
          \/ pc'["boot"] = "unstarted" /\ lifecycle' # "STARTING"
    BY <1>1 DEF Along, BootAlong
  <1>5. ASSUME abandoned' PROVE WillEnd' /\ ~dart'.portOpen
    <2>1. CASE abandoned
      BY <1>2, <2>1, WillEndStays DEF CloseOK, Mild, Gentle
    <2> QED
      BY <1>5, <2>1 DEF Mild, Gentle
  <1>6. lifecycle' = "STARTING" => Shut' \/ pc'["boot"] \in Undecided \/ Claimed'
    BY <1>2, <1>4 DEF CloseOK, Mild, Gentle
  <1>7. lifecycle' = "RUNNING" => console' # "none"
    BY DEF Mild, HostMild, Gentle, CloseOK
  <1> QED
    BY <1>3, <1>5, <1>6, <1>7 DEF CloseOK

\* Such a step keeps everything but the count and the work at the console.
LEMMA StepKeeps ==
  ASSUME SafeInv, NEW t \in Threads, NEW l, NEW n, Goes(t, l, n), Along(t, l, n), Mild,
         RefsOK', HostOK'
  PROVE  SafeInv'
  BY ShutKeeps, DeadKeeps, StartKeeps, CloseKeeps DEF SafeInv

\* A thread moves, and may interrupt the reader and the writer.
Turns(t, l, n) ==
  /\ pc[t] = l /\ pc' \in [Threads -> Labels]
  /\ \A u \in Threads :
       LET a == IF u = t THEN n ELSE pc[u]
       IN  \/ pc'[u] = a
           \/ u = "reader" /\ a = "read" /\ pc'[u] = "failed"
           \/ u = "writer" /\ a = "write" /\ pc'[u] = "unwritten"

\* A thread that turns goes.
LEMMA TurnsGo ==
  ASSUME NEW t \in Threads, NEW l, NEW n, Turns(t, l, n)
  PROVE  Goes(t, l, n)
  BY DEF Turns, Goes, Alters

\* Interrupted threads run on.
LEMMA TurnsCount ==
  ASSUME NEW t \in Threads, NEW l, NEW n, Turns(t, l, n)
  PROVE  /\ Running \in Nat /\ Running' \in Nat
         /\ Running' = Running + (IF t = "owner" THEN 0 ELSE Runs(n) - Runs(l))
         /\ pc'["owner"] = IF t = "owner" THEN n ELSE pc["owner"]
  <1> DEFINE a(u) == IF u = t THEN n ELSE pc[u]
  <1>1. \A u \in Threads : Runs(pc'[u]) = Runs(a(u))
    BY DEF Turns, Runs
  <1>2. \A u \in Threads : Runs(pc'[u]) = IF u = t THEN Runs(n) ELSE Runs(pc[u])
    BY <1>1
  <1>3. /\ {"boot", "reader", "writer", "waiter", "closer", "console", "owner"} \subseteq Threads
        /\ t \in {"boot", "reader", "writer", "waiter", "closer", "console", "owner"}
    BY DEF Threads, Workers
  <1>4. pc'["owner"] = IF t = "owner" THEN n ELSE pc["owner"]
    BY <1>3 DEF Turns
  <1>5. (\A x : Runs(x) \in {0, 1}) /\ pc[t] = l
    BY DEF Runs, Turns
  <1>6. Running \in Nat /\ Running' \in Nat
    BY <1>5 DEF Running
  <1>7. Running' = Running + (IF t = "owner" THEN 0 ELSE Runs(n) - Runs(l))
    BY <1>2, <1>3, <1>5 DEF Running
  <1> QED
    BY <1>4, <1>6, <1>7

\* Nothing but the thread's own turn concerns the references and the console.
Steady(t, l, n) ==
  /\ n \in Labels
  /\ t # "owner" => l \notin {"off", "end"} /\ n \notin {"off", "end"}
  /\ t = "owner" => (l = "unretain" <=> n = "unretain")
  /\ ~AtClose(t, l)
  /\ t = "waiter" /\ l \in {"releasing", "unreleased"} => n \in {"releasing", "unreleased"}

\* Who releases or closes the console is still at it.
LEMMA HostStays ==
  ASSUME HostOK, NEW t \in Threads, NEW l, NEW n, Turns(t, l, n), Along(t, l, n),
         ~AtClose(t, l), console' = console \/ console' = "CLOSED",
         t = "waiter" /\ l \in {"releasing", "unreleased"} => n \in {"releasing", "unreleased"}
  PROVE  HostOK'
  <1>1. "waiter" \in Threads /\ "boot" \in Threads
    BY DEF Threads, Workers
  <1>2. pc["waiter"] \in {"releasing", "unreleased"} =>
          pc'["waiter"] \in {"releasing", "unreleased"}
    BY <1>1 DEF Turns
  <1>3. \A u \in Threads : AtClose(u, pc[u]) => AtClose(u, pc'[u])
    BY DEF Turns, AtClose
  <1>4. pc'["boot"] = "unstartedWait" =>
          pc["boot"] = "unstartedWait" \/ console' \in {"CLOSING", "CLOSED"}
    BY <1>1 DEF Turns, Along, BootAlong
  <1> QED
    BY <1>2, <1>3, <1>4 DEF HostOK

\* A mild step that turns one thread and touches neither the console nor a reference.
LEMMA QuietKeeps ==
  ASSUME SafeInv, NEW t \in Threads, NEW l, NEW n, Turns(t, l, n), Steady(t, l, n),
         Along(t, l, n), Mild, UNCHANGED <<console, refCount, handed, abandoned>>,
         dart'.finalizer = dart.finalizer
  PROVE  SafeInv'
  <1>1. Goes(t, l, n)
    BY TurnsGo
  <1>2. RefsOK'
    <2>1. pc["owner"] = "unretain" <=> pc'["owner"] = "unretain"
      BY TurnsCount DEF Steady, Turns
    <2>2. Running' = Running
      BY TurnsCount DEF Steady, Runs
    <2> QED
      BY <2>1, <2>2 DEF SafeInv, RefsOK
  <1>3. HostOK'
    BY HostStays DEF SafeInv, Steady
  <1> QED
    BY <1>1, <1>2, <1>3, StepKeeps

\* Going to a label is turning to it, ...
LEMMA GoTurns ==
  ASSUME TypeInv, NEW t \in Threads, NEW l, NEW n \in Labels, Go(t, l, n)
  PROVE  Turns(t, l, n)
  BY DEF TypeInv, Go, Turns

\* ... and so it is when the reader or the writer is interrupted besides.
LEMMA CutTurns ==
  ASSUME TypeInv, NEW t \in Threads, NEW l, NEW n \in Labels, pc[t] = l,
         pc' \in Interrupted([pc EXCEPT ![t] = n])
  PROVE  Turns(t, l, n)
  <1> DEFINE m == [pc EXCEPT ![t] = n]
  <1>1. m \in [Threads -> Labels] /\ \A u \in Threads : m[u] = IF u = t THEN n ELSE pc[u]
    BY DEF TypeInv
  <1>2. pc' \in Interrupted(m)
    OBVIOUS
  <1>3. "reader" \in Threads /\ "writer" \in Threads
    BY DEF Threads, Workers
  <1> HIDE DEF m
  <1>4. CASE pc' = m
    BY <1>1, <1>4 DEF Turns
  <1>5. CASE pc' # m
    <2> DEFINE r == IF m["reader"] = "read" THEN "failed" ELSE m["reader"]
               w == IF m["writer"] = "write" THEN "unwritten" ELSE m["writer"]
    <2>1. pc' = [m EXCEPT !["reader"] = r, !["writer"] = w]
      BY <1>2, <1>5 DEF Interrupted
    <2>2. /\ r = m["reader"] \/ (m["reader"] = "read" /\ r = "failed")
          /\ w = m["writer"] \/ (m["writer"] = "write" /\ w = "unwritten")
      OBVIOUS
    <2>3. r \in Labels /\ w \in Labels
      BY <1>1, <1>3 DEF Labels
    <2> HIDE DEF r, w
    <2>4. /\ pc' \in [Threads -> Labels] /\ pc'["reader"] = r /\ pc'["writer"] = w
          /\ \A u \in Threads : u \notin {"reader", "writer"} => pc'[u] = m[u]
      BY <1>1, <1>3, <2>1, <2>3
    <2>5. \A u \in Threads : \/ pc'[u] = m[u]
                             \/ u = "reader" /\ m[u] = "read" /\ pc'[u] = "failed"
                             \/ u = "writer" /\ m[u] = "write" /\ pc'[u] = "unwritten"
      BY <2>2, <2>4
    <2> QED
      BY <1>1, <2>4, <2>5 DEF Turns
  <1> QED
    BY <1>4, <1>5

\* The program may be killed at any time.
LEMMA KilledStays ==
  ASSUME program' = Killed
  PROVE  /\ program \in {"none", "dead"} => program' = program
         /\ program # "none" => program' = "dead"
  BY DEF Killed

\* Flags that say a thread is through, or that the close is claimed, are raised by
\* whom they speak of.
Honest(set) ==
  /\ "readerDone" \in set => ReaderOver'
  /\ "writerDone" \in set => WriterOver'
  /\ "closeStarted" \in set \/ "closeDone" \in set => Stops'

\* A step that raises flags, if they are true of the session, ...
LEMMA FlagStepSafe ==
  ASSUME SafeInv, TypeInv, NEW t \in Threads, NEW l, NEW n, NEW set, Steady(t, l, n),
         Along(t, l, n), FlagStep(t, l, set, n), Honest(set)
  PROVE  SafeInv'
  <1>1. Turns(t, l, n)
    BY GoTurns DEF FlagStep, Steady
  <1>2. Mild
    BY DEF Mild, HostMild, Gentle, FlagStep, Honest, Claimed, bootVars, sessionVars, hostVars, dartVars
  <1> QED
    BY <1>1, <1>2, QuietKeeps DEF FlagStep, sessionVars, hostVars, dartVars

\* ... one that only looks at them, ...
LEMMA LookSafe ==
  ASSUME SafeInv, TypeInv, NEW t \in Threads, NEW l, NEW n, Steady(t, l, n),
         Along(t, l, n), FlagStep(t, l, {}, n)
  PROVE  SafeInv'
  <1>1. Honest({})
    BY DEF Honest
  <1> QED
    BY <1>1, FlagStepSafe

\* ... one that changes the lifecycle, ...
LEMMA LifeStepSafe ==
  ASSUME SafeInv, TypeInv, NEW t \in Threads, NEW l, NEW n, NEW v, Steady(t, l, n),
         Along(t, l, n), LifeStep(t, l, v, n),
         v # "STARTING", v = "CLOSED" => lifecycle = "CLOSED" \/ Shut',
         v = "RUNNING" => lifecycle = "RUNNING" \/ console # "none"
  PROVE  SafeInv'
  <1>1. Turns(t, l, n)
    BY GoTurns DEF LifeStep, Steady
  <1>2. Mild
    BY DEF Mild, HostMild, Gentle, LifeStep, Claimed, bootVars, hostVars, dartVars
  <1> QED
    BY <1>1, <1>2, QuietKeeps DEF LifeStep, hostVars, dartVars

\* ... a call that fails, ...
LEMMA FailsSafe ==
  ASSUME SafeInv, TypeInv, NEW t \in Threads, NEW l, NEW n, NEW f, Steady(t, l, n),
         Along(t, l, n), Fails(f, t, l, n)
  PROVE  SafeInv'
  <1>1. Turns(t, l, n)
    BY GoTurns DEF Fails, Steady
  <1>2. Mild
    BY DEF Mild, HostMild, Gentle, Fails, Claimed, sessionVars, hostVars, dartVars
  <1> QED
    BY <1>1, <1>2, QuietKeeps DEF Fails, sessionVars, hostVars, dartVars

\* ... and one that stops the program.
LEMMA StopStepSafe ==
  ASSUME SafeInv, TypeInv, NEW t \in Threads, NEW l, NEW n, Steady(t, l, n),
         Along(t, l, n), StopStep(t, l, n)
  PROVE  SafeInv'
  <1>1. Turns(t, l, n)
    BY CutTurns DEF StopStep, Steady
  <1>2. Mild
    BY KilledStays DEF Mild, HostMild, Gentle, StopStep, Claimed, bootVars, sessionVars, dartVars
  <1> QED
    BY <1>1, <1>2, QuietKeeps DEF StopStep, sessionVars, dartVars

\* The isolate hears of the close only of a session that is shut.
LEMMA ToldSafe ==
  ASSUME SafeInv, TypeInv, NEW t \in Threads, NEW l, NEW n, NEW e, NEW set,
         Steady(t, l, n), Along(t, l, n), Go(t, l, n),
         flags' = flags \cup set,
         posted' = posted \/ posted' = Counted(e),
         UNCHANGED <<bootVars, sessionVars, hostVars, flowVars, dart>>, Honest(set),
         e = "SESSION_CLOSED" => Shut'
  PROVE  SafeInv'
  <1>1. Turns(t, l, n)
    BY GoTurns DEF Steady
  <1>2. posted'["SESSION_CLOSED"] > 0 => posted["SESSION_CLOSED"] > 0 \/ Shut'
    <2>1. posted["SESSION_CLOSED"] \in 0 .. 2
      BY DEF TypeInv, Events
    <2>2. CASE posted' = posted
      BY <2>2
    <2>3. CASE posted' = Counted(e) /\ e # "SESSION_CLOSED"
      BY <2>1, <2>3 DEF Counted, Events
    <2> QED
      BY <2>2, <2>3
  <1>3. Mild
    BY <1>2 DEF Mild, HostMild, Gentle, Honest, Claimed, bootVars, sessionVars, hostVars
  <1> QED
    BY <1>1, <1>3, QuietKeeps DEF sessionVars, hostVars

-----------------------------------------------------------------------------
(* References                                                              *)

\* With nobody left to do it, what was to end has ended.
LEMMA NobodyLeft ==
  ASSUME TypeInv', HostOK', WillEnd', Claimed' => Stops', Running' = 0,
         pc'["owner"] \in {"finalizer", "end"}, console' \notin {"OWNED", "RELEASED"}
  PROVE  Shut'
  <1>1. \A t \in Threads : pc'[t] \in {"off", "end", "finalizer"}
    <2>1. \A x : Runs(x) \in {0, 1}
      BY DEF Runs
    <2>2. /\ Runs(pc'["boot"]) = 0 /\ Runs(pc'["reader"]) = 0 /\ Runs(pc'["writer"]) = 0
          /\ Runs(pc'["waiter"]) = 0 /\ Runs(pc'["closer"]) = 0 /\ Runs(pc'["console"]) = 0
      BY <2>1 DEF Running
    <2>3. \A x : Runs(x) = 0 => x \in {"off", "end"}
      BY DEF Runs
    <2> QED
      BY <2>2, <2>3 DEF Threads, Workers
  <1>2. {"boot", "reader", "writer", "waiter"} \subseteq Threads
    BY DEF Threads, Workers
  <1>3. program' = "dead" \/ Shut'
    <2>1. \A t \in Threads : pc'[t] \notin StopAt(t)
      BY <1>1 DEF StopAt
    <2>2. Claimed' => program' = "dead"
      BY <2>1 DEF Stops
    <2>3. pc'["boot"] \notin Undecided \cup {"unstarted"}
      BY <1>1, <1>2 DEF Undecided, Early
    <2> QED
      BY <2>2, <2>3 DEF WillEnd
  <1>4. console' \in {"none", "CLOSED"}
    <2>1. \A t \in Threads : ~AtClose(t, pc'[t])
      BY <1>1 DEF AtClose
    <2>2. pc'["waiter"] \notin {"releasing", "unreleased"}
      BY <1>1, <1>2
    <2> QED
      BY <2>1, <2>2 DEF HostOK, TypeInv
  <1>5. ReaderOver' /\ WriterOver'
    BY <1>1, <1>2 DEF ReaderOver, WriterOver, ReadingAt, BusyAt, WritingAt, BeforeReader,
       BeforeWriter, Early
  <1> QED
    BY <1>3, <1>4, <1>5 DEF Shut

\* Dropping a reference: if it is the last one, nobody is left, or the session is
\* shut already.
LEMMA DropKeeps ==
  ASSUME SafeInv, TypeInv, TypeInv', NEW t \in Threads, NEW l, NEW n, Goes(t, l, n), Along(t, l, n),
         Gentle, Drop, RefsOK', HostOK',
         \/ Shut
         \/ refCount # 1
         \/ abandoned' /\ pc'["owner"] \in {"finalizer", "end"} /\ Running' = 0
  PROVE  SafeInv'
  <1>1. refCount \in Int /\ refCount' = refCount - 1
    BY DEF Drop, TypeInv
  <1>2. CASE Shut
    <2>1. console' = console
      BY <1>2 DEF Drop, FreedOpen, Shut
    <2>2. Shut'
      BY <1>2, <2>1, ShutStays DEF Gentle
    <2>3. Mild
      BY <2>1, <2>2 DEF Mild, HostMild
    <2> QED
      BY <2>3, StepKeeps
  <1>3. CASE refCount # 1
    <2>1. console' = console
      BY <1>3 DEF Drop, FreedOpen
    <2>2. refCount' <= 0 => refCount <= 0
      BY <1>1, <1>3
    <2>3. Mild
      BY <2>1, <2>2 DEF Mild, HostMild
    <2> QED
      BY <2>3, StepKeeps
  <1>4. CASE ~Shut /\ refCount = 1 /\ abandoned' /\ pc'["owner"] \in {"finalizer", "end"}
             /\ Running' = 0
    <2>1. console' \notin {"OWNED", "RELEASED"}
          /\ (console' = console \/ (console \in {"OWNED", "RELEASED"} /\ console' = "CLOSED"))
      BY <1>4 DEF Drop, FreedOpen
    <2>2. WillEnd'
      <3>1. CASE abandoned
        <4>1. WillEnd
          BY <3>1 DEF SafeInv, CloseOK
        <4> QED
          BY <1>4, <4>1, WillEndStays
      <3> QED
        BY <1>4, <3>1 DEF Gentle
    <2>3. Claimed' => Stops'
      BY StopsStays DEF Gentle, SafeInv, CloseOK
    <2>4. Shut'
      BY <1>4, <2>1, <2>2, <2>3, NobodyLeft
    <2>5. console \in {"OWNED", "RELEASED"} => program' = "dead"
      <3>1. console \in {"OWNED", "RELEASED"} => program # "none"
        BY DEF SafeInv, DeadOK
      <3> QED
        BY <2>4, <3>1 DEF Shut, Gentle
    <2>6. Mild
      BY <2>1, <2>4, <2>5 DEF Mild, HostMild
    <2> QED
      BY <2>6, StepKeeps
  <1> QED
    BY <1>2, <1>3, <1>4

\* The references and the labels at the last drop.
LEMMA LastRef ==
  ASSUME SafeInv, TypeInv, refCount = 1, ~Shut
  PROVE  /\ handed = IF abandoned THEN 1 ELSE 0
         /\ Running + (IF pc["owner"] = "unretain" THEN 1 ELSE 0) = handed
         /\ abandoned => pc["owner"] \in {"finalizer", "end"}
  <1>1. Running \in Nat
    <2>1. \A x : Runs(x) \in {0, 1}
      BY DEF Runs
    <2> QED
      BY <2>1 DEF Running
  <1>2. dart.finalizer # "detached"
    BY DEF SafeInv, ShutOK
  <1>3. abandoned => pc["owner"] \in {"finalizer", "end"}
    BY DEF SafeInv, ShutOK, CloseOK, LetGo
  <1> QED
    BY <1>1, <1>2, <1>3 DEF SafeInv, RefsOK

\* The last step of a worker.
LEMMA ReleaseSafe ==
  ASSUME SafeInv, TypeInv, TypeInv', NEW t \in Workers, NEW l, Release(t, l),
         l \in {"maybe", "release"}, Along(t, l, "end")
  PROVE  SafeInv'
  <1> DEFINE n == "end"
  <1>1. /\ t \in Threads /\ t # "owner" /\ n \in Labels /\ Along(t, l, n) /\ Runs(l) = 1
        /\ Runs(n) = 0 /\ ~AtClose(t, l) /\ l \notin {"releasing", "unreleased"}
    BY DEF Threads, Workers, Labels, Runs, AtClose
  <1>2. Go(t, l, n) /\ Drop
        /\ UNCHANGED <<bootVars, lifecycle, abandoned, handed, flags, program, flowVars, dartVars>>
    BY DEF Release
  <1> HIDE DEF n
  <1>3. Turns(t, l, n)
    BY <1>1, <1>2, GoTurns
  <1>4. Running' = Running - 1 /\ pc'["owner"] = pc["owner"] /\ Running \in Nat /\ Running' \in Nat
    BY <1>1, <1>3, TurnsCount
  <1>5. RefsOK'
    BY <1>2, <1>4 DEF Drop, SafeInv, RefsOK, dartVars, TypeInv
  <1>6. HostOK'
    BY <1>1, <1>2, <1>3, HostStays DEF SafeInv, Drop
  <1>7. Gentle
    BY <1>2 DEF Gentle, dartVars, Claimed
  <1>8. \/ Shut
        \/ refCount # 1
        \/ abandoned' /\ pc'["owner"] \in {"finalizer", "end"} /\ Running' = 0
    BY <1>2, <1>4, LastRef
  <1> QED
    BY <1>1, <1>2, <1>3, <1>5, <1>6, <1>7, <1>8, TurnsGo, DropKeeps

\* The thread that abandons the session is not the last: it is a worker with a
\* reference of its own, or the finalizer, with Dart's.
LEMMA NotTheLast ==
  ASSUME SafeInv, TypeInv, NEW t \in Threads, NEW l, NEW n, Turns(t, l, n), Steady(t, l, n),
         ~abandoned, t = "owner" => n = "end" \/ Shut
  PROVE  Shut \/ refCount # 1 \/ (pc'["owner"] \in {"finalizer", "end"} /\ Running' = 0)
  <1> SUFFICES ASSUME ~Shut, refCount = 1
               PROVE  pc'["owner"] \in {"finalizer", "end"} /\ Running' = 0
    OBVIOUS
  <1>1. Running = 0
    <2>1. \A x : Runs(x) \in {0, 1}
      BY DEF Runs
    <2>2. Running \in Nat
      BY <2>1 DEF Running
    <2> QED
      BY <2>2, LastRef
  <1>2. t = "owner"
    <2>1. \A x : Runs(x) \in {0, 1}
      BY DEF Runs
    <2>2. \A u \in Workers : Runs(pc[u]) = 0
      BY <1>1, <2>1 DEF Running, Workers
    <2>3. t # "owner" => Runs(pc[t]) = 1
      BY DEF Turns, Steady, Runs
    <2> QED
      BY <2>2, <2>3 DEF Threads
  <1> QED
    BY <1>1, <1>2, TurnsCount

\* pty_session_abandon: what is to end the session is on its way.
LEMMA AbandonSafe ==
  ASSUME SafeInv, IInv, TypeInv', NEW t \in Threads, NEW l, NEW n, NEW set, pc[t] = l,
         Abandon(t, set, n), Abandons, Steady(t, l, n), Along(t, l, n),
         {"readerDone", "writerDone", "closeStarted", "closeDone"} \cap set = {},
         t = "owner" => n = "end" \/ Shut,
         t = "boot" => l \notin Undecided \cup {"unstarted"}
  PROVE  SafeInv'
  <1> DEFINE m == [pc EXCEPT ![t] = n]
             bare == /\ ~Claimable /\ pc' = m /\ Drop /\ flags' = flags \cup set
                     /\ UNCHANGED <<program, events>>
             begun == /\ Claimable /\ pc' = [m EXCEPT !["closer"] = "stop"]
                      /\ flags' = flags \cup set \cup {"closeStarted"}
                      /\ UNCHANGED <<refCount, program, console, closes, events>>
             alone == /\ Claimable /\ MayFail("closer") /\ pc' \in Interrupted(m) /\ Drop
                      /\ flags' = flags \cup set \cup {"stopping", "closeStarted", "closeDone"}
                      /\ program' = Killed
  <1>1. /\ abandoned' = TRUE /\ handed' = handed + 1 /\ lifecycle' = ClosingFrom(lifecycle)
        /\ UNCHANGED <<boot, credit, pending, posted, dart>> /\ ~abandoned /\ ~dart.portOpen
    BY DEF Abandon, Abandons, flowVars, dartVars
  <1>2. bare \/ begun \/ alone
    BY DEF Abandon
  <1>3. TypeInv /\ n \in Labels
    BY DEF IInv, Steady
  <1>4. m \in [Threads -> Labels] /\ \A u \in Threads : m[u] = IF u = t THEN n ELSE pc[u]
    BY <1>3 DEF TypeInv
  <1>5. /\ lifecycle' # "STARTING" /\ lifecycle' # "RUNNING"
        /\ lifecycle' = "CLOSED" => lifecycle = "CLOSED"
    BY <1>1, <1>3 DEF ClosingFrom, TypeInv
  <1>6. Claimable => console # "none" /\ program # "none" /\ "closeStarted" \notin flags
    BY DEF Claimable, Published, SafeInv, DeadOK
  <1>7. ASSUME Turns(t, l, n), Drop PROVE RefsOK' /\ HostOK' /\ Goes(t, l, n)
    <2>1. Running' = Running
      BY <1>7, TurnsCount DEF Steady, Runs
    <2>2. pc["owner"] = "unretain" <=> pc'["owner"] = "unretain"
      BY <1>7, TurnsCount DEF Steady, Turns
    <2>3. RefsOK'
      BY <1>1, <1>3, <1>7, <2>1, <2>2 DEF Drop, SafeInv, RefsOK, TypeInv
    <2>4. HostOK'
      BY <1>7, HostStays DEF Drop, SafeInv, Steady
    <2> QED
      BY <1>7, <2>3, <2>4, TurnsGo
  <1>8. CASE bare
    <2>1. Turns(t, l, n)
      BY <1>4, <1>8 DEF Turns
    <2>2. RefsOK' /\ HostOK' /\ Goes(t, l, n)
      BY <1>7, <1>8, <2>1
    <2>3. pc'["boot"] = IF t = "boot" THEN n ELSE pc["boot"]
      BY <2>2, OverStays
    <2>4. Claimed' <=> Claimed
      BY <1>8 DEF Claimed
    <2>5. Shut => Shut'
      <3>1. console \in {"none", "CLOSED"} => console' = console
        BY <1>8 DEF Drop, FreedOpen
      <3> QED
        BY <1>8, <2>2, <3>1, ShutStays
    <2>6. WillEnd'
      <3>1. CASE ~Published
        <4>1. pc["boot"] \in Early \cup {"kill"} \/ Shut
          BY <3>1 DEF Published, SafeInv, ShutOK, Never
        <4>2. pc["boot"] \in Early \cup {"kill"} => pc'["boot"] \in Undecided
          BY <2>3 DEF Undecided
        <4> QED
          BY <1>5, <2>5, <4>1, <4>2 DEF WillEnd
      <3>2. CASE lifecycle \in {"STARTING", "CLOSED"}
        <4>1. Shut \/ pc["boot"] \in Undecided \/ Claimed
          BY <3>2 DEF SafeInv, ShutOK, CloseOK
        <4>2. pc["boot"] \in Undecided => pc'["boot"] \in Undecided
          BY <2>3
        <4> QED
          BY <1>5, <2>4, <2>5, <4>1, <4>2 DEF WillEnd
      <3>3. CASE {"closeStarted", "closeDone"} \cap flags # {}
        BY <2>4, <3>3 DEF WillEnd, Claimed
      <3> QED
        BY <1>3, <1>8, <3>1, <3>2, <3>3 DEF Claimable, TypeInv
    <2>7. Gentle
      BY <1>1, <1>5, <1>8, <2>4, <2>6 DEF Gentle
    <2>8. Shut \/ refCount # 1 \/ (pc'["owner"] \in {"finalizer", "end"} /\ Running' = 0)
      BY <1>1, <1>3, <2>1, NotTheLast
    <2> QED
      BY <1>1, <1>3, <1>8, <2>2, <2>7, <2>8, DropKeeps
  <1>9. CASE alone
    <2>1. Turns(t, l, n)
      BY <1>3, <1>9, CutTurns
    <2>2. RefsOK' /\ HostOK' /\ Goes(t, l, n)
      BY <1>7, <1>9, <2>1
    <2>3. program' = "dead"
      BY <1>6, <1>9, KilledStays
    <2>4. WillEnd' /\ Stops'
      BY <2>3 DEF WillEnd, Stops
    <2>5. Gentle
      BY <1>1, <1>5, <1>6, <1>9, <2>3, <2>4, KilledStays DEF Gentle
    <2>6. Shut \/ refCount # 1 \/ (pc'["owner"] \in {"finalizer", "end"} /\ Running' = 0)
      BY <1>1, <1>3, <2>1, NotTheLast
    <2> QED
      BY <1>1, <1>3, <1>9, <2>2, <2>5, <2>6, DropKeeps
  <1>10. CASE begun
    <2>1. "closer" \in Threads /\ "stop" \in Labels /\ "owner" \in Threads /\ "waiter" \in Threads
          /\ "boot" \in Threads
      BY DEF Threads, Workers, Labels
    <2>2. /\ pc' \in [Threads -> Labels] /\ pc'["closer"] = "stop"
          /\ \A u \in Threads : u # "closer" => pc'[u] = m[u]
      BY <1>4, <1>10, <2>1
    <2>3. pc["closer"] = "off" /\ pc["owner"] # "create" /\ t # "closer"
      BY <1>6, <1>10 DEF SafeInv, StartOK, Steady
    <2>4. Goes(t, l, n)
      <3>1. pc'["owner"] # "create"
        BY <1>4, <2>1, <2>2, <2>3 DEF Along
      <3>2. "closeStarted" \in flags'
        BY <1>10
      <3> QED
        BY <1>4, <2>1, <2>2, <2>3, <3>1, <3>2 DEF Goes, Alters
    <2>5. RefsOK'
      <3>1. Running' = Running + 1
        <4>1. Threads = {"boot", "reader", "writer", "waiter", "closer", "console", "owner"}
          BY DEF Threads, Workers
        <4>2. \A u \in Threads \ {"closer", "owner"} : Runs(pc'[u]) = Runs(pc[u])
          BY <1>4, <2>2 DEF Runs, Steady
        <4>3. Runs(pc'["closer"]) = 1 /\ Runs(pc["closer"]) = 0
          BY <2>2, <2>3 DEF Runs
        <4>4. \A x : Runs(x) \in {0, 1}
          BY DEF Runs
        <4>5. /\ Runs(pc'["boot"]) = Runs(pc["boot"]) /\ Runs(pc'["reader"]) = Runs(pc["reader"])
              /\ Runs(pc'["writer"]) = Runs(pc["writer"])
              /\ Runs(pc'["waiter"]) = Runs(pc["waiter"])
              /\ Runs(pc'["console"]) = Runs(pc["console"])
          BY <4>1, <4>2
        <4> QED
          BY <4>3, <4>4, <4>5 DEF Running
      <3>2. pc["owner"] = "unretain" <=> pc'["owner"] = "unretain"
        BY <1>4, <2>1, <2>2 DEF Steady
      <3>3. Running \in Nat
        <4>1. \A x : Runs(x) \in {0, 1}
          BY DEF Runs
        <4> QED
          BY <4>1 DEF Running
      <3>4. refCount' = refCount /\ refCount \in Int /\ handed \in Nat
        BY <1>3, <1>10 DEF TypeInv
      <3> HIDE DEF bare, begun, alone, m
      <3> QED
        BY <1>1, <3>1, <3>2, <3>3, <3>4 DEF SafeInv, RefsOK
    <2>6. HostOK'
      <3>1. \A u \in Threads : AtClose(u, pc[u]) => AtClose(u, pc'[u])
        BY <1>4, <2>2, <2>3 DEF AtClose, Steady
      <3>2. pc["waiter"] \in {"releasing", "unreleased"} => pc'["waiter"] \in {"releasing", "unreleased"}
        BY <1>4, <2>1, <2>2 DEF Steady
      <3>3. pc'["boot"] = "unstartedWait" => pc["boot"] = "unstartedWait" \/ console' \in {"CLOSING", "CLOSED"}
        BY <1>4, <2>1, <2>2 DEF Along, BootAlong
      <3> QED
        BY <1>10, <3>1, <3>2, <3>3 DEF SafeInv, HostOK
    <2>7. Stops' /\ WillEnd'
      BY <1>10, <2>1, <2>2 DEF Stops, StopAt, WillEnd, Claimed
    <2>8. Mild
      BY <1>1, <1>5, <1>10, <2>7 DEF Mild, HostMild, Gentle
    <2> QED
      BY <2>4, <2>5, <2>6, <2>8, StepKeeps
  <1> HIDE DEF bare, begun, alone
  <1> QED
    BY <1>2, <1>8, <1>9, <1>10

\* post_session_event, with what a post that fails does.
LEMMA PostSafe ==
  ASSUME SafeInv, IInv, TypeInv', NEW t \in Threads, NEW l, NEW n, NEW e, NEW set,
         Post(t, l, e, set, n), Steady(t, l, n), Along(t, l, n),
         {"readerDone", "writerDone", "closeStarted", "closeDone"} \cap set = {},
         t = "owner" => Shut,
         t = "boot" => l \notin Undecided \cup {"unstarted"},
         e = "SESSION_CLOSED" => l \in ShutAt(t)
  PROVE  SafeInv'
  <1>1. CASE Abandons /\ Abandon(t, set, n)
    BY <1>1, AbandonSafe DEF Post
  <1>2. CASE ~(Abandons /\ Abandon(t, set, n))
    <2>1. /\ Go(t, l, n) /\ flags' = flags \cup set
          /\ posted' = posted \/ posted' = Counted(e)
          /\ UNCHANGED <<bootVars, sessionVars, hostVars, flowVars, dart>>
      BY <1>2 DEF Post
    <2>2. TypeInv /\ n \in Labels
      BY DEF IInv, Steady
    <2>3. Goes(t, l, n)
      BY <2>1, <2>2, GoTurns, TurnsGo
    <2>4. e = "SESSION_CLOSED" => Shut'
      <3>1. e = "SESSION_CLOSED" => Shut
        BY <2>1 DEF SafeInv, ShutOK, Go
      <3> QED
        BY <2>1, <2>3, <3>1, ShutStays DEF hostVars
    <2>5. Honest(set)
      BY DEF Honest
    <2> QED
      BY <2>1, <2>2, <2>4, <2>5, ToldSafe
  <1> QED
    BY <1>1, <1>2

\* ... and marks one end of the console closed, ...
LEMMA OutputClosedSafe ==
  ASSUME SafeInv, IInv, TypeInv', NEW t \in Threads \ {"owner"}, NEW l, NEW n,
         OutputClosed(t, l, n), Steady(t, l, n), Along(t, l, n),
         t = "boot" => l \notin Undecided \cup {"unstarted"}
  PROVE  SafeInv'
  <1>1. TypeInv
    BY DEF IInv
  <1>2. CASE FlagStep(t, l, {}, n)
    BY <1>1, <1>2, LookSafe
  <1>3. CASE Post(t, l, "OUTPUT_CLOSED", {"outputClosed"}, n)
    BY <1>3, PostSafe
  <1> QED
    BY <1>2, <1>3 DEF OutputClosed, MarkStep

\* ... or the other one.
LEMMA InputClosedSafe ==
  ASSUME SafeInv, IInv, TypeInv', NEW t \in Threads \ {"owner"}, NEW l, NEW n,
         InputClosed(t, l, n), Steady(t, l, n), Along(t, l, n),
         t = "boot" => l \notin Undecided \cup {"unstarted"}
  PROVE  SafeInv'
  <1>1. TypeInv
    BY DEF IInv
  <1>2. CASE FlagStep(t, l, {}, n)
    BY <1>1, <1>2, LookSafe
  <1>3. CASE Post(t, l, "INPUT_CLOSED", {"inputClosed"}, n)
    BY <1>3, PostSafe
  <1> QED
    BY <1>2, <1>3 DEF InputClosed, MarkStep

\* windows_maybe_post_closed finds every part of the session done.
LEMMA ClaimsShut ==
  ASSUME SafeInv, TypeInv, Claims
  PROVE  Shut
  <1>1. {"readerDone", "writerDone"} \subseteq flags /\ console = "CLOSED"
    BY DEF Claims, Complete, AllParts
  <1> QED
    BY <1>1 DEF SafeInv, StartOK, DeadOK, Shut

\* windows_maybe_post_closed claims SESSION_CLOSED once everything has ended, and posts it.
LEMMA ClaimClosedSafe ==
  ASSUME SafeInv, IInv, TypeInv', NEW t \in Threads, NEW l, NEW n, ClaimClosed(t, l, n),
         Steady(t, l, "SESSION_CLOSED"), Shut' => Along(t, l, "SESSION_CLOSED"),
         Steady(t, "SESSION_CLOSED", n), Along(t, "SESSION_CLOSED", n)
  PROVE  SafeInv'
  <1>1. TypeInv
    BY DEF IInv
  <1>2. CASE PostStep(t, "SESSION_CLOSED", "SESSION_CLOSED", n)
    <2>1. Post(t, "SESSION_CLOSED", "SESSION_CLOSED", {}, n)
      BY <1>2 DEF PostStep
    <2>2. "SESSION_CLOSED" \in ShutAt(t) /\ "SESSION_CLOSED" \notin Undecided \cup {"unstarted"}
      BY DEF ShutAt, Undecided, Early
    <2>3. Shut
      BY <2>1, <2>2 DEF Post, SafeInv, ShutOK
    <2> QED
      BY <2>1, <2>2, <2>3, PostSafe
  <1>3. CASE /\ Claims /\ Go(t, l, "SESSION_CLOSED")
             /\ flags' = flags \cup {"closedPosted"} /\ lifecycle' = "CLOSED"
             /\ UNCHANGED <<bootVars, abandoned, refCount, handed, hostVars, flowVars, dartVars>>
    <2> DEFINE m == "SESSION_CLOSED"
    <2>1. Shut
      BY <1>1, <1>3, ClaimsShut
    <2>2. Go(t, l, m) /\ m \in Labels
      BY <1>3 DEF Labels
    <2>3. Shut'
      <3>1. {"boot", "reader", "writer"} \subseteq Threads
        BY DEF Threads, Workers
      <3>2. \A u \in Threads : pc'[u] = pc[u] \/ pc'[u] = "SESSION_CLOSED"
        BY <1>1, <2>2 DEF Go, TypeInv
      <3> QED
        BY <1>3, <2>1, <3>1, <3>2 DEF Shut, ReaderOver, WriterOver, ReadingAt, BusyAt, WritingAt,
           BeforeReader, BeforeWriter, Early, hostVars
    <2> HIDE DEF m
    <2>4. Turns(t, l, m)
      BY <1>1, <2>2, GoTurns
    <2>5. Mild
      BY <1>3, <2>3 DEF Mild, HostMild, Gentle, Claimed, bootVars, hostVars, dartVars
    <2>6. Along(t, l, m) /\ Steady(t, l, m)
      BY <2>3 DEF m
    <2> QED
      BY <1>3, <2>4, <2>5, <2>6, QuietKeeps DEF hostVars, dartVars
  <1> QED
    BY <1>2, <1>3 DEF ClaimClosed

\* The last steps of a worker.
LEMMA EndingSafe ==
  ASSUME SafeInv, IInv, TypeInv', NEW t \in Workers, Ending(t)
  PROVE  SafeInv'
  <1>1. t \in Threads /\ t # "owner"
    BY DEF Threads, Workers
  <1>2. /\ Steady(t, "maybe", "SESSION_CLOSED") /\ Steady(t, "SESSION_CLOSED", "release")
    BY DEF Steady, Labels, AtClose
  <1>3. /\ Shut' => Along(t, "maybe", "SESSION_CLOSED")
        /\ Along(t, "SESSION_CLOSED", "release")
        /\ Along(t, "release", "end") /\ Along(t, "maybe", "end")
    BY <1>1 DEF Along, BootAlong, ShutAt, DeadAt, StopAt, ReadingAt, BusyAt, WritingAt,
       BeforeReader, BeforeWriter, NotYet, Unstarted, Unborn, Undecided, Early
  <1>4. TypeInv
    BY DEF IInv
  <1>5. CASE ClaimClosed(t, "maybe", "release")
    BY <1>1, <1>2, <1>3, <1>5, ClaimClosedSafe
  <1>6. CASE Release(t, "release")
    BY <1>3, <1>4, <1>6, ReleaseSafe
  <1>7. CASE Release(t, "maybe")
    BY <1>3, <1>4, <1>7, ReleaseSafe
  <1> QED
    BY <1>5, <1>6, <1>7 DEF Ending

\* A thread is created, with a reference of its own.
LEMMA OneMore ==
  ASSUME NEW w \in Workers, pc[w] = "off", Runs(pc'[w]) = 1,
         \A u \in Workers \ {w} : Runs(pc'[u]) = Runs(pc[u])
  PROVE  Running \in Nat /\ Running' = Running + 1
  <1>1. Workers = {"boot", "reader", "writer", "waiter", "closer", "console"}
    BY DEF Workers
  <1>2. \A x : Runs(x) \in {0, 1}
    BY DEF Runs
  <1>3. Running \in Nat
    BY <1>2 DEF Running
  <1>4. Runs(pc[w]) = 0
    BY DEF Runs
  <1>5. \A u \in Workers : Runs(pc'[u]) = IF u = w THEN Runs(pc[u]) + 1 ELSE Runs(pc[u])
    BY <1>4
  <1>6. /\ Runs(pc'["boot"]) = IF "boot" = w THEN Runs(pc["boot"]) + 1 ELSE Runs(pc["boot"])
        /\ Runs(pc'["reader"]) = IF "reader" = w THEN Runs(pc["reader"]) + 1 ELSE Runs(pc["reader"])
        /\ Runs(pc'["writer"]) = IF "writer" = w THEN Runs(pc["writer"]) + 1 ELSE Runs(pc["writer"])
        /\ Runs(pc'["waiter"]) = IF "waiter" = w THEN Runs(pc["waiter"]) + 1 ELSE Runs(pc["waiter"])
        /\ Runs(pc'["closer"]) = IF "closer" = w THEN Runs(pc["closer"]) + 1 ELSE Runs(pc["closer"])
        /\ Runs(pc'["console"]) = IF "console" = w THEN Runs(pc["console"]) + 1 ELSE Runs(pc["console"])
    BY <1>1, <1>5
  <1> HIDE DEF Runs
  <1>7. Running' = Running + 1
    <2>1. w \in {"boot", "reader", "writer", "waiter", "closer", "console"}
      BY <1>1
    <2> QED
      BY <1>2, <1>6, <2>1 DEF Running
  <1> QED
    BY <1>3, <1>7

-----------------------------------------------------------------------------
(* The pseudo console, once more                                           *)

\* A step that moves a thread and the state of the console.
LEMMA HostStepSafe ==
  ASSUME SafeInv, NEW t \in Threads, NEW l, NEW n, Turns(t, l, n), Along(t, l, n), Mild, HostOK',
         t # "owner" => l \notin {"off", "end"} /\ n \notin {"off", "end"},
         t = "owner" => (l = "unretain" <=> n = "unretain"),
         UNCHANGED <<refCount, handed, abandoned>>, dart'.finalizer = dart.finalizer
  PROVE  SafeInv'
  <1>1. pc["owner"] = "unretain" <=> pc'["owner"] = "unretain"
    BY TurnsCount DEF Turns
  <1>2. Running' = Running
    BY TurnsCount DEF Runs
  <1>3. RefsOK'
    BY <1>1, <1>2 DEF SafeInv, RefsOK
  <1> QED
    BY <1>3, TurnsGo, StepKeeps

\* A step that moves the console on, by who may.
LEMMA ConsoleStepMild ==
  ASSUME NEW t, NEW l, NEW c, NEW n, ConsoleStep(t, l, c, n),
         console \notin {"none", "CLOSED"}, c # "none",
         console = "CLOSING" => c \in {"CLOSING", "CLOSED"},
         c \in {"CLOSING", "CLOSED"} => console = "CLOSING" \/ program = "dead"
  PROVE  Mild /\ console' = c
  BY DEF ConsoleStep, Mild, HostMild, Gentle, Claimed, bootVars, sessionVars, dartVars

\* The thread that is to close the console has no other at its side.
LEMMA InlineSafe ==
  ASSUME SafeInv, IInv, NEW t \in Threads \ {"console"}, NEW n, NEW i \in {"inline", "unstartedInline"},
         ConsoleStep(t, i, "CLOSED", n), n \in Labels \ {"off", "end", "unretain"},
         console' \in {"CLOSING", "CLOSED"} => Along(t, i, n)
  PROVE  SafeInv'
  <1>1. Go(t, i, n) /\ pc[t] = i /\ console' = "CLOSED" /\ UNCHANGED <<sessionVars, dartVars>>
    BY DEF ConsoleStep, Go
  <1>2. TypeInv /\ AtClose(t, pc[t])
    BY <1>1 DEF IInv, AtClose
  <1>3. console = "CLOSING"
    BY <1>2 DEF IInv, ConsoleOK, PlaceOK
  <1>4. Turns(t, i, n) /\ Along(t, i, n)
    BY <1>1, <1>2, GoTurns
  <1>5. Mild
    BY <1>3, ConsoleStepMild
  <1>6. HostOK'
    BY <1>1 DEF HostOK
  <1> QED
    BY <1>1, <1>4, <1>5, <1>6, HostStepSafe DEF sessionVars, dartVars

\* The first to claim the close creates the thread for it, which has a reference
\* of its own.
LEMMA StartCloseSafe ==
  ASSUME SafeInv, IInv, NEW t \in Threads \ {"console", "writer", "reader"}, NEW l, NEW n,
         NEW i \in {"inline", "unstartedInline"}, StartClose(t, l, i, n),
         l \in DeadAt(t), l \notin Before(t), Steady(t, l, n),
         l \notin {"unretain", "off", "end"}, n \notin {"unretain", "off", "end"},
         console' \in {"CLOSING", "CLOSED"} => Along(t, l, n) /\ Along(t, l, i) /\ Along(t, i, n)
  PROVE  SafeInv'
  <1> DEFINE rest == UNCHANGED <<boot, lifecycle, abandoned, handed, flags, closes, program,
                                 flowVars, dartVars>>
             claim == Unclaimed /\ console # "RELEASING" /\ pc[t] = l /\ console' = "CLOSING"
                      /\ rest
             created == /\ pc' = [pc EXCEPT ![t] = n, !["console"] = "close"]
                        /\ refCount' = refCount + 1 /\ UNCHANGED events
             inline == MayFail("console") /\ Go(t, l, i) /\ UNCHANGED refCount
  <1>1. TypeInv /\ n \in Labels
    BY DEF IInv, Steady
  <1>2. CASE ~Unclaimed /\ FlagStep(t, l, {}, n)
    <2>1. console' \in {"CLOSING", "CLOSED"}
      BY <1>2 DEF Unclaimed, FlagStep, hostVars
    <2> QED
      BY <1>1, <1>2, <2>1, LookSafe
  <1>3. CASE ConsoleStep(t, i, "CLOSED", n)
    <2>1. console' \in {"CLOSING", "CLOSED"} => Along(t, i, n)
      OBVIOUS
    <2>2. n \in Labels \ {"off", "end", "unretain"}
      BY <1>1
    <2> QED
      BY <1>3, <2>1, <2>2, InlineSafe
  <1>4. CASE claim /\ (created \/ inline)
    <2>1. /\ Unclaimed /\ console # "RELEASING" /\ pc[t] = l /\ console' = "CLOSING"
          /\ UNCHANGED <<lifecycle, abandoned, handed, flags, program, posted, dart>>
      BY <1>4 DEF flowVars, dartVars
    <2>2. program = "dead"
      BY <2>1 DEF SafeInv, DeadOK
    <2>3. console \notin {"none", "CLOSING", "CLOSED"}
      BY <2>1 DEF Unclaimed, IInv, ConsoleOK, PlaceOK
    <2>4. HostMild <=> (refCount' <= 0 => refCount <= 0 \/ Shut')
      BY <2>1, <2>2, <2>3 DEF HostMild
    <2>5. Gentle
      BY <2>1 DEF Gentle, Claimed
    <2>6. CASE created
      <3>1. "console" \in Threads /\ "owner" \in Threads /\ "close" \in Labels /\ "console" \in Workers
        BY DEF Threads, Workers, Labels
      <3>2. pc["console"] = "off"
        BY <2>3 DEF SafeInv, StartOK
      <3>3. /\ pc' \in [Threads -> Labels] /\ pc'["console"] = "close"
            /\ \A u \in Threads \ {"console"} : pc'[u] = IF u = t THEN n ELSE pc[u]
        BY <1>1, <2>6, <3>1 DEF TypeInv
      <3>4. Goes(t, l, n)
        BY <2>1, <3>2, <3>3 DEF Goes, Alters
      <3>5. Running' = Running + 1 /\ Running \in Nat
        <4>1. Runs(pc'["console"]) = 1
          BY <3>3 DEF Runs
        <4>2. \A u \in Workers \ {"console"} : Runs(pc'[u]) = Runs(pc[u])
          BY <2>1, <3>3 DEF Runs, Threads
        <4> QED
          BY <3>1, <3>2, <4>1, <4>2, OneMore
      <3>6. pc["owner"] = "unretain" <=> pc'["owner"] = "unretain"
        BY <2>1, <3>1, <3>3
      <3>7. refCount' = refCount + 1 /\ refCount \in Int /\ handed \in Nat
        BY <1>1, <2>6 DEF TypeInv
      <3> HIDE DEF claim, created, inline
      <3>8. RefsOK'
        BY <2>1, <3>5, <3>6, <3>7 DEF SafeInv, RefsOK
      <3>9. HostOK'
        BY <2>1, <3>1, <3>3 DEF HostOK, AtClose
      <3>10. Mild
        BY <2>4, <2>5, <3>7 DEF Mild
      <3> QED
        BY <2>1, <3>4, <3>8, <3>9, <3>10, StepKeeps
    <2>7. CASE inline
      <3>1. Go(t, l, i) /\ refCount' = refCount /\ i \in Labels
        BY <2>7 DEF Labels
      <3>2. Turns(t, l, i)
        BY <1>1, <3>1, GoTurns
      <3>3. pc'[t] = i
        BY <1>1, <3>1 DEF Go, TypeInv
      <3>4. AtClose(t, pc'[t])
        BY <3>3 DEF AtClose
      <3>5. HostOK'
        BY <2>1, <3>4 DEF HostOK
      <3>6. Mild
        BY <2>4, <2>5, <3>1 DEF Mild
      <3>7. i \notin {"off", "end", "unretain"} /\ Along(t, l, i)
        BY <2>1
      <3> HIDE DEF claim, created, inline
      <3> QED
        BY <2>1, <3>1, <3>2, <3>5, <3>6, <3>7, HostStepSafe
    <2> QED
      BY <1>4, <2>6, <2>7
  <1> QED
    BY <1>2, <1>3, <1>4 DEF StartClose

\* The caller then waits until the console is closed.
LEMMA ClosesSafe ==
  ASSUME SafeInv, IInv, NEW t \in Threads \ {"console", "writer", "reader"}, NEW l, NEW w, NEW n,
         NEW i \in {"inline", "unstartedInline"}, Closes(t, l, i, w, n),
         l \in DeadAt(t), l \notin Before(t), Steady(t, l, w), Steady(t, w, n),
         l \notin {"unretain", "off", "end"}, w \notin {"unretain", "off", "end"},
         console' \in {"CLOSING", "CLOSED"} => Along(t, l, w) /\ Along(t, l, i) /\ Along(t, i, w),
         console # "CLOSING" /\ FlagStep(t, w, {}, n) => Along(t, w, n)
  PROVE  SafeInv'
  <1>1. CASE StartClose(t, l, i, w)
    BY <1>1, StartCloseSafe
  <1>2. CASE console # "CLOSING" /\ FlagStep(t, w, {}, n)
    BY <1>2, LookSafe DEF IInv
  <1> QED
    BY <1>1, <1>2 DEF Closes

\* ClosePseudoConsole returns in the thread that was created for it.
LEMMA ConsoleWorkerSafe ==
  ASSUME SafeInv, IInv, IInv', ConsoleWorker
  PROVE  SafeInv'
  <1> DEFINE t == "console"
             l == "close"
             n == "end"
  <1>1. /\ Go(t, l, n) /\ console' = "CLOSED" /\ refCount' = refCount - 1
        /\ UNCHANGED <<bootVars, lifecycle, abandoned, handed, flags, program, flowVars, dartVars>>
    BY DEF ConsoleWorker
  <1>2. /\ t \in Threads /\ t # "owner" /\ n \in Labels /\ Runs(l) = 1 /\ Runs(n) = 0
        /\ t # "waiter" /\ t # "boot" /\ AtClose(t, l)
    BY DEF Threads, Workers, Labels, Runs, AtClose
  <1>3. Along(t, l, n)
    BY DEF Along, ShutAt, DeadAt, StopAt
  <1> HIDE DEF t, l, n
  <1>4. TypeInv /\ TypeInv' /\ console = "CLOSING"
    BY <1>1, <1>2 DEF IInv, ConsoleOK, PlaceOK, Go
  <1>5. Turns(t, l, n)
    BY <1>1, <1>2, <1>4, GoTurns
  <1>6. Goes(t, l, n)
    BY <1>2, <1>5, TurnsGo
  <1>7. Running' = Running - 1 /\ pc'["owner"] = pc["owner"] /\ Running \in Nat /\ Running' \in Nat
    BY <1>2, <1>5, TurnsCount
  <1>8. RefsOK'
    BY <1>1, <1>4, <1>7 DEF SafeInv, RefsOK, dartVars, TypeInv
  <1>9. HostOK'
    BY <1>1 DEF HostOK
  <1>10. program = "dead" /\ ~Shut
    BY <1>4 DEF SafeInv, DeadOK, Shut
  <1>11. Gentle
    BY <1>1 DEF Gentle, dartVars, Claimed
  <1>12. refCount' <= 0 => refCount <= 0 \/ Shut'
    <2>1. CASE refCount = 1
      <3>1. abandoned' /\ pc'["owner"] \in {"finalizer", "end"} /\ Running' = 0
        BY <1>1, <1>4, <1>7, <1>10, <2>1, LastRef
      <3>2. WillEnd'
        <4>1. WillEnd
          BY <1>1, <3>1 DEF SafeInv, CloseOK
        <4> QED
          BY <1>2, <1>3, <1>6, <1>10, <1>11, <4>1, WillEndStays
      <3>3. Claimed' => Stops'
        BY <1>1, <1>10 DEF Stops
      <3> QED
        BY <1>1, <1>4, <1>9, <3>1, <3>2, <3>3, NobodyLeft
    <2>2. CASE refCount # 1
      BY <1>1, <1>4, <2>2 DEF TypeInv
    <2> QED
      BY <2>1, <2>2
  <1>13. Mild
    BY <1>1, <1>4, <1>11, <1>12 DEF Mild, HostMild
  <1> QED
    BY <1>2, <1>3, <1>6, <1>8, <1>9, <1>13, StepKeeps

\* The waiter releases the console, as long as nobody has closed it, or gives it
\* back.
LEMMA WaiterConsoleSafe ==
  ASSUME SafeInv, IInv, NEW l \in {"ownership", "releasing", "unreleased"},
         NEW n \in {"releasing", "done", "close"},
         NEW c \in {"OWNED", "RELEASING", "RELEASED"},
         ConsoleStep("waiter", l, c, n), console \in {"OWNED", "RELEASING"},
         c = "RELEASING" => n = "releasing"
  PROVE  SafeInv'
  <1>1. "waiter" \in Threads /\ n \in Labels
    BY DEF Threads, Workers, Labels
  <1>2. Go("waiter", l, n) /\ TypeInv
    BY DEF ConsoleStep, IInv
  <1>3. Turns("waiter", l, n) /\ pc'["waiter"] = n
    BY <1>1, <1>2, GoTurns DEF Go, TypeInv
  <1>4. Along("waiter", l, n)
    BY DEF Along, ShutAt, DeadAt, StopAt
  <1>5. Mild /\ console' = c
    BY ConsoleStepMild
  <1>6. HostOK'
    <2>1. pc'["boot"] = pc["boot"]
      BY <1>1, <1>2 DEF Go, TypeInv, Threads, Workers
    <2> QED
      BY <1>3, <1>5, <2>1 DEF SafeInv, HostOK
  <1> QED
    BY <1>1, <1>3, <1>4, <1>5, <1>6, HostStepSafe DEF ConsoleStep, sessionVars, dartVars

-----------------------------------------------------------------------------
(* The waiter, the close thread, the reader and the writer, once more      *)

\* windows_waiter_thread_main: the program ends, the console is released or closed.
LEMMA WaiterSafe ==
  ASSUME SafeInv, IInv, IInv', Waiter
  PROVE  SafeInv'
  <1>1. /\ "waiter" \in Threads \ {"owner"} /\ "waiter" \in Workers
        /\ "waiter" \in Threads \ {"console", "writer", "reader"} /\ TypeInv /\ TypeInv'
    BY DEF Threads, Workers, IInv
  <1>2. /\ Steady("waiter", "top", "exit") /\ Steady("waiter", "exit", "ownership")
        /\ Steady("waiter", "unreadable", "ownership") /\ Steady("waiter", "waitFailed", "done")
        /\ Steady("waiter", "done", "maybe") /\ Steady("waiter", "ownership", "done")
        /\ Steady("waiter", "ownership", "close") /\ Steady("waiter", "releasing", "unreleased")
        /\ Steady("waiter", "close", "done")
    BY DEF Steady, Labels, AtClose
  <1>3. /\ Along("waiter", "exit", "ownership") /\ Along("waiter", "unreadable", "ownership")
        /\ Along("waiter", "waitFailed", "done") /\ Along("waiter", "done", "maybe")
        /\ Along("waiter", "ownership", "done") /\ Along("waiter", "ownership", "close")
        /\ Along("waiter", "releasing", "unreleased") /\ Along("waiter", "close", "done")
        /\ Along("waiter", "close", "inline") /\ Along("waiter", "inline", "done")
    BY DEF Along, ShutAt, DeadAt, StopAt
  <1>4. CASE program = "dead" /\ FlagStep("waiter", "top", {"exited"}, "exit")
    <2>1. program' = "dead" /\ Honest({"exited"})
      BY <1>4 DEF FlagStep, hostVars, Honest
    <2>2. Along("waiter", "top", "exit")
      BY <2>1 DEF Along, ShutAt, DeadAt, StopAt
    <2> QED
      BY <1>1, <1>2, <1>4, <2>1, <2>2, FlagStepSafe
  <1>5. CASE \/ PostStep("waiter", "exit", "PROCESS_EXIT", "ownership")
             \/ PostStep("waiter", "unreadable", "ASYNC_ERROR", "ownership")
             \/ PostStep("waiter", "waitFailed", "ASYNC_ERROR", "done")
    BY <1>1, <1>2, <1>3, <1>5, PostSafe DEF PostStep
  <1>6. CASE FlagStep("waiter", "done", {"exited", "waiterDone"}, "maybe")
    <2>1. Honest({"exited", "waiterDone"})
      BY DEF Honest
    <2> QED
      BY <1>1, <1>2, <1>3, <1>6, <2>1, FlagStepSafe
  <1>7. CASE Ending("waiter")
    BY <1>1, <1>7, EndingSafe
  <1>8. CASE Releases
    <2>1. CASE FlagStep("waiter", "ownership", {}, "done")
      BY <1>1, <1>2, <1>3, <2>1, LookSafe
    <2>2. CASE console = "OWNED" /\ ConsoleStep("waiter", "ownership", "RELEASING", "releasing")
      BY <2>2, WaiterConsoleSafe
    <2>3. CASE \/ Fails("release", "waiter", "ownership", "close")
               \/ Fails("release", "waiter", "releasing", "unreleased")
      BY <1>1, <1>2, <1>3, <2>3, FailsSafe
    <2>4. CASE \/ ConsoleStep("waiter", "releasing", "RELEASED", "done")
               \/ ConsoleStep("waiter", "unreleased", "OWNED", "close")
      <3>1. pc["waiter"] \in {"releasing", "unreleased"}
        BY <2>4 DEF ConsoleStep, Go
      <3>2. console = "RELEASING"
        BY <1>1, <3>1 DEF IInv, ConsoleOK, PlaceOK
      <3> QED
        BY <2>4, <3>2, WaiterConsoleSafe
    <2>5. CASE StartClose("waiter", "close", "inline", "done")
      <3>1. "close" \in DeadAt("waiter") /\ "close" \notin Before("waiter")
        BY DEF DeadAt, Before
      <3> QED
        BY <1>1, <1>2, <1>3, <2>5, <3>1, StartCloseSafe
    <2> QED
      BY <1>8, <2>1, <2>2, <2>3, <2>4, <2>5 DEF Releases
  <1> QED
    BY <1>4, <1>5, <1>6, <1>7, <1>8 DEF Waiter

\* windows_close_thread_main: the program is stopped and the console closed.
LEMMA CloserSafe ==
  ASSUME SafeInv, IInv, IInv', Closer
  PROVE  SafeInv'
  <1>1. /\ "closer" \in Threads /\ "closer" \in Workers
        /\ "closer" \in Threads \ {"console", "writer", "reader"} /\ TypeInv /\ TypeInv'
    BY DEF Threads, Workers, IInv
  <1>2. /\ Steady("closer", "stop", "close") /\ Steady("closer", "close", "wait")
        /\ Steady("closer", "wait", "done") /\ Steady("closer", "done", "maybe")
    BY DEF Steady, Labels, AtClose
  <1>3. /\ Along("closer", "close", "wait") /\ Along("closer", "close", "inline")
        /\ Along("closer", "inline", "wait") /\ Along("closer", "wait", "done")
        /\ Along("closer", "done", "maybe")
    BY DEF Along, ShutAt, DeadAt, StopAt
  <1>4. CASE StopStep("closer", "stop", "close")
    <2>1. console # "none"
      BY <1>1, <1>4 DEF StopStep, IInv, ConsoleOK, PlaceOK, Before
    <2>2. program' = "dead"
      BY <1>4, <2>1, KilledStays DEF StopStep, SafeInv, DeadOK
    <2>3. Along("closer", "stop", "close")
      BY <2>2 DEF Along, ShutAt
    <2> QED
      BY <1>1, <1>2, <1>4, <2>3, StopStepSafe
  <1>5. CASE Closes("closer", "close", "inline", "wait", "done")
    <2>1. "close" \in DeadAt("closer") /\ "close" \notin Before("closer")
      BY DEF DeadAt, Before
    <2> QED
      BY <1>1, <1>2, <1>3, <1>5, <2>1, ClosesSafe
  <1>6. CASE FlagStep("closer", "done", {"closeDone"}, "maybe")
    <2>1. program = "dead" /\ program' = "dead"
      BY <1>1, <1>6 DEF FlagStep, Go, SafeInv, DeadOK, DeadAt, hostVars
    <2>2. Honest({"closeDone"})
      BY <2>1 DEF Honest, Stops
    <2> QED
      BY <1>1, <1>2, <1>3, <1>6, <2>2, FlagStepSafe
  <1>7. CASE Ending("closer")
    BY <1>1, <1>7, EndingSafe
  <1> QED
    BY <1>4, <1>5, <1>6, <1>7 DEF Closer

\* A step that concerns the credit, the write queue and their flags.
LEMMA FlowStepSafe ==
  ASSUME SafeInv, TypeInv, NEW t \in Threads, NEW l, NEW n, Steady(t, l, n), Along(t, l, n),
         Go(t, l, n), UNCHANGED <<bootVars, sessionVars, hostVars, dartVars>>,
         \A f \in FlagNames \ {"backpressured"} : f \in flags' <=> f \in flags
  PROVE  SafeInv'
  <1>1. Turns(t, l, n)
    BY GoTurns DEF Steady
  <1>2. {"readerStarted", "writerStarted", "closeStarted", "closeDone", "readerDone", "writerDone"}
          \subseteq FlagNames \ {"backpressured"}
    BY DEF FlagNames, AllParts, StartedFlags
  <1>3. Mild
    BY <1>2 DEF Mild, HostMild, Gentle, Claimed, bootVars, sessionVars, hostVars, dartVars
  <1> QED
    BY <1>1, <1>3, QuietKeeps DEF sessionVars, hostVars, dartVars

\* windows_reader_thread_main: it is over before it says so.
LEMMA ReaderSafe ==
  ASSUME SafeInv, IInv, IInv', Reader \/ ReaderReads
  PROVE  SafeInv'
  <1>1. "reader" \in Threads \ {"owner"} /\ "reader" \in Workers /\ TypeInv /\ TypeInv'
    BY DEF Threads, Workers, IInv
  <1>2. /\ Steady("reader", "top", "closing") /\ Steady("reader", "top", "read")
        /\ Steady("reader", "read", "charge") /\ Steady("reader", "charge", "top")
        /\ Steady("reader", "charge", "closing") /\ Steady("reader", "read", "failed")
        /\ Steady("reader", "failed", "closing") /\ Steady("reader", "closing", "done")
        /\ Steady("reader", "done", "maybe")
    BY DEF Steady, Labels, AtClose
  <1>3. /\ Along("reader", "top", "closing") /\ Along("reader", "top", "read")
        /\ Along("reader", "read", "charge") /\ Along("reader", "charge", "top")
        /\ Along("reader", "charge", "closing") /\ Along("reader", "read", "failed")
        /\ Along("reader", "failed", "closing") /\ Along("reader", "closing", "done")
        /\ Along("reader", "done", "maybe")
    BY DEF Along, ShutAt, DeadAt, StopAt, ReadingAt
  <1>4. CASE ReaderWaits \/ ReaderReads
    BY <1>1, <1>2, <1>3, <1>4, LookSafe DEF ReaderWaits, ReaderReads
  <1>5. CASE ReaderPosts
    <2>1. CASE FlagStep("reader", "charge", {}, "top") \/ FlagStep("reader", "charge", {}, "closing")
      BY <1>1, <1>2, <1>3, <2>1, LookSafe
    <2>2. CASE /\ Go("reader", "charge", "top")
               /\ UNCHANGED <<bootVars, sessionVars, flags, hostVars, pending, dartVars>>
      BY <1>1, <1>2, <1>3, <2>2, FlowStepSafe
    <2>3. CASE Abandons /\ pc["reader"] = "charge" /\ Abandon("reader", {}, "closing")
      BY <1>1, <1>2, <1>3, <2>3, AbandonSafe
    <2> QED
      BY <1>5, <2>1, <2>2, <2>3 DEF ReaderPosts
  <1>6. CASE ReaderLeaves
    <2>1. CASE FlagStep("reader", "read", {}, "failed") \/ FlagStep("reader", "failed", {}, "closing")
      BY <1>1, <1>2, <1>3, <2>1, LookSafe
    <2>2. CASE PostStep("reader", "failed", "ASYNC_ERROR", "closing")
      BY <1>1, <1>2, <1>3, <2>2, PostSafe DEF PostStep
    <2>3. CASE OutputClosed("reader", "closing", "done")
      BY <1>1, <1>2, <1>3, <2>3, OutputClosedSafe
    <2>4. CASE FlagStep("reader", "done", {"readerDone"}, "maybe")
      <3>1. /\ pc["reader"] = "done" /\ pc'["reader"] = "maybe" /\ pc'["boot"] = pc["boot"]
        BY <1>1, <2>4 DEF FlagStep, Go, TypeInv, Threads, Workers
      <3>2. pc'["boot"] \notin BeforeReader
        BY <1>1, <3>1 DEF SafeInv, StartOK, NotYet
      <3>3. Honest({"readerDone"})
        BY <3>1, <3>2 DEF Honest, ReaderOver, ReadingAt
      <3> QED
        BY <1>1, <1>2, <1>3, <2>4, <3>3, FlagStepSafe
    <2>5. CASE Ending("reader")
      BY <1>1, <2>5, EndingSafe
    <2> QED
      BY <1>6, <2>1, <2>2, <2>3, <2>4, <2>5 DEF ReaderLeaves
  <1> QED
    BY <1>4, <1>5, <1>6 DEF Reader

\* windows_writer_thread_main: likewise.
LEMMA WriterSafe ==
  ASSUME SafeInv, IInv, IInv', Writer \/ WriterWrites
  PROVE  SafeInv'
  <1>1. "writer" \in Threads \ {"owner"} /\ "writer" \in Workers /\ TypeInv /\ TypeInv'
    BY DEF Threads, Workers, IInv
  <1>2. /\ Steady("writer", "top", "closing") /\ Steady("writer", "top", "writable")
        /\ Steady("writer", "top", "write") /\ Steady("writer", "writable", "write")
        /\ Steady("writer", "write", "written") /\ Steady("writer", "written", "complete")
        /\ Steady("writer", "complete", "drained") /\ Steady("writer", "complete", "top")
        /\ Steady("writer", "drained", "top") /\ Steady("writer", "write", "unwritten")
        /\ Steady("writer", "unwritten", "discard") /\ Steady("writer", "discard", "closing")
        /\ Steady("writer", "closing", "done") /\ Steady("writer", "done", "maybe")
    BY DEF Steady, Labels, AtClose
  <1>3. /\ Along("writer", "top", "closing") /\ Along("writer", "top", "writable")
        /\ Along("writer", "top", "write") /\ Along("writer", "writable", "write")
        /\ Along("writer", "write", "written") /\ Along("writer", "written", "complete")
        /\ Along("writer", "complete", "drained") /\ Along("writer", "complete", "top")
        /\ Along("writer", "drained", "top") /\ Along("writer", "write", "unwritten")
        /\ Along("writer", "unwritten", "discard") /\ Along("writer", "discard", "closing")
        /\ Along("writer", "closing", "done") /\ Along("writer", "done", "maybe")
    BY DEF Along, ShutAt, DeadAt, StopAt, BusyAt, WritingAt
  <1>4. CASE WriterTakes
    <2>1. CASE FlagStep("writer", "top", {}, "closing")
      BY <1>1, <1>2, <1>3, <2>1, LookSafe
    <2>2. CASE MaybeWritable("top", pending, "writable", "write")
      BY <1>1, <1>2, <1>3, <2>2, FlowStepSafe DEF MaybeWritable
    <2>3. CASE PostStep("writer", "writable", "WRITABLE", "write")
      BY <1>1, <1>2, <1>3, <2>3, PostSafe DEF PostStep
    <2> QED
      BY <1>4, <2>1, <2>2, <2>3 DEF WriterTakes
  <1>5. CASE WriterWrites
    BY <1>1, <1>2, <1>3, <1>5, LookSafe DEF WriterWrites
  <1>6. CASE WriterCompletes
    <2>1. CASE PostStep("writer", "written", "WRITE_COMPLETE", "complete")
      BY <1>1, <1>2, <1>3, <2>1, PostSafe DEF PostStep
    <2>2. CASE MaybeWritable("complete", pending - 1, "drained", "top")
      BY <1>1, <1>2, <1>3, <2>2, FlowStepSafe DEF MaybeWritable
    <2>3. CASE PostStep("writer", "drained", "WRITABLE", "top")
      BY <1>1, <1>2, <1>3, <2>3, PostSafe DEF PostStep
    <2> QED
      BY <1>6, <2>1, <2>2, <2>3 DEF WriterCompletes
  <1>7. CASE WriterLeaves
    <2>1. CASE FlagStep("writer", "write", {}, "unwritten")
      BY <1>1, <1>2, <1>3, <2>1, LookSafe
    <2>2. CASE InputClosed("writer", "unwritten", "discard") \/ InputClosed("writer", "closing", "done")
      BY <1>1, <1>2, <1>3, <2>2, InputClosedSafe
    <2>3. CASE /\ Go("writer", "discard", "closing")
               /\ pending' = 0 /\ flags' = flags \ {"backpressured"}
               /\ UNCHANGED <<bootVars, sessionVars, hostVars, credit, dartVars>>
      BY <1>1, <1>2, <1>3, <2>3, FlowStepSafe
    <2>4. CASE FlagStep("writer", "done", {"writerDone"}, "maybe")
      <3>1. /\ pc["writer"] = "done" /\ pc'["writer"] = "maybe" /\ pc'["boot"] = pc["boot"]
        BY <1>1, <2>4 DEF FlagStep, Go, TypeInv, Threads, Workers
      <3>2. pc'["boot"] \notin BeforeWriter
        BY <1>1, <3>1 DEF SafeInv, StartOK, NotYet
      <3>3. Honest({"writerDone"})
        BY <3>1, <3>2 DEF Honest, WriterOver, BusyAt, WritingAt
      <3> QED
        BY <1>1, <1>2, <1>3, <2>4, <3>3, FlagStepSafe
    <2>5. CASE Ending("writer")
      BY <1>1, <2>5, EndingSafe
    <2> QED
      BY <1>7, <2>1, <2>2, <2>3, <2>4, <2>5 DEF WriterLeaves
  <1> QED
    BY <1>4, <1>5, <1>6, <1>7 DEF Writer

\* A read, a write or a wait that fails leads its thread on to say so.
LEMMA CallsFailSafe ==
  ASSUME SafeInv, IInv, CallsFail
  PROVE  SafeInv'
  <1>1. {"reader", "writer", "waiter"} \subseteq Threads /\ TypeInv
    BY DEF Threads, Workers, IInv
  <1>2. /\ Steady("reader", "read", "failed") /\ Steady("writer", "write", "unwritten")
        /\ Steady("waiter", "top", "waitFailed") /\ Steady("waiter", "exit", "unreadable")
    BY DEF Steady, Labels, AtClose
  <1>3. /\ Along("reader", "read", "failed") /\ Along("writer", "write", "unwritten")
        /\ Along("waiter", "top", "waitFailed") /\ Along("waiter", "exit", "unreadable")
    BY DEF Along, ShutAt, DeadAt, StopAt, ReadingAt, BusyAt, WritingAt
  <1> QED
    BY <1>1, <1>2, <1>3, FailsSafe DEF CallsFail

-----------------------------------------------------------------------------
(* The bootstrap, once more                                                *)

\* Before the platform is stored no thread has been created, and no one has claimed
\* the close.
LEMMA NoneYet ==
  ASSUME IInv, console = "none"
  PROVE  /\ pc["reader"] = "off" /\ pc["writer"] = "off" /\ pc["waiter"] = "off"
         /\ \A u \in Threads \ {"boot"} : pc[u] \notin ShutAt(u) \cup DeadAt(u) \cup StopAt(u)
  <1>1. \A u \in Threads : pc[u] \in Before(u)
    BY DEF IInv, ConsoleOK, PlaceOK
  <1>2. {"reader", "writer", "waiter"} \subseteq Threads
    BY DEF Threads, Workers
  <1>3. pc["reader"] = "off" /\ pc["writer"] = "off" /\ pc["waiter"] = "off"
    BY <1>1, <1>2 DEF Before
  <1>4. ASSUME NEW u \in Threads \ {"boot"}
        PROVE  pc[u] \notin ShutAt(u) \cup DeadAt(u) \cup StopAt(u)
    BY <1>1, <1>4 DEF Before, ShutAt, DeadAt, StopAt
  <1> QED
    BY <1>3, <1>4

\* With no platform and no program left, nothing is.
LEMMA NothingBegun ==
  ASSUME IInv, NEW l, NEW n, Turns("boot", l, n), console = "none", console' = "none",
         n \notin BeforeWriter, program' \in {"none", "dead"}
  PROVE  Shut'
  <1>1. {"boot", "reader", "writer"} \subseteq Threads
    BY DEF Threads, Workers
  <1>2. pc'["boot"] = n /\ pc'["reader"] = "off" /\ pc'["writer"] = "off"
    BY <1>1, NoneYet DEF Turns
  <1> QED
    BY <1>2 DEF Shut, ReaderOver, WriterOver, ReadingAt, BusyAt, WritingAt, BeforeWriter

\* The program is created, or the platform stored: nobody else is at work yet.
LEMMA BirthSafe ==
  ASSUME SafeInv, IInv, NEW l, NEW n, Go("boot", l, n),
         \/ l = "createProcess" /\ n = "assignJob" /\ console' = "none"
         \/ l = "platform" /\ n = "check" /\ console' = "OWNED",
         program' # "none", program = "dead" => program' = "dead",
         UNCHANGED <<sessionVars, flags, dartVars>>
  PROVE  SafeInv'
  <1>1. "boot" \in Threads /\ "owner" \in Threads /\ l \in Early /\ n \in Labels /\ TypeInv
    BY DEF Threads, Workers, Early, Labels, Stages, IInv
  <1>2. pc["boot"] = l /\ console = "none"
    BY <1>1 DEF Go, IInv, ConsoleOK, PlaceOK
  <1>3. Turns("boot", l, n)
    BY <1>1, GoTurns
  <1>4. \A u \in Threads : pc'[u] = IF u = "boot" THEN n ELSE pc[u]
    BY <1>1 DEF Go, TypeInv
  <1>5. l \in BeforeReader /\ l \in BeforeWriter /\ l \in Undecided /\ n \in Undecided
    BY <1>1 DEF BeforeReader, BeforeWriter, Undecided, Early
  <1>6. ~Shut
    BY <1>2, <1>5 DEF Shut, ReaderOver
  <1>7. \A u \in Threads : pc'[u] \notin ShutAt(u) \cup DeadAt(u)
    BY <1>2, <1>4, NoneYet DEF ShutAt, DeadAt
  <1>8. RefsOK'
    <2>1. Running' = Running /\ pc'["owner"] = pc["owner"]
      BY <1>1, <1>3, TurnsCount DEF Runs, Early
    <2> QED
      BY <2>1 DEF SafeInv, RefsOK, sessionVars, dartVars
  <1>9. ShutOK'
    <2>1. ~LetGo' /\ ~Never'
      <3>1. pc'["owner"] = pc["owner"] /\ pc'["boot"] = n
        BY <1>1, <1>4
      <3>2. n \in Early \/ console' # "none"
        BY DEF Early
      <3> QED
        BY <1>6, <3>1, <3>2 DEF SafeInv, ShutOK, LetGo, Never, dartVars
    <2> QED
      BY <1>6, <1>7, <2>1 DEF SafeInv, ShutOK, sessionVars, dartVars
  <1>10. DeadOK'
    BY <1>1, <1>4, <1>7 DEF DeadOK, Unborn, Early
  <1>11. StartOK'
    <2>1. \A u \in Threads : NotYet(u) # {} => l \in NotYet(u) /\ u # "boot"
      BY <1>1 DEF NotYet, BeforeReader, BeforeWriter
    <2>2. /\ pc'["reader"] = "off" /\ pc'["writer"] = "off" /\ pc'["closer"] = pc["closer"]
          /\ pc'["console"] = pc["console"] /\ pc'["owner"] = pc["owner"]
      BY <1>2, <1>4, NoneYet DEF Threads, Workers
    <2>3. {"readerDone", "writerDone"} \cap flags' = {}
      BY <1>2, <1>5 DEF SafeInv, StartOK, ReaderOver, WriterOver
    <2>4. pc["console"] = "off"
      BY <1>2 DEF SafeInv, StartOK
    <2>5. \A u \in Threads : pc'["boot"] \in NotYet(u) => pc'[u] = "off"
      BY <1>2, <1>4, <2>1 DEF SafeInv, StartOK
    <2> QED
      BY <2>2, <2>3, <2>4, <2>5 DEF SafeInv, StartOK
  <1>12. CloseOK'
    <2>1. Claimed => program = "dead"
      <3>1. \A u \in Threads : pc[u] \notin StopAt(u)
        BY <1>2, NoneYet DEF StopAt
      <3> QED
        BY <3>1 DEF SafeInv, CloseOK, Stops
    <2>2. Claimed' => Stops'
      BY <2>1 DEF Claimed, Stops
    <2>3. abandoned => ~dart.portOpen /\ (Claimed \/ program = "dead" \/ lifecycle # "STARTING")
      BY <1>1, <1>2, <1>6 DEF SafeInv, CloseOK, WillEnd, Early
    <2>4. pc'["boot"] \in Undecided
      BY <1>1, <1>4, <1>5
    <2>5. lifecycle # "RUNNING"
      BY <1>2 DEF SafeInv, CloseOK
    <2> QED
      BY <2>2, <2>3, <2>4, <2>5 DEF CloseOK, WillEnd, Claimed, sessionVars, dartVars
  <1>13. HostOK'
    BY <1>1, <1>4 DEF HostOK
  <1> QED
    BY <1>8, <1>9, <1>10, <1>11, <1>12, <1>13 DEF SafeInv

\* The bootstrap changes the program and what it holds.
LEMMA ProgramStepSafe ==
  ASSUME SafeInv, TypeInv, NEW l, NEW n, NEW s, NEW h, ProgramStep(l, s, h, n),
         Steady("boot", l, n), Along("boot", l, n), program \in {"none", "dead"} => s = program,
         program # "none" => s # "none"
  PROVE  SafeInv'
  <1>1. "boot" \in Threads
    BY DEF Threads, Workers
  <1>2. Turns("boot", l, n)
    BY <1>1, GoTurns DEF ProgramStep, Steady
  <1>3. Mild
    BY DEF Mild, HostMild, Gentle, ProgramStep, Claimed, sessionVars, dartVars
  <1> QED
    BY <1>1, <1>2, <1>3, QuietKeeps DEF ProgramStep, sessionVars, dartVars

\* The bootstrap ends before there is a platform.
LEMMA FailedSafe ==
  ASSUME SafeInv, IInv, NEW l \in Early \cup {"kill"}, Go("boot", l, "failed"),
         console = "none", program' = Killed,
         UNCHANGED <<sessionVars, flags, console, closes, flowVars, dartVars>>
  PROVE  SafeInv'
  <1> DEFINE n == "failed"
  <1>1. "boot" \in Threads /\ n \in Labels /\ TypeInv
    BY DEF Threads, Workers, Labels, IInv
  <1>2. Turns("boot", l, n)
    BY <1>1, GoTurns
  <1>3. Shut'
    <2>1. n \notin BeforeWriter
      BY DEF BeforeWriter, BeforeReader, Early
    <2>2. program' \in {"none", "dead"}
      BY DEF Killed
    <2> QED
      BY <1>2, <2>1, <2>2, NothingBegun
  <1>4. Steady("boot", l, n)
    BY <1>1 DEF Steady, AtClose, Early
  <1>5. Along("boot", l, n)
    <2>1. /\ n \notin DeadAt("boot") \cup BeforeReader \cup BeforeWriter \cup Unborn
          /\ n \notin {"kill", "assignJob", "platform", "unstartedWait"}
          /\ \A u \in {"reader", "writer", "waiter"} : n \notin NotYet(u)
      BY DEF DeadAt, BeforeReader, BeforeWriter, NotYet, Unstarted, Unborn, Early
    <2>2. l \notin StopAt("boot") \cup {"unstarted"}
      BY DEF StopAt, Early
    <2> HIDE DEF n
    <2> QED
      BY <1>3, <2>1, <2>2 DEF Along, BootAlong
  <1>6. Mild
    BY KilledStays DEF Mild, HostMild, Gentle, Claimed, sessionVars, dartVars
  <1> HIDE DEF n
  <1> QED
    BY <1>1, <1>2, <1>4, <1>5, <1>6, QuietKeeps DEF sessionVars, dartVars

\* pty_windows_create_process, call by call.
LEMMA BootCreatesSafe ==
  ASSUME SafeInv, IInv, NEW i \in 1 .. Len(Stages), BootCreates(i)
  PROVE  SafeInv'
  <1> DEFINE l == Stages[i]
             n == StageAfter[i]
             h == (boot.held \cup Acquires(l)) \ LetsGo(l)
             s == IF l = "createProcess" THEN "suspended" ELSE program
  <1>1. l \in Early /\ n \in Early
    BY StageHolds
  <1>2. /\ l # "platform" /\ (n \in Unborn => l \in Unborn) /\ n \in Labels
        /\ n \in {"assignJob", "platform"} =>
             \/ l = "createProcess" /\ n = "assignJob"
             \/ l = "assignJob" /\ n = "platform"
        /\ l = "createProcess" => n = "assignJob"
    <2>1. Len(Stages) = 10
      BY DEF Stages
    <2>2. i \in 1 .. 10 /\ StageAfter[i] = IF i = 10 THEN "platform" ELSE Stages[i + 1]
      BY <2>1 DEF StageAfter
    <2>3. /\ Stages[1] = "inputPipe" /\ Stages[2] = "outputPipe" /\ Stages[3] = "pseudoConsole"
          /\ Stages[4] = "createJob" /\ Stages[5] = "limitJob" /\ Stages[6] = "attributes"
          /\ Stages[7] = "setAttributes" /\ Stages[8] = "arguments"
          /\ Stages[9] = "createProcess" /\ Stages[10] = "assignJob"
      BY DEF Stages
    <2>4. \/ l = "inputPipe" /\ n = "outputPipe"
          \/ l = "outputPipe" /\ n = "pseudoConsole"
          \/ l = "pseudoConsole" /\ n = "createJob"
          \/ l = "createJob" /\ n = "limitJob"
          \/ l = "limitJob" /\ n = "attributes"
          \/ l = "attributes" /\ n = "setAttributes"
          \/ l = "setAttributes" /\ n = "arguments"
          \/ l = "arguments" /\ n = "createProcess"
          \/ l = "createProcess" /\ n = "assignJob"
          \/ l = "assignJob" /\ n = "platform"
      BY <2>2, <2>3
    <2>5. n \in Labels
      <3>1. n \in {Stages[j] : j \in 1 .. Len(Stages)} \cup {"platform"}
        BY DEF StageAfter, Stages
      <3> QED
        BY <3>1 DEF Labels
    <2> HIDE DEF l, n
    <2> QED
      BY <2>4, <2>5 DEF Unborn, Early
  <1>3. "boot" \in Threads /\ TypeInv
    BY DEF Threads, Workers, IInv
  <1>4. CASE ProgramStep(l, s, h, n)
    <2> HIDE DEF n, h, l
    <2>1. Go("boot", l, n) /\ program' = s /\ UNCHANGED <<sessionVars, flags, console, dartVars>>
      BY <1>4 DEF ProgramStep
    <2>2. CASE l = "createProcess"
      <3>1. program = "none"
        BY <2>1, <2>2 DEF SafeInv, DeadOK, Go, Unborn, Early
      <3>2. console = "none"
        BY <1>1, <1>3, <2>1 DEF Go, IInv, ConsoleOK, PlaceOK
      <3> QED
        BY <1>2, <2>1, <2>2, <3>1, <3>2, BirthSafe
    <2>3. CASE l # "createProcess"
      <3>1. Steady("boot", l, n)
        BY <1>1, <1>2 DEF Steady, AtClose, Early
      <3>2. /\ l \in BeforeReader /\ l \in BeforeWriter /\ n \in Undecided
            /\ \A u \in {"reader", "writer", "waiter"} : l \in NotYet(u)
            /\ n \notin {"kill", "unstartedWait"} /\ l # "unstarted" /\ l \notin StopAt("boot")
            /\ n \notin ShutAt("boot") \cup DeadAt("boot")
        BY <1>1 DEF BeforeReader, BeforeWriter, Undecided, NotYet, StopAt, ShutAt, DeadAt, Early
      <3>3. Along("boot", l, n)
        BY <1>1, <1>2, <2>3, <3>2 DEF Along, BootAlong
      <3>4. s = program
        BY <2>3
      <3> HIDE DEF s
      <3> QED
        BY <1>3, <1>4, <3>1, <3>3, <3>4, ProgramStepSafe
    <2> QED
      BY <2>2, <2>3
  <1>5. CASE /\ MayFail("spawn") /\ Go("boot", l, "failed")
             /\ program' = Killed /\ boot' = [boot EXCEPT !.held = @ \ ClosesAll(l)]
             /\ UNCHANGED <<sessionVars, flags, console, closes, flowVars, dartVars>>
    <2> HIDE DEF n, h, l
    <2>1. console = "none"
      BY <1>1, <1>3, <1>5 DEF Go, IInv, ConsoleOK, PlaceOK
    <2> QED
      BY <1>1, <1>5, <2>1, FailedSafe
  <1> QED
    BY <1>4, <1>5 DEF BootCreates

\* A stage of pty_windows_create_process that fails takes everything back.
LEMMA BootFailsSafe ==
  ASSUME SafeInv, IInv, IInv', BootFails
  PROVE  SafeInv'
  <1>1. "boot" \in Threads /\ TypeInv /\ TypeInv'
    BY DEF Threads, Workers, IInv
  <1>2. /\ Steady("boot", "platform", "kill") /\ Steady("boot", "failed", "failedOutput")
        /\ Steady("boot", "failedOutput", "markClosed")
    BY DEF Steady, Labels, AtClose
  <1>3. /\ Along("boot", "failed", "failedOutput") /\ Along("boot", "failedOutput", "markClosed")
    BY DEF Along, BootAlong, ShutAt, DeadAt, StopAt, BeforeReader, BeforeWriter, NotYet,
       Unstarted, Unborn, Undecided, Early
  <1>4. CASE Fails("memory", "boot", "platform", "kill")
    <2>1. console = "none"
      BY <1>1, <1>4 DEF Fails, Go, IInv, ConsoleOK, PlaceOK, Early
    <2>2. program # "none" /\ program' = program
      BY <1>4 DEF Fails, Go, SafeInv, DeadOK, hostVars
    <2>3. Along("boot", "platform", "kill")
      BY <2>1, <2>2 DEF Along, BootAlong, ShutAt, DeadAt, StopAt, BeforeReader, BeforeWriter,
         NotYet, Unstarted, Unborn, Undecided, Early
    <2> QED
      BY <1>1, <1>2, <1>4, <2>3, FailsSafe
  <1>5. CASE ProgramStep("kill", "dead", boot.held \ (PlatformHandles \cup {"thread"}), "failed")
    <2>1. console = "none" /\ program # "none"
      BY <1>5 DEF ProgramStep, Go, SafeInv, DeadOK
    <2> QED
      BY <1>5, <2>1, FailedSafe DEF ProgramStep, Killed
  <1>6. CASE \/ PostStep("boot", "failed", "SPAWN_FAILED", "failedOutput")
             \/ PostStep("boot", "failedOutput", "OUTPUT_CLOSED", "markClosed")
    <2>1. {"failed", "failedOutput"} \cap (Undecided \cup {"unstarted"}) = {}
      BY DEF Undecided, Early
    <2> QED
      BY <1>1, <1>2, <1>3, <1>6, <2>1, PostSafe DEF PostStep
  <1> QED
    BY <1>4, <1>5, <1>6 DEF BootFails

\* A session that was never stored is closed with nothing left to end.
LEMMA BootMarksClosedSafe ==
  ASSUME SafeInv, IInv, IInv', BootMarksClosed
  PROVE  SafeInv'
  <1>1. "boot" \in Threads /\ TypeInv /\ TypeInv'
    BY DEF Threads, Workers, IInv
  <1>2. Steady("boot", "markClosed", "sessionClosed") /\ Steady("boot", "sessionClosed", "release")
    BY DEF Steady, Labels, AtClose
  <1>3. Along("boot", "markClosed", "sessionClosed") /\ Along("boot", "sessionClosed", "release")
    BY DEF Along, BootAlong, ShutAt, DeadAt, StopAt, BeforeReader, BeforeWriter, NotYet,
       Unstarted, Unborn, Undecided, Early
  <1>4. "markClosed" \in ShutAt("boot") /\ "sessionClosed" \in ShutAt("boot")
        /\ "sessionClosed" \notin Undecided \cup {"unstarted"}
    BY DEF ShutAt, Undecided, Early
  <1>5. CASE LifeStep("boot", "markClosed", "CLOSED", "sessionClosed")
    <2>1. Shut
      BY <1>1, <1>4, <1>5 DEF LifeStep, Go, SafeInv, ShutOK
    <2>2. Goes("boot", "markClosed", "sessionClosed")
      BY <1>1, <1>2, <1>5, GoTurns, TurnsGo DEF LifeStep, Steady
    <2>3. Shut'
      BY <1>1, <1>3, <1>5, <2>1, <2>2, ShutStays DEF LifeStep, hostVars
    <2> QED
      BY <1>1, <1>2, <1>3, <1>5, <2>3, LifeStepSafe
  <1>6. CASE PostStep("boot", "sessionClosed", "SESSION_CLOSED", "release")
    BY <1>1, <1>2, <1>3, <1>4, <1>6, PostSafe DEF PostStep
  <1> QED
    BY <1>5, <1>6 DEF BootMarksClosed

\* The bootstrap stops the program.
LEMMA BootStopsSafe ==
  ASSUME SafeInv, IInv, NEW l, NEW n, BootStops(l, n), Steady("boot", l, n),
         l \notin Before("boot"), program' = "dead" => Along("boot", l, n)
  PROVE  SafeInv'
  <1>1. "boot" \in Threads /\ TypeInv
    BY DEF Threads, Workers, IInv
  <1>2. Turns("boot", l, n)
    BY <1>1, CutTurns DEF BootStops, Steady
  <1>3. console # "none"
    BY <1>1 DEF BootStops, IInv, ConsoleOK, PlaceOK
  <1>4. program' = "dead"
    BY <1>3, KilledStays DEF BootStops, SafeInv, DeadOK
  <1>5. Mild
    BY KilledStays DEF Mild, HostMild, Gentle, BootStops, Claimed, sessionVars, dartVars
  <1> QED
    BY <1>1, <1>2, <1>4, <1>5, QuietKeeps DEF BootStops, sessionVars, dartVars

\* finish_unstarted_close
LEMMA BootFinishesUnstartedSafe ==
  ASSUME SafeInv, IInv, IInv', BootFinishesUnstarted
  PROVE  SafeInv'
  <1>1. /\ "boot" \in Threads \ {"owner"} /\ "boot" \in Threads \ {"console", "writer", "reader"}
        /\ TypeInv /\ TypeInv' /\ {"reader", "writer"} \subseteq Threads
    BY DEF Threads, Workers, IInv
  <1>2. /\ Steady("boot", "unstarted", "unstartedClose")
        /\ Steady("boot", "unstartedClose", "unstartedWait")
        /\ Steady("boot", "unstartedWait", "unstartedFlags")
        /\ Steady("boot", "unstartedFlags", "unstartedAnswer")
        /\ Steady("boot", "unstartedAnswer", "unstartedOutput")
        /\ Steady("boot", "unstartedOutput", "unstartedInput")
        /\ Steady("boot", "unstartedInput", "markClosed")
    BY DEF Steady, Labels, AtClose
  <1>3. /\ Along("boot", "unstartedFlags", "unstartedAnswer")
        /\ Along("boot", "unstartedAnswer", "unstartedOutput")
        /\ Along("boot", "unstartedOutput", "unstartedInput")
        /\ Along("boot", "unstartedInput", "markClosed")
    BY DEF Along, BootAlong, ShutAt, DeadAt, StopAt, BeforeReader, BeforeWriter, NotYet,
       Unstarted, Unborn, Undecided, Early
  <1>4. {"unstartedAnswer", "unstartedOutput", "unstartedInput"} \cap (Undecided \cup {"unstarted"}) = {}
    BY DEF Undecided, Early
  <1>5. CASE BootStops("unstarted", "unstartedClose")
    <2>1. "unstarted" \notin Before("boot")
      BY DEF Before, Early
    <2>2. program' = "dead" => Along("boot", "unstarted", "unstartedClose")
      BY DEF Along, BootAlong, ShutAt, DeadAt, StopAt, BeforeReader, BeforeWriter, NotYet,
         Unstarted, Unborn, Undecided, Early
    <2> QED
      BY <1>2, <1>5, <2>1, <2>2, BootStopsSafe
  <1>6. CASE Closes("boot", "unstartedClose", "unstartedInline", "unstartedWait", "unstartedFlags")
    <2>1. "unstartedClose" \in DeadAt("boot") /\ "unstartedClose" \notin Before("boot")
      BY DEF DeadAt, Before, Early
    <2>2. console' \in {"CLOSING", "CLOSED"} =>
            /\ Along("boot", "unstartedClose", "unstartedWait")
            /\ Along("boot", "unstartedClose", "unstartedInline")
            /\ Along("boot", "unstartedInline", "unstartedWait")
      BY DEF Along, BootAlong, ShutAt, DeadAt, StopAt, BeforeReader, BeforeWriter, NotYet,
         Unstarted, Unborn, Undecided, Early
    <2>3. ASSUME console # "CLOSING", FlagStep("boot", "unstartedWait", {}, "unstartedFlags")
          PROVE  Along("boot", "unstartedWait", "unstartedFlags")
      <3>1. /\ pc["boot"] = "unstartedWait" /\ pc'["boot"] = "unstartedFlags"
            /\ pc'["reader"] = pc["reader"] /\ pc'["writer"] = pc["writer"]
            /\ console' = console /\ program' = program
        BY <1>1, <2>3 DEF FlagStep, Go, TypeInv, hostVars
      <3>2. "unstartedWait" \in NotYet("reader") /\ "unstartedWait" \in NotYet("writer")
            /\ "unstartedWait" \in DeadAt("boot")
        BY DEF NotYet, Unstarted, DeadAt
      <3>3. pc["reader"] = "off" /\ pc["writer"] = "off" /\ program = "dead"
        BY <1>1, <3>1, <3>2 DEF SafeInv, StartOK, DeadOK
      <3>4. console = "CLOSED"
        BY <2>3, <3>1 DEF SafeInv, HostOK
      <3>5. Shut'
        BY <3>1, <3>3, <3>4 DEF Shut, ReaderOver, WriterOver, ReadingAt, BusyAt, WritingAt,
           BeforeReader, BeforeWriter, Early
      <3> QED
        BY <3>5 DEF Along, BootAlong, ShutAt, DeadAt, StopAt, BeforeReader, BeforeWriter, NotYet,
           Unstarted, Unborn, Undecided, Early
    <2> QED
      BY <1>1, <1>2, <1>6, <2>1, <2>2, <2>3, ClosesSafe
  <1>7. CASE FlagStep("boot", "unstartedFlags", AllParts \cup {"closedPosted"}, "unstartedAnswer")
    <2>1. "unstartedFlags" \in ShutAt("boot") /\ "unstartedFlags" \in DeadAt("boot")
      BY DEF ShutAt, DeadAt
    <2>2. Shut /\ program = "dead" /\ UNCHANGED <<console, program>>
      BY <1>1, <1>7, <2>1 DEF FlagStep, Go, SafeInv, ShutOK, DeadOK, hostVars
    <2>3. Goes("boot", "unstartedFlags", "unstartedAnswer")
      BY <1>1, <1>2, <1>7, GoTurns, TurnsGo DEF FlagStep, Steady
    <2>4. Shut'
      BY <1>1, <1>3, <2>2, <2>3, ShutStays
    <2>5. Honest(AllParts \cup {"closedPosted"})
      BY <2>2, <2>4 DEF Honest, Shut, Stops
    <2> QED
      BY <1>1, <1>2, <1>3, <1>7, <2>5, FlagStepSafe
  <1>8. CASE PostStep("boot", "unstartedAnswer", "SPAWN_FAILED", "unstartedOutput")
    BY <1>1, <1>2, <1>3, <1>4, <1>8, PostSafe DEF PostStep
  <1>9. CASE OutputClosed("boot", "unstartedOutput", "unstartedInput")
    BY <1>1, <1>2, <1>3, <1>4, <1>9, OutputClosedSafe
  <1>10. CASE InputClosed("boot", "unstartedInput", "markClosed")
    BY <1>1, <1>2, <1>3, <1>4, <1>10, InputClosedSafe
  <1> QED
    BY <1>5, <1>6, <1>7, <1>8, <1>9, <1>10 DEF BootFinishesUnstarted

\* A thread is created, with a reference of its own, that nobody has looked for.
LEMMA StartThreadSafe ==
  ASSUME SafeInv, IInv, NEW l, NEW w, NEW f, NEW n, StartThread(l, w, f, n),
         \/ l = "reader" /\ w = "reader" /\ f = "readerStarted" /\ n = "writer"
         \/ l = "writer" /\ w = "writer" /\ f = "writerStarted" /\ n = "waiter"
         \/ l = "waiter" /\ w = "waiter" /\ f = "waiterStarted" /\ n = "started"
  PROVE  SafeInv'
  <1>1. /\ {"boot", "owner", "reader", "writer", "waiter"} \subseteq Threads /\ w \in Workers
        /\ w \in Threads /\ {n, "top"} \subseteq Labels /\ w \notin {"boot", "owner", "closer", "console"}
    BY DEF Threads, Workers, Labels
  <1>2. /\ pc["boot"] = l /\ flags' = flags \cup {f} /\ refCount' = refCount + 1
        /\ UNCHANGED <<lifecycle, abandoned, handed, console, program, posted, dart>>
    BY DEF StartThread, hostVars, dartVars
  <1>3. /\ pc' \in [Threads -> Labels] /\ pc'[w] = "top" /\ pc'["boot"] = n
        /\ \A u \in Threads \ {w, "boot"} : pc'[u] = pc[u]
    BY <1>1 DEF StartThread, IInv, TypeInv
  <1>4. l \in NotYet(w) /\ pc[w] = "off"
    <2>1. l \in NotYet(w)
      BY DEF NotYet, BeforeWriter, BeforeReader
    <2> QED
      BY <1>1, <1>2, <2>1 DEF SafeInv, StartOK
  <1>5. console # "none"
    BY <1>1, <1>2 DEF IInv, ConsoleOK, PlaceOK, Before, Early
  <1>6. (ReaderOver => ReaderOver') /\ (WriterOver => WriterOver')
    <2>1. w = "reader" => l \in BeforeReader /\ l \in BeforeWriter
      BY DEF BeforeReader, BeforeWriter
    <2>2. w = "writer" => l \in BeforeWriter
      BY DEF BeforeWriter
    <2>3. (n \in BeforeReader => l \in BeforeReader) /\ (n \in BeforeWriter => l \in BeforeWriter)
      BY DEF BeforeReader, BeforeWriter, Early
    <2> QED
      BY <1>1, <1>2, <1>3, <2>1, <2>2, <2>3 DEF ReaderOver, WriterOver
  <1>7. Shut => Shut'
    BY <1>2, <1>6 DEF Shut
  <1>8. RefsOK'
    <2>1. \A u \in Workers \ {w} : Runs(pc'[u]) = Runs(pc[u])
      <3>1. Runs(pc'["boot"]) = Runs(pc["boot"])
        BY <1>2, <1>3 DEF Runs
      <3> QED
        BY <1>3, <3>1 DEF Threads
    <2>2. Running \in Nat /\ Running' = Running + 1
      <3>1. Runs(pc'[w]) = 1
        BY <1>3 DEF Runs
      <3> QED
        BY <1>1, <1>4, <2>1, <3>1, OneMore
    <2>3. pc'["owner"] = pc["owner"]
      BY <1>1, <1>3
    <2> QED
      BY <1>2, <2>2, <2>3 DEF SafeInv, RefsOK, IInv, TypeInv
  <1>9. ShutOK'
    <2>1. \A u \in Threads : pc'[u] \in ShutAt(u) => pc[u] \in ShutAt(u)
      BY <1>1, <1>3 DEF ShutAt
    <2>2. (LetGo' => LetGo) /\ (Never' => Never)
      BY <1>1, <1>2, <1>3, <1>5 DEF LetGo, Never
    <2>3. refCount' <= 0 => refCount <= 0
      BY <1>2 DEF IInv, TypeInv
    <2> QED
      BY <1>2, <1>7, <2>1, <2>2, <2>3 DEF SafeInv, ShutOK
  <1>10. DeadOK'
    <2>1. \A u \in Threads : pc'[u] \in DeadAt(u) => pc[u] \in DeadAt(u)
      BY <1>1, <1>3 DEF DeadAt
    <2>2. n \notin {"assignJob", "platform", "kill"} /\ n \notin Unborn
      BY DEF Unborn, Early
    <2> QED
      BY <1>2, <1>3, <1>5, <2>1, <2>2 DEF SafeInv, DeadOK
  <1>11. StartOK'
    <2>1. \A u \in Threads : n \in NotYet(u) => l \in NotYet(u) /\ u \notin {w, "boot"}
      BY DEF NotYet, BeforeReader, BeforeWriter, Unstarted, Early
    <2>2. \A u \in Threads : pc'["boot"] \in NotYet(u) => pc'[u] = "off"
      BY <1>2, <1>3, <2>1 DEF SafeInv, StartOK
    <2>3. /\ "readerStarted" \notin flags' => pc'["reader"] = "off"
          /\ "writerStarted" \notin flags' => pc'["writer"] = "off"
      BY <1>1, <1>2, <1>3 DEF SafeInv, StartOK
    <2>4. /\ "readerDone" \in flags' => ReaderOver'
          /\ "writerDone" \in flags' => WriterOver'
      BY <1>2, <1>6 DEF SafeInv, StartOK
    <2>5. /\ pc'["closer"] = pc["closer"] /\ pc'["console"] = pc["console"]
          /\ pc'["owner"] = pc["owner"]
      BY <1>1, <1>3 DEF Threads, Workers
    <2> QED
      BY <1>2, <2>2, <2>3, <2>4, <2>5 DEF SafeInv, StartOK
  <1>12. CloseOK'
    <2>1. \A u \in Threads : pc[u] \in StopAt(u) => pc'[u] \in StopAt(u)
      BY <1>1, <1>2, <1>3, <1>4 DEF StopAt
    <2>2. Stops => Stops'
      BY <1>2, <2>1 DEF Stops
    <2>3. Claimed' <=> Claimed
      BY <1>2 DEF Claimed
    <2>4. n \in Undecided /\ l # "unstarted"
      BY DEF Undecided
    <2>5. WillEnd => WillEnd'
      BY <1>2, <1>3, <1>7, <2>3, <2>4 DEF WillEnd
    <2> QED
      BY <1>2, <1>3, <1>5, <2>2, <2>3, <2>4, <2>5 DEF SafeInv, CloseOK
  <1>13. HostOK'
    <2>1. \A u \in Threads : AtClose(u, pc[u]) => AtClose(u, pc'[u])
      BY <1>1, <1>2, <1>3, <1>4 DEF AtClose
    <2>2. pc["waiter"] \in {"releasing", "unreleased"} => pc'["waiter"] = pc["waiter"]
      BY <1>1, <1>3, <1>4
    <2> QED
      BY <1>2, <1>3, <2>1, <2>2 DEF SafeInv, HostOK
  <1> QED
    BY <1>8, <1>9, <1>10, <1>11, <1>12, <1>13 DEF SafeInv

\* The bootstrap creates the reader, the writer and the waiter, one after the other, ...
LEMMA BootStartsSafe ==
  ASSUME SafeInv, IInv, IInv', BootStarts
  PROVE  SafeInv'
  <1>1. "boot" \in Threads /\ TypeInv
    BY DEF Threads, Workers, IInv
  <1>2. /\ Steady("boot", "check", "unstarted") /\ Steady("boot", "check", "reader")
        /\ Steady("boot", "reader", "writer") /\ Steady("boot", "writer", "waiter")
        /\ Steady("boot", "waiter", "started")
    BY DEF Steady, Labels, AtClose
  <1>3. /\ Along("boot", "check", "reader") /\ Along("boot", "reader", "writer")
        /\ Along("boot", "writer", "waiter") /\ Along("boot", "waiter", "started")
    BY DEF Along, BootAlong, ShutAt, DeadAt, StopAt, BeforeReader, BeforeWriter, NotYet,
       Unstarted, Unborn, Undecided, Early
  <1>4. CASE Go("boot", "platform", "check") /\ console' = "OWNED"
             /\ boot' = [boot EXCEPT !.held = @ \ PlatformHandles]
             /\ UNCHANGED <<events, sessionVars, flags, closes, program, flowVars, dartVars>>
    <2>1. program # "none"
      BY <1>4 DEF Go, SafeInv, DeadOK
    <2> QED
      BY <1>4, <2>1, BirthSafe
  <1>5. CASE FlagStep("boot", "check", {}, IF lifecycle = "CLOSING" THEN "unstarted" ELSE "reader")
    <2>1. CASE lifecycle = "CLOSING"
      <3>1. lifecycle' # "STARTING" /\ FlagStep("boot", "check", {}, "unstarted")
        BY <1>5, <2>1 DEF FlagStep, sessionVars
      <3>2. Along("boot", "check", "unstarted")
        BY <3>1 DEF Along, BootAlong, ShutAt, DeadAt, StopAt, BeforeReader, BeforeWriter, NotYet,
           Unstarted, Unborn, Undecided, Early
      <3> QED
        BY <1>1, <1>2, <3>1, <3>2, LookSafe
    <2>2. CASE lifecycle # "CLOSING"
      BY <1>1, <1>2, <1>3, <1>5, <2>2, LookSafe
    <2> QED
      BY <2>1, <2>2
  <1>6. CASE \/ StartThread("reader", "reader", "readerStarted", "writer")
             \/ StartThread("writer", "writer", "writerStarted", "waiter")
             \/ StartThread("waiter", "waiter", "waiterStarted", "started")
    BY <1>6, StartThreadSafe
  <1>7. CASE \/ Fails("reader", "boot", "reader", "writer")
             \/ Fails("writer", "boot", "writer", "waiter")
             \/ Fails("waiter", "boot", "waiter", "started")
    BY <1>1, <1>2, <1>3, <1>7, FailsSafe
  <1> QED
    BY <1>4, <1>5, <1>6, <1>7 DEF BootStarts

\* ... looks at the lifecycle once more and lets the program run, ...
LEMMA BootRunsSafe ==
  ASSUME SafeInv, IInv, IInv', BootRuns
  PROVE  SafeInv'
  <1>1. "boot" \in Threads /\ TypeInv /\ TypeInv'
    BY DEF Threads, Workers, IInv
  <1>2. /\ Steady("boot", "started", "resume") /\ Steady("boot", "resume", "spawned")
        /\ Steady("boot", "spawned", "release")
    BY DEF Steady, Labels, AtClose
  <1>3. Along("boot", "resume", "spawned") /\ Along("boot", "spawned", "release")
    BY DEF Along, BootAlong, ShutAt, DeadAt, StopAt, BeforeReader, BeforeWriter, NotYet,
       Unstarted, Unborn, Undecided, Early
  <1>4. CASE lifecycle = "STARTING" /\ LifeStep("boot", "started", "RUNNING", "resume")
    <2>1. lifecycle = "STARTING" /\ lifecycle' = "RUNNING" /\ pc["boot"] = "started"
      BY <1>4 DEF LifeStep, Go
    <2>2. console # "none"
      BY <1>1, <2>1 DEF IInv, ConsoleOK, PlaceOK, Before, Early
    <2>3. Along("boot", "started", "resume")
      BY <2>1 DEF Along, BootAlong, ShutAt, DeadAt, StopAt, BeforeReader, BeforeWriter, NotYet,
         Unstarted, Unborn, Early
    <2> QED
      BY <1>1, <1>2, <1>4, <2>2, <2>3, LifeStepSafe
  <1>5. CASE ProgramStep("resume", IF program = "suspended" THEN "running" ELSE program,
                         boot.held \ {"thread"}, "spawned")
    <2> DEFINE s == IF program = "suspended" THEN "running" ELSE program
    <2>1. /\ program \in {"none", "dead"} => s = program
          /\ program # "none" => s # "none"
          /\ ProgramStep("resume", s, boot.held \ {"thread"}, "spawned")
      BY <1>5
    <2> HIDE DEF s
    <2> QED
      BY <1>1, <1>2, <1>3, <2>1, ProgramStepSafe
  <1>6. CASE PostStep("boot", "spawned", "SPAWNED", "release")
    <2>1. "spawned" \notin Undecided \cup {"unstarted"}
      BY DEF Undecided, Early
    <2> QED
      BY <1>1, <1>2, <1>3, <1>6, <2>1, PostSafe DEF PostStep
  <1> QED
    BY <1>4, <1>5, <1>6 DEF BootRuns

\* ... or gives up, when one is missing or a close came first, ...
LEMMA BootGivesUpSafe ==
  ASSUME SafeInv, IInv, BootGivesUp
  PROVE  SafeInv'
  <1>1. "boot" \in Threads /\ TypeInv
    BY DEF Threads, Workers, IInv
  <1>2. /\ Steady("boot", "resume", "unresumed") /\ Steady("boot", "started", "stop")
        /\ Steady("boot", "unresumed", "stop")
    BY DEF Steady, Labels, AtClose
  <1>3. CASE Fails("resume", "boot", "resume", "unresumed")
    <2>1. Along("boot", "resume", "unresumed")
      BY DEF Along, BootAlong, ShutAt, DeadAt, StopAt, BeforeReader, BeforeWriter, NotYet,
         Unstarted, Unborn, Undecided, Early
    <2> QED
      BY <1>1, <1>2, <1>3, <2>1, FailsSafe
  <1>4. ASSUME NEW l \in {"started", "unresumed"}, NEW c, GivesUp(l, c)
        PROVE  SafeInv'
    <2>1. /\ Go("boot", l, "stop") /\ flags' = flags \cup {"closeStarted"}
          /\ UNCHANGED <<sessionVars, hostVars, dartVars>>
      BY <1>4 DEF GivesUp
    <2>2. Steady("boot", l, "stop")
      BY <1>2
    <2>3. Claimed' /\ Stops'
      <3>1. pc'["boot"] = "stop"
        BY <1>1, <2>1 DEF Go, TypeInv
      <3> QED
        BY <1>1, <2>1, <3>1 DEF Claimed, Stops, StopAt
    <2>4. Along("boot", l, "stop")
      BY <2>3 DEF Along, BootAlong, ShutAt, DeadAt, StopAt, BeforeReader, BeforeWriter, NotYet,
         Unstarted, Unborn, Early
    <2>5. Turns("boot", l, "stop")
      BY <1>1, <2>1, <2>2, GoTurns DEF Steady
    <2>6. Mild
      BY <2>1, <2>3 DEF Mild, HostMild, Gentle, sessionVars, hostVars, dartVars
    <2> QED
      BY <1>1, <2>1, <2>2, <2>4, <2>5, <2>6, QuietKeeps DEF sessionVars, hostVars, dartVars
  <1> QED
    BY <1>3, <1>4 DEF BootGivesUp

\* ... stops the program and closes what it had started.
LEMMA BootTearsDownSafe ==
  ASSUME SafeInv, IInv, IInv', BootTearsDown
  PROVE  SafeInv'
  <1>1. /\ "boot" \in Threads \ {"owner"} /\ "boot" \in Threads \ {"console", "writer", "reader"}
        /\ TypeInv /\ TypeInv'
    BY DEF Threads, Workers, IInv
  <1>2. /\ Steady("boot", "stop", "join") /\ Steady("boot", "join", "close")
        /\ Steady("boot", "close", "wait") /\ Steady("boot", "wait", "account")
        /\ Steady("boot", "account", "answer") /\ Steady("boot", "account", "mark")
        /\ Steady("boot", "mark", "answer") /\ Steady("boot", "outputClosed", "inputClosed")
        /\ Steady("boot", "inputClosed", "maybe")
    BY DEF Steady, Labels, AtClose
  <1>3. /\ Along("boot", "join", "close") /\ Along("boot", "close", "wait")
        /\ Along("boot", "close", "inline") /\ Along("boot", "inline", "wait")
        /\ Along("boot", "wait", "account") /\ Along("boot", "account", "answer")
        /\ Along("boot", "account", "mark") /\ Along("boot", "mark", "answer")
        /\ Along("boot", "outputClosed", "inputClosed") /\ Along("boot", "inputClosed", "maybe")
    BY DEF Along, BootAlong, ShutAt, DeadAt, StopAt, BeforeReader, BeforeWriter, NotYet,
       Unstarted, Unborn, Undecided, Early
  <1>4. {"outputClosed", "inputClosed"} \cap (Undecided \cup {"unstarted"}) = {}
    BY DEF Undecided, Early
  <1>5. CASE BootStops("stop", "join")
    <2>1. "stop" \notin Before("boot")
      BY DEF Before, Early
    <2>2. program' = "dead" => Along("boot", "stop", "join")
      BY DEF Along, BootAlong, ShutAt, DeadAt, StopAt, BeforeReader, BeforeWriter, NotYet,
         Unstarted, Unborn, Undecided, Early
    <2> QED
      BY <1>2, <1>5, <2>1, <2>2, BootStopsSafe
  <1>6. CASE FlagStep("boot", "join", {}, "close")
    BY <1>1, <1>2, <1>3, <1>6, LookSafe
  <1>7. CASE Closes("boot", "close", "inline", "wait", "account")
    <2>1. "close" \in DeadAt("boot") /\ "close" \notin Before("boot")
      BY DEF DeadAt, Before, Early
    <2> QED
      BY <1>1, <1>2, <1>3, <1>7, <2>1, ClosesSafe
  <1>8. CASE FlagStep("boot", "account",
                      NeverRan \cup (IF boot.reserved THEN {"closeDone"} ELSE {}),
                      IF boot.cancelled THEN "answer" ELSE "mark")
    <2> DEFINE set == NeverRan \cup (IF boot.reserved THEN {"closeDone"} ELSE {})
               n == IF boot.cancelled THEN "answer" ELSE "mark"
    <2>1. FlagStep("boot", "account", set, n) /\ n \in {"answer", "mark"}
      BY <1>8
    <2>2. /\ "readerDone" \in set => "readerStarted" \notin flags
          /\ "writerDone" \in set => "writerStarted" \notin flags
          /\ "closeStarted" \notin set
      BY DEF NeverRan
    <2> HIDE DEF set, n
    <2>3. /\ pc["boot"] = "account" /\ pc'["boot"] = n /\ pc'["reader"] = pc["reader"]
          /\ pc'["writer"] = pc["writer"] /\ program' = program
      BY <1>1, <2>1 DEF FlagStep, Go, TypeInv, Threads, Workers, hostVars
    <2>4. program = "dead"
      BY <1>1, <2>3 DEF SafeInv, DeadOK, DeadAt
    <2>5. "readerDone" \in set => ReaderOver'
      BY <2>1, <2>2, <2>3 DEF SafeInv, StartOK, ReaderOver, ReadingAt, BeforeReader, Early
    <2>6. "writerDone" \in set => WriterOver'
      BY <2>1, <2>2, <2>3 DEF SafeInv, StartOK, WriterOver, BusyAt, WritingAt, BeforeWriter,
         BeforeReader, Early
    <2>7. Honest(set)
      BY <2>2, <2>3, <2>4, <2>5, <2>6 DEF Honest, Stops
    <2> QED
      BY <1>1, <1>2, <1>3, <2>1, <2>7, FlagStepSafe
  <1>9. CASE LifeStep("boot", "mark", "CLOSING", "answer")
    BY <1>1, <1>2, <1>3, <1>9, LifeStepSafe
  <1>10. CASE OutputClosed("boot", "outputClosed", "inputClosed")
    BY <1>1, <1>2, <1>3, <1>4, <1>10, OutputClosedSafe
  <1>11. CASE InputClosed("boot", "inputClosed", "maybe")
    BY <1>1, <1>2, <1>3, <1>4, <1>11, InputClosedSafe
  <1> QED
    BY <1>5, <1>6, <1>7, <1>8, <1>9, <1>10, <1>11 DEF BootTearsDown

\* Every step of the bootstrap.
LEMMA BootSafe ==
  ASSUME SafeInv, IInv, IInv', Boot
  PROVE  SafeInv'
  <1>1. "boot" \in Threads /\ "boot" \in Workers /\ TypeInv'
    BY DEF Threads, Workers, IInv
  <1>2. CASE BootAnswers
    <2>1. Steady("boot", "answer", "maybe") /\ Steady("boot", "answer", "outputClosed")
      BY DEF Steady, Labels, AtClose
    <2>2. Along("boot", "answer", "maybe") /\ Along("boot", "answer", "outputClosed")
      BY DEF Along, BootAlong, ShutAt, DeadAt, StopAt, BeforeReader, BeforeWriter, NotYet,
         Unstarted, Unborn, Undecided, Early
    <2>3. "answer" \notin Undecided \cup {"unstarted"}
      BY DEF Undecided, Early
    <2> QED
      BY <1>1, <1>2, <2>1, <2>2, <2>3, PostSafe DEF BootAnswers, PostStep
  <1>3. CASE \E i \in 1 .. Len(Stages) : BootCreates(i)
    BY <1>3, BootCreatesSafe
  <1> QED
    BY <1>1, <1>2, <1>3, BootFailsSafe, BootMarksClosedSafe, BootFinishesUnstartedSafe,
       BootStartsSafe, BootRunsSafe, BootGivesUpSafe, BootTearsDownSafe, EndingSafe DEF Boot

-----------------------------------------------------------------------------
(* The isolate, the user and the program, once more                        *)

\* The isolate's side of the session.
DartTyped ==
  dart \in [portOpen : BOOLEAN, fatal : BOOLEAN, closing : BOOLEAN,
            finalizer : {"attached", "detached", "ran"}]

\* Dart acts on what it was told, and calls.
LEMMA DartCallsSafe ==
  ASSUME SafeInv, TypeInv, NEW n \in {"lifecycle", "idle"}, NEW d, DartCalls(n, d),
         pc["owner"] = "idle", d.finalizer = dart.finalizer,
         d.portOpen => dart.portOpen, ~d.portOpen => ~dart.portOpen \/ Shut
  PROVE  SafeInv'
  <1>1. "owner" \in Threads /\ n \in Labels
    BY DEF Threads, Labels
  <1>2. /\ Go("owner", "idle", n) /\ dart' = d
        /\ UNCHANGED <<sessionVars, flags, hostVars, posted>>
    BY DEF DartCalls, Go, ownerFrame
  <1>3. Turns("owner", "idle", n)
    BY <1>1, <1>2, GoTurns
  <1>4. Steady("owner", "idle", n)
    BY <1>1 DEF Steady, AtClose
  <1>5. Along("owner", "idle", n)
    BY DEF Along, ShutAt, DeadAt, StopAt
  <1>6. Shut => Shut'
    BY <1>1, <1>2, <1>3, <1>5, ShutStays, TurnsGo DEF hostVars
  <1>7. Mild
    <2>1. CASE abandoned
      BY <1>2, <1>6, <2>1 DEF Mild, HostMild, Gentle, Claimed, sessionVars, hostVars
    <2>2. CASE ~abandoned
      BY <1>2, <1>6, <2>2 DEF Mild, HostMild, Gentle, Claimed, sessionVars, hostVars
    <2> QED
      BY <2>1, <2>2
  <1> QED
    BY <1>1, <1>2, <1>3, <1>4, <1>5, <1>7, QuietKeeps DEF sessionVars, hostVars

\* A step at which no thread moves and nothing is released.
LEMMA AsideSafe ==
  ASSUME SafeInv, TypeInv, Mild, UNCHANGED <<pc, console, refCount, handed, abandoned>>,
         dart'.finalizer = dart.finalizer
  PROVE  SafeInv'
  <1> DEFINE l == pc["owner"]
  <1>1. "owner" \in Threads /\ Turns("owner", l, l)
    BY DEF Turns, TypeInv, Threads
  <1>2. Along("owner", l, l)
    <2>1. l = "create" => pc["owner"] = "create"
      OBVIOUS
    <2> HIDE DEF l
    <2> QED
      BY DEF Along
  <1>3. HostOK'
    BY DEF SafeInv, HostOK
  <1> HIDE DEF l
  <1> QED
    BY <1>1, <1>2, <1>3, HostStepSafe

\* pty_session_begin_close
LEMMA BeginCloseSafe ==
  ASSUME SafeInv, IInv, IInv', BeginClose
  PROVE  SafeInv'
  <1>1. {"owner", "closer"} \subseteq Threads /\ "owner" \in Threads /\ TypeInv /\ TypeInv'
        /\ "closer" \in Workers
    BY DEF Threads, Workers, IInv
  <1>2. /\ Steady("owner", "lifecycle", "idle") /\ Steady("owner", "lifecycle", "claim")
        /\ Steady("owner", "claim", "idle") /\ Steady("owner", "claim", "create")
    BY DEF Steady, Labels, AtClose
  <1>3. /\ Along("owner", "lifecycle", "idle") /\ Along("owner", "lifecycle", "claim")
        /\ Along("owner", "claim", "idle") /\ Along("owner", "unretain", "idle")
    BY DEF Along, ShutAt, DeadAt, StopAt
  <1>4. CASE LifeStep("owner", "lifecycle", ClosingFrom(lifecycle),
                      IF lifecycle \in {"STARTING", "CLOSED"} THEN "idle" ELSE "claim")
    <2> DEFINE v == ClosingFrom(lifecycle)
               n == IF lifecycle \in {"STARTING", "CLOSED"} THEN "idle" ELSE "claim"
    <2>1. v # "STARTING" /\ v # "RUNNING" /\ (v = "CLOSED" => lifecycle = "CLOSED")
      BY <1>1 DEF ClosingFrom, TypeInv
    <2>2. n \in {"idle", "claim"} /\ LifeStep("owner", "lifecycle", v, n)
      BY <1>4
    <2> HIDE DEF v, n
    <2> QED
      BY <1>1, <1>2, <1>3, <2>1, <2>2, LifeStepSafe
  <1>5. CASE FlagStep("owner", "claim", {}, "idle")
    BY <1>1, <1>2, <1>3, <1>5, LookSafe
  <1>6. CASE Claimable /\ FlagStep("owner", "claim", {"closeStarted"}, "create")
    <2>1. /\ pc'["owner"] = "create" /\ pc'["closer"] = pc["closer"]
          /\ flags' = flags \cup {"closeStarted"} /\ "closeStarted" \notin flags
      BY <1>1, <1>6 DEF Claimable, FlagStep, Go, TypeInv
    <2>2. pc'["closer"] = "off"
      BY <2>1 DEF SafeInv, StartOK
    <2>3. Honest({"closeStarted"})
      BY <1>1, <2>1 DEF Honest, Stops, StopAt
    <2>4. Along("owner", "claim", "create")
      BY <2>1, <2>2 DEF Along, ShutAt, DeadAt, StopAt
    <2> QED
      BY <1>1, <1>2, <1>6, <2>3, <2>4, FlagStepSafe
  <1>7. CASE /\ pc["owner"] = "create"
             /\ pc' = [pc EXCEPT !["owner"] = "unretain", !["closer"] = "stop"]
             /\ refCount' = refCount + 2
             /\ UNCHANGED <<bootVars, lifecycle, abandoned, handed, flags, hostVars, flowVars,
                            dartVars>>
    <2>1. "closeStarted" \in flags /\ pc["closer"] = "off"
      BY <1>7 DEF SafeInv, StartOK
    <2>2. /\ pc' \in [Threads -> Labels] /\ pc'["closer"] = "stop" /\ pc'["owner"] = "unretain"
          /\ \A u \in Threads \ {"closer", "owner"} : pc'[u] = pc[u]
      BY <1>1, <1>7 DEF TypeInv, Labels
    <2>3. Goes("owner", "create", "unretain")
      BY <1>7, <2>1, <2>2 DEF Goes, Alters
    <2>4. Along("owner", "create", "unretain")
      BY <2>2 DEF Along, ShutAt, DeadAt, StopAt
    <2>5. RefsOK'
      <3>1. \A u \in Workers \ {"closer"} : Runs(pc'[u]) = Runs(pc[u])
        BY <2>2 DEF Threads, Workers
      <3>2. Running \in Nat /\ Running' = Running + 1
        <4>1. Runs(pc'["closer"]) = 1
          BY <2>2 DEF Runs
        <4> QED
          BY <1>1, <2>1, <3>1, <4>1, OneMore
      <3> QED
        BY <1>1, <1>7, <2>2, <3>2 DEF SafeInv, RefsOK, TypeInv, dartVars
    <2>6. HostOK'
      <3>1. \A u \in Threads : AtClose(u, pc[u]) => AtClose(u, pc'[u])
        BY <1>7, <2>1, <2>2 DEF AtClose
      <3>2. pc'["waiter"] = pc["waiter"] /\ pc'["boot"] = pc["boot"]
        BY <2>2 DEF Threads, Workers
      <3> QED
        BY <1>7, <3>1, <3>2 DEF SafeInv, HostOK, hostVars
    <2>7. Mild
      BY <1>1, <1>7 DEF Mild, HostMild, Gentle, Claimed, hostVars, dartVars, TypeInv
    <2> QED
      BY <1>1, <2>3, <2>4, <2>5, <2>6, <2>7, StepKeeps
  <1>8. CASE /\ Go("owner", "unretain", "idle") /\ Drop
             /\ UNCHANGED <<bootVars, lifecycle, abandoned, handed, flags, program, flowVars,
                            dartVars>>
    <2>1. Turns("owner", "unretain", "idle")
      BY <1>1, <1>8, GoTurns DEF Labels
    <2>2. Running' = Running /\ pc'["owner"] = "idle" /\ pc["owner"] = "unretain" /\ Running \in Nat
      BY <1>1, <2>1, TurnsCount DEF Turns
    <2>3. RefsOK'
      BY <1>1, <1>8, <2>2 DEF Drop, SafeInv, RefsOK, TypeInv, dartVars
    <2>4. HostOK'
      BY <1>1, <1>3, <1>8, <2>1, HostStays DEF SafeInv, Drop, AtClose
    <2>5. Gentle
      BY <1>8 DEF Gentle, Claimed, dartVars
    <2>6. Shut \/ refCount # 1
      BY <1>1, <2>2, LastRef
    <2> QED
      BY <1>1, <1>3, <1>8, <2>1, <2>3, <2>4, <2>5, <2>6, TurnsGo, DropKeeps
  <1> QED
    BY <1>4, <1>5, <1>6, <1>7, <1>8 DEF BeginClose

\* Without a thread the isolate closes by itself.
LEMMA ClosesInlineSafe ==
  ASSUME SafeInv, IInv, IInv', ClosesInline
  PROVE  SafeInv'
  <1>1. /\ "owner" \in Threads /\ "owner" \in Threads \ {"console", "writer", "reader"}
        /\ TypeInv /\ TypeInv'
    BY DEF Threads, IInv
  <1>2. /\ Steady("owner", "create", "uncreated") /\ Steady("owner", "uncreated", "stop")
        /\ Steady("owner", "stop", "close") /\ Steady("owner", "close", "wait")
        /\ Steady("owner", "wait", "maybe") /\ Steady("owner", "maybe", "SESSION_CLOSED")
        /\ Steady("owner", "SESSION_CLOSED", "idle") /\ Steady("owner", "maybe", "idle")
    BY DEF Steady, Labels, AtClose
  <1>3. /\ Along("owner", "create", "uncreated") /\ Along("owner", "uncreated", "stop")
        /\ Along("owner", "close", "wait") /\ Along("owner", "close", "inline")
        /\ Along("owner", "inline", "wait") /\ Along("owner", "wait", "maybe")
        /\ Along("owner", "SESSION_CLOSED", "idle") /\ Along("owner", "maybe", "idle")
        /\ Shut' => Along("owner", "maybe", "SESSION_CLOSED")
    BY DEF Along, ShutAt, DeadAt, StopAt
  <1>4. CASE Fails("closer", "owner", "create", "uncreated")
    BY <1>1, <1>2, <1>3, <1>4, FailsSafe
  <1>5. CASE FlagStep("owner", "uncreated", {"stopping", "closeDone"}, "stop")
    <2>1. pc'["owner"] = "stop"
      BY <1>1, <1>5 DEF FlagStep, Go, TypeInv
    <2>2. Honest({"stopping", "closeDone"})
      BY <1>1, <2>1 DEF Honest, Stops, StopAt
    <2> QED
      BY <1>1, <1>2, <1>3, <1>5, <2>2, FlagStepSafe
  <1>6. CASE StopStep("owner", "stop", "close")
    <2>1. console # "none"
      BY <1>1, <1>6 DEF StopStep, IInv, ConsoleOK, PlaceOK, Before
    <2>2. program' = "dead"
      BY <1>6, <2>1, KilledStays DEF StopStep, SafeInv, DeadOK
    <2>3. Along("owner", "stop", "close")
      BY <2>2 DEF Along, ShutAt
    <2> QED
      BY <1>1, <1>2, <1>6, <2>3, StopStepSafe
  <1>7. CASE Closes("owner", "close", "inline", "wait", "maybe")
    <2>1. "close" \in DeadAt("owner") /\ "close" \notin Before("owner")
      BY DEF DeadAt, Before
    <2> QED
      BY <1>1, <1>2, <1>3, <1>7, <2>1, ClosesSafe
  <1>8. CASE ClaimClosed("owner", "maybe", "idle")
    BY <1>1, <1>2, <1>3, <1>8, ClaimClosedSafe
  <1>9. CASE FlagStep("owner", "maybe", {}, "idle")
    BY <1>1, <1>2, <1>3, <1>9, LookSafe
  <1> QED
    BY <1>4, <1>5, <1>6, <1>7, <1>8, <1>9 DEF ClosesInline

\* close() detaches the finalizer and releases Dart's reference.
LEMMA CloseFinishesSafe ==
  ASSUME SafeInv, DartTyped, IInv, IInv', CloseFinishes
  PROVE  SafeInv'
  <1> DEFINE l == "idle"
  <1>1. "owner" \in Threads /\ l \in Labels /\ TypeInv /\ TypeInv'
    BY DEF Threads, Labels, IInv
  <1>2. /\ pc["owner"] = l /\ dart.finalizer = "attached" /\ posted["SESSION_CLOSED"] > 0
        /\ dart' = [dart EXCEPT !.finalizer = "detached"] /\ ~dart.portOpen
        /\ Drop /\ handed' = handed + 1
        /\ UNCHANGED <<pc, bootVars, lifecycle, abandoned, flags, program, flowVars, posted>>
    BY DEF CloseFinishes, Alive
  <1>3. dart'.finalizer = "detached" /\ dart'.portOpen = dart.portOpen
    BY <1>2 DEF DartTyped
  <1>4. Along("owner", l, l)
    BY DEF Along, ShutAt, DeadAt, StopAt
  <1>5. l # "unretain" /\ ~AtClose("owner", l)
    BY DEF AtClose
  <1> HIDE DEF l
  <1>6. Turns("owner", l, l)
    BY <1>1, <1>2 DEF Turns, TypeInv
  <1>7. Shut
    BY <1>2 DEF SafeInv, ShutOK
  <1>8. Shut'
    <2>1. console' = console
      BY <1>2, <1>7 DEF Drop, FreedOpen, Shut
    <2> QED
      BY <1>1, <1>2, <1>4, <1>6, <1>7, <2>1, TurnsGo, ShutStays
  <1>9. RefsOK'
    <2>1. Running' = Running /\ Running \in Nat
      BY <1>1, <1>6, TurnsCount
    <2> QED
      BY <1>1, <1>2, <1>3, <2>1 DEF Drop, SafeInv, RefsOK, TypeInv
  <1>10. HostOK'
    BY <1>1, <1>2, <1>4, <1>5, <1>6, HostStays DEF SafeInv, Drop
  <1>11. Gentle
    BY <1>2, <1>3, <1>8 DEF Gentle, Claimed
  <1> QED
    BY <1>1, <1>2, <1>4, <1>6, <1>7, <1>9, <1>10, <1>11, TurnsGo, DropKeeps

\* Everything the isolate does of itself.
LEMMA OwnerSafe ==
  ASSUME SafeInv, DartTyped, IInv, IInv', Owner
  PROVE  SafeInv'
  <1>1. "owner" \in Threads /\ TypeInv /\ TypeInv' /\ (Alive => pc["owner"] = "idle")
    BY DEF Threads, IInv, Alive
  <1>2. CASE DartFails
    <2> DEFINE d == [dart EXCEPT !.fatal = TRUE]
    <2>1. DartCalls("lifecycle", d) /\ pc["owner"] = "idle"
      BY <1>1, <1>2 DEF DartFails
    <2>2. d.finalizer = dart.finalizer /\ d.portOpen = dart.portOpen
      BY DEF DartTyped
    <2> HIDE DEF d
    <2> QED
      BY <1>1, <2>1, <2>2, DartCallsSafe
  <1>3. CASE DriverCloses
    <2> DEFINE d == [dart EXCEPT !.closing = TRUE]
    <2>1. DartCalls("lifecycle", d) /\ pc["owner"] = "idle"
      BY <1>1, <1>3 DEF DriverCloses, Close
    <2>2. d.finalizer = dart.finalizer /\ d.portOpen = dart.portOpen
      BY DEF DartTyped
    <2> HIDE DEF d
    <2> QED
      BY <1>1, <2>1, <2>2, DartCallsSafe
  <1>4. CASE DartClosed
    <2> DEFINE d == [dart EXCEPT !.portOpen = FALSE]
    <2>1. DartCalls("idle", d) /\ pc["owner"] = "idle" /\ posted["SESSION_CLOSED"] > 0
      BY <1>1, <1>4 DEF DartClosed
    <2>2. d.finalizer = dart.finalizer /\ d.portOpen = FALSE
      BY DEF DartTyped
    <2>3. Shut
      BY <2>1 DEF SafeInv, ShutOK
    <2> HIDE DEF d
    <2> QED
      BY <1>1, <2>1, <2>2, <2>3, DartCallsSafe
  <1>5. CASE Finalizes
    <2>1. Steady("owner", "finalizer", "end") /\ Along("owner", "finalizer", "end")
      BY DEF Steady, Labels, AtClose, Along, ShutAt, DeadAt, StopAt
    <2>2. CASE FlagStep("owner", "finalizer", {}, "end")
      BY <1>1, <2>1, <2>2, LookSafe
    <2>3. CASE pc["owner"] = "finalizer" /\ Abandons /\ Abandon("owner", {}, "end")
      BY <1>1, <2>1, <2>3, AbandonSafe
    <2> QED
      BY <1>5, <2>2, <2>3 DEF Finalizes
  <1> QED
    BY <1>2, <1>3, <1>4, <1>5, CloseFinishesSafe, BeginCloseSafe, ClosesInlineSafe DEF Owner

\* The isolate exits: what was posted is lost, and the finalizer is to run.
LEMMA IsolateExitsSafe ==
  ASSUME SafeInv, IInv, IsolateExits
  PROVE  SafeInv'
  <1> DEFINE n == "finalizer"
  <1>1. "owner" \in Threads /\ n \in Labels /\ TypeInv
    BY DEF Threads, Labels, IInv
  <1>2. /\ Go("owner", "idle", n) /\ dart.finalizer = "attached" /\ dart'.finalizer = "ran"
        /\ posted'["SESSION_CLOSED"] = 0 /\ ~dart'.portOpen
        /\ UNCHANGED <<sessionVars, flags, hostVars>>
    BY DEF IsolateExits, Alive, Go, ownerFrame, Events
  <1>3. Along("owner", "idle", n)
    BY DEF Along, ShutAt, DeadAt, StopAt
  <1>4. n # "unretain" /\ n \in {"finalizer", "end"} /\ ~AtClose("owner", "idle")
    BY DEF AtClose
  <1> HIDE DEF n
  <1>5. Turns("owner", "idle", n)
    BY <1>1, <1>2, GoTurns
  <1>6. Goes("owner", "idle", n)
    BY <1>1, <1>5, TurnsGo
  <1>7. Running' = Running /\ pc'["owner"] = n /\ pc["owner"] = "idle"
    BY <1>1, <1>5, TurnsCount DEF Turns
  <1>8. RefsOK'
    BY <1>2, <1>4, <1>7 DEF SafeInv, RefsOK, sessionVars
  <1>9. HostOK'
    BY <1>1, <1>2, <1>3, <1>4, <1>5, HostStays DEF SafeInv, hostVars
  <1>10. Shut => Shut'
    BY <1>1, <1>2, <1>3, <1>6, ShutStays DEF hostVars
  <1>11. Mild
    BY <1>2, <1>4, <1>7 DEF Mild, HostMild, Gentle, Claimed, sessionVars, hostVars
  <1> QED
    BY <1>1, <1>3, <1>6, <1>8, <1>9, <1>11, StepKeeps

\* Everything the user does.
LEMMA UserSafe ==
  ASSUME SafeInv, DartTyped, IInv, User
  PROVE  SafeInv'
  <1>1. TypeInv /\ (Alive => pc["owner"] = "idle")
    BY DEF IInv, Alive
  <1>2. CASE UserCloses
    <2> DEFINE d == [dart EXCEPT !.closing = TRUE]
    <2>1. DartCalls("lifecycle", d) /\ pc["owner"] = "idle"
      BY <1>1, <1>2 DEF UserCloses, Close
    <2>2. d.finalizer = dart.finalizer /\ d.portOpen = dart.portOpen
      BY DEF DartTyped
    <2> HIDE DEF d
    <2> QED
      BY <1>1, <2>1, <2>2, DartCallsSafe
  <1>3. CASE Acknowledges \/ Discards \/ TryWrites
    <2>1. /\ UNCHANGED <<pc, sessionVars, hostVars, dartVars>>
          /\ flags' \in {flags, flags \cup {"discard"}, flags \cup {"backpressured"}}
      BY <1>3 DEF Acknowledges, Discards, TryWrites, ownerFrame
    <2>2. Mild
      BY <2>1 DEF Mild, HostMild, Gentle, Claimed, sessionVars, hostVars, dartVars
    <2> QED
      BY <1>1, <2>1, <2>2, AsideSafe DEF sessionVars, hostVars, dartVars
  <1>4. CASE Kills
    <2>1. /\ UNCHANGED <<pc, sessionVars, console, dartVars>>
          /\ program' \in {program, Killed}
          /\ flags' \in {flags \cup {"terminating"}, flags \ {"terminating"}}
      BY <1>4 DEF Kills
    <2>2. /\ program \in {"none", "dead"} => program' = program
          /\ program # "none" => program' # "none"
      BY <2>1 DEF Killed
    <2>3. Mild
      BY <2>1, <2>2 DEF Mild, HostMild, Gentle, Claimed, sessionVars, dartVars
    <2> QED
      BY <1>1, <2>1, <2>3, AsideSafe DEF sessionVars, dartVars
  <1> QED
    BY <1>2, <1>3, <1>4, IsolateExitsSafe DEF User

\* The program dies by itself.
LEMMA ProgramExitsSafe ==
  ASSUME SafeInv, IInv, ProgramExits
  PROVE  SafeInv'
  <1>1. Mild
    BY DEF ProgramExits, Mild, HostMild, Gentle, Claimed, sessionVars, dartVars
  <1> QED
    BY <1>1, AsideSafe DEF ProgramExits, IInv, sessionVars, dartVars

\* Only the isolate itself changes its side of the session.
LEMMA DartTypedKeeps ==
  ASSUME DartTyped, [Next]_vars
  PROVE  DartTyped'
  <1>1. ASSUME NEW t, NEW l, NEW e, NEW set, NEW n, Post(t, l, e, set, n) PROVE dart' = dart
    BY <1>1 DEF Post, Abandon, dartVars
  <1>2. ASSUME NEW t, NEW l, NEW n,
               \/ PostStep(t, l, "SESSION_CLOSED", n) \/ OutputClosed(t, l, n)
               \/ InputClosed(t, l, n) \/ ClaimClosed(t, l, n) \/ Ending(t)
        PROVE  dart' = dart
    BY <1>1, <1>2 DEF PostStep, OutputClosed, InputClosed, MarkStep, ClaimClosed, Ending, Release,
       FlagStep, dartVars
  <1>3. ASSUME NEW t, NEW l, NEW i, NEW w, NEW n, Closes(t, l, i, w, n) \/ StartClose(t, l, i, n)
        PROVE  dart' = dart
    BY <1>3 DEF Closes, StartClose, ConsoleStep, FlagStep, dartVars
  <1>4. CASE Boot
    <2>1. ASSUME NEW l, NEW s, NEW h, NEW n, ProgramStep(l, s, h, n) PROVE dart' = dart
      BY <2>1 DEF ProgramStep, dartVars
    <2>2. ASSUME NEW t, NEW l, NEW f, NEW n,
                 \/ Fails(f, t, l, n) \/ FlagStep(t, l, f, n) \/ LifeStep(t, l, f, n)
                 \/ BootStops(l, n) \/ GivesUp(l, f) \/ StartThread(l, t, f, n)
          PROVE  dart' = dart
      BY <2>2 DEF Fails, FlagStep, LifeStep, BootStops, GivesUp, StartThread, dartVars
    <2>3. ASSUME NEW t, NEW l, NEW e, NEW n, PostStep(t, l, e, n) PROVE dart' = dart
      BY <1>1, <2>3 DEF PostStep
    <2>4. ASSUME NEW i \in 1 .. Len(Stages), BootCreates(i) PROVE dart' = dart
      BY <2>1, <2>4 DEF BootCreates, dartVars
    <2>5. BootFails \/ BootMarksClosed \/ BootRuns \/ BootAnswers => dart' = dart
      BY <2>1, <2>2, <2>3 DEF BootFails, BootMarksClosed, BootRuns, BootAnswers
    <2>6. BootFinishesUnstarted => dart' = dart
      BY <1>2, <1>3, <2>2, <2>3 DEF BootFinishesUnstarted
    <2>7. BootTearsDown => dart' = dart
      BY <1>2, <1>3, <2>2 DEF BootTearsDown
    <2>8. BootStarts \/ BootGivesUp => dart' = dart
      BY <2>2 DEF BootStarts, BootGivesUp, dartVars
    <2>9. dart' = dart
      BY <1>2, <1>4, <2>4, <2>5, <2>6, <2>7, <2>8 DEF Boot
    <2> QED
      BY <2>9 DEF DartTyped
  <1>5. CASE Reader \/ ReaderReads
    BY <1>1, <1>2, <1>5 DEF Reader, ReaderReads, ReaderWaits, ReaderPosts, ReaderLeaves, FlagStep,
       PostStep, Abandon, dartVars, DartTyped
  <1>6. CASE Writer \/ WriterWrites
    BY <1>1, <1>2, <1>6 DEF Writer, WriterWrites, WriterTakes, WriterCompletes, WriterLeaves,
       FlagStep, PostStep, MaybeWritable, dartVars, DartTyped
  <1>7. CASE Waiter \/ Closer \/ ConsoleWorker
    BY <1>1, <1>2, <1>3, <1>7 DEF Waiter, Releases, Closer, ConsoleWorker, FlagStep, PostStep,
       ConsoleStep, StopStep, Fails, dartVars, DartTyped
  <1>8. CASE CallsFail \/ ProgramExits
    BY <1>8 DEF CallsFail, ProgramExits, Fails, dartVars, DartTyped
  <1>9. CASE Owner
    <2>1. CASE DartFails \/ DriverCloses \/ DartClosed \/ CloseFinishes
      BY <2>1 DEF DartFails, DriverCloses, Close, DartClosed, CloseFinishes, DartCalls, DartTyped
    <2>2. CASE BeginClose \/ ClosesInline \/ Finalizes
      BY <1>2, <1>3, <2>2 DEF BeginClose, ClosesInline, Finalizes, LifeStep, FlagStep, StopStep,
         Fails, Abandon, dartVars, DartTyped
    <2> QED
      BY <1>9, <2>1, <2>2 DEF Owner
  <1>10. CASE User
    <2>1. CASE UserCloses
      BY <2>1 DEF UserCloses, Close, DartCalls, DartTyped
    <2>3. CASE IsolateExits
      <3>1. dart' = [portOpen |-> FALSE, fatal |-> FALSE, closing |-> FALSE, finalizer |-> "ran"]
        BY <2>3 DEF IsolateExits
      <3> QED
        BY <3>1 DEF DartTyped
    <2>2. CASE Acknowledges \/ Discards \/ TryWrites \/ Kills
      BY <2>2 DEF Acknowledges, Discards, TryWrites, Kills, dartVars, DartTyped
    <2> QED
      BY <1>10, <2>1, <2>2, <2>3 DEF User
  <1>11. CASE UNCHANGED vars
    BY <1>11 DEF vars, dartVars, DartTyped
  <1> QED
    BY <1>4, <1>5, <1>6, <1>7, <1>8, <1>9, <1>10, <1>11 DEF Next, ByItself

\* Every step of the session keeps it.
LEMMA SafeKeeps ==
  ASSUME SafeInv, DartTyped, IInv, IInv', [Next]_vars
  PROVE  SafeInv'
  <1>1. CASE UNCHANGED vars
    <2>1. UNCHANGED <<pc, lifecycle, abandoned, refCount, handed, flags, console, program, posted,
                      dart>>
      BY <1>1 DEF vars, sessionVars, hostVars, dartVars
    <2>2. Mild
      BY <2>1 DEF Mild, HostMild, Gentle, Claimed
    <2> QED
      BY <2>1, <2>2, AsideSafe DEF IInv
  <1>2. CASE Next
    BY <1>2, BootSafe, ReaderSafe, WriterSafe, WaiterSafe, CloserSafe, ConsoleWorkerSafe, OwnerSafe,
       UserSafe, CallsFailSafe, ProgramExitsSafe DEF Next, ByItself
  <1> QED
    BY <1>1, <1>2

\* A session starts with a reference for the bootstrap and one for Dart.
LEMMA InitSafe ==
  ASSUME Init
  PROVE  SafeInv /\ DartTyped
  <1>1. Stages[1] = "inputPipe"
    BY DEF Stages
  <1>2. /\ pc["boot"] = "inputPipe" /\ pc["owner"] = "idle"
        /\ \A u \in Threads \ {"boot", "owner"} : pc[u] = "off"
    BY <1>1 DEF Init, Threads, Workers
  <1>3. /\ lifecycle = "STARTING" /\ abandoned = FALSE /\ refCount = 2 /\ handed = 0
        /\ flags = {} /\ console = "none" /\ program = "none" /\ posted["SESSION_CLOSED"] = 0
        /\ dart = [portOpen |-> TRUE, fatal |-> FALSE, closing |-> FALSE, finalizer |-> "attached"]
    BY DEF Init, Events
  <1>4. {"boot", "owner", "reader", "writer", "waiter", "closer", "console"} = Threads
    BY DEF Threads, Workers
  <1>5. RefsOK
    <2>1. Running = 1
      BY <1>2, <1>4 DEF Running, Runs
    <2> QED
      BY <1>2, <1>3, <2>1 DEF RefsOK
  <1>6. "inputPipe" \in Early /\ "inputPipe" \in Undecided /\ "inputPipe" \in Unborn
    BY DEF Early, Undecided, Unborn
  <1>7. ShutOK
    BY <1>2, <1>3, <1>4, <1>6 DEF ShutOK, ShutAt, LetGo, Never
  <1>8. DeadOK
    BY <1>2, <1>3, <1>4 DEF DeadOK, DeadAt
  <1>9. StartOK
    BY <1>2, <1>3, <1>4 DEF StartOK, NotYet
  <1>10. CloseOK
    BY <1>2, <1>3, <1>6 DEF CloseOK, Claimed
  <1>11. HostOK
    BY <1>2, <1>3 DEF HostOK
  <1> QED
    BY <1>3, <1>5, <1>7, <1>8, <1>9, <1>10, <1>11 DEF SafeInv, DartTyped

\* What a session knows of its own end, and the count of its references, hold in
\* every state, whatever fails and however often.
THEOREM SafeInvariant == Spec => [](SafeInv /\ DartTyped)
  <1>1. Init => SafeInv /\ DartTyped
    BY InitSafe
  <1>2. IInv /\ IInv' /\ (SafeInv /\ DartTyped) /\ [Next]_vars => (SafeInv /\ DartTyped)'
    BY SafeKeeps, DartTypedKeeps
  <1> QED
    BY <1>1, <1>2, Invariant, PTL DEF Spec

\* Whoever posts SESSION_CLOSED (windows_maybe_post_closed, finish_unstarted_close
\* or a startup that failed) or drops the last reference (pty_session_release)
\* leaves nothing behind: the pseudo console is closed or never was, the program
\* is dead or never was, and neither the reader nor the writer is at either.
THEOREM ClosedIsOver == Spec => []ClosedMeansOver
  <1>1. SafeInv => ClosedMeansOver
    BY DEF SafeInv, ShutOK, Shut, ReaderOver, WriterOver, ReadingAt, BusyAt, WritingAt,
       ClosedMeansOver, Writing
  <1> QED
    BY <1>1, SafeInvariant, PTL

-----------------------------------------------------------------------------
(* A session posts in order                                                *)

\* Labels of a worker that posts nothing more but SESSION_CLOSED, of the waiter
\* after it has posted the exit, ...
Past == {"maybe", "SESSION_CLOSED", "release", "end"}
Gone == Past \cup {"off"}
PastExit == {"ownership", "releasing", "unreleased", "close", "inline", "done"} \cup Past

\* ... and of the bootstrap: before it knows whether the session starts, while it
\* tears down what it has started, and after it has found that there is nothing.
Launched == {"resume", "unresumed", "spawned"}
Launch == Undecided \cup Launched \cup {"failed"}
Tearing == {"stop", "join", "close", "inline", "wait", "account", "mark", "answer"}
TornDown == {"outputClosed", "inputClosed"}
Unanswered == Launch \cup Tearing
AfterJoin == (Tearing \ {"stop", "join"}) \cup TornDown
NoPlatform == {"failed", "failedOutput", "markClosed", "sessionClosed"}
UnstartedAt == Unstarted \cup {"unstartedFlags", "unstartedAnswer", "unstartedOutput",
                               "unstartedInput"}
BootLabels == Unanswered \cup TornDown \cup NoPlatform \cup UnstartedAt \cup Past
Started == {"reader", "writer", "waiter"}

\* Threads that were joined or say they are done are; SESSION_CLOSED is claimed
\* by one thread.
DoneOK ==
  /\ pc["boot"] \in BootLabels
  /\ "waiterStarted" \in flags <=> pc["waiter"] # "off"
  /\ "readerDone" \in flags => pc["reader"] \in Gone
  /\ "writerDone" \in flags => pc["writer"] \in Gone
  /\ "waiterDone" \in flags => pc["waiter"] \in Gone /\ pc["boot"] \notin BeforeWriter \cup {"waiter"}
  /\ pc["boot"] \in AfterJoin => \A u \in Started : pc[u] \in {"off", "end"}
  /\ pc["boot"] \in {"mark", "answer"} \cup TornDown => program = "dead"
  /\ pc["boot"] \in UnstartedAt => \A u \in Started : pc[u] = "off"
  /\ pc["owner"] \in {"finalizer", "end"} <=> dart.finalizer = "ran"
  /\ dart.finalizer = "detached" => pc["owner"] = "idle"
  /\ dart.finalizer # "attached" => ~dart.portOpen
  /\ console = "none" => "outputClosed" \notin flags
  /\ \A t \in Threads : pc[t] = "SESSION_CLOSED" => "closedPosted" \in flags
  /\ \A t, u \in Threads : pc[t] = "SESSION_CLOSED" /\ pc[u] = "SESSION_CLOSED" => t = u

\* The isolate is there, and was told of no error.
Calm == dart.finalizer # "ran" /\ posted["ASYNC_ERROR"] = 0

\* Then nobody abandons the session, and the isolate leaves the session to its
\* bootstrap until that has answered.
StartsOK ==
  /\ ~abandoned
  /\ pc["boot"] \notin UnstartedAt
  /\ pc["boot"] \in Unanswered =>
       /\ pc["owner"] = "idle" /\ pc["closer"] = "off" /\ ~dart.fatal /\ ~dart.closing
       /\ posted["SPAWNED"] = 0 /\ posted["SPAWN_FAILED"] = 0
  /\ pc["boot"] \in Launch =>
       /\ lifecycle = IF pc["boot"] \in Launched THEN "RUNNING" ELSE "STARTING"
       /\ {"closeStarted", "closeDone"} \cap flags = {}
  /\ pc["boot"] \in Tearing \cup TornDown =>
       /\ "closeStarted" \in flags
       /\ pc["closer"] = "off" /\ pc["owner"] \in {"idle", "lifecycle", "claim"}
  /\ pc["boot"] \in Tearing /\ "closeDone" \in flags => pc["boot"] \in {"mark", "answer"}
  /\ pc["boot"] \in NoPlatform => console = "none"

\* Nobody posts after SESSION_CLOSED, and nothing is posted twice.
Quiet == pc["boot"] \in Past /\ \A u \in Started : pc[u] \in Gone
PostsOK ==
  /\ ~dart.portOpen => posted["SESSION_CLOSED"] > 0
  /\ "closedPosted" \in flags \/ posted["SESSION_CLOSED"] > 0 => Quiet
  /\ posted["SESSION_CLOSED"] > 0 =>
       /\ "closedPosted" \in flags \/ console = "none"
       /\ \A t \in Threads : pc[t] # "SESSION_CLOSED"
  /\ posted["OUTPUT_CLOSED"] > 0 =>
       \/ "outputClosed" \in flags
       \/ console = "none" /\ pc["boot"] \in {"markClosed", "sessionClosed", "release", "end"}
  /\ posted["INPUT_CLOSED"] > 0 => "inputClosed" \in flags
  /\ posted["PROCESS_EXIT"] > 0 => pc["waiter"] \in PastExit

TellInv == DoneOK /\ (Calm => StartsOK /\ PostsOK)

-----------------------------------------------------------------------------
(* Steps of one thread, and what they tell                                 *)

\* The bootstrap goes from l to n.
BootWay(l, n) ==
  /\ n \in BootLabels
  /\ l \in Past => n \in Past
  /\ n \in Past => l \in Past \cup {"spawned", "sessionClosed", "answer", "inputClosed"}
  /\ n \in BeforeWriter \cup {"waiter"} => l \in BeforeWriter \cup {"waiter"}
  /\ n \in Launched => \/ l \in Launched /\ lifecycle' = lifecycle
                       \/ l = "started" /\ lifecycle' = "RUNNING" /\ "waiterStarted" \in flags
  /\ n \in Launch \ Launched => l \in Launch \ Launched /\ lifecycle' = lifecycle
  /\ n \in Unanswered => l \in Unanswered
  /\ n \in Tearing \cup TornDown =>
       l \in Tearing \cup TornDown \/ (l \in Launch /\ n = "stop" /\ "closeStarted" \in flags')
  /\ l \in {"mark", "answer"} /\ n \in Tearing => n \in {"mark", "answer"}
  /\ n \in UnstartedAt => l \in UnstartedAt \/ (l = "check" /\ lifecycle = "CLOSING")
  /\ n \in NoPlatform => l \in NoPlatform \cup UnstartedAt \/ console = "none"
  /\ n \in AfterJoin => l \in AfterJoin \/ (l = "join" /\ AllJoined)
  /\ n \in {"mark", "answer"} \cup TornDown =>
       l \in {"mark", "answer"} \cup TornDown \/ program = "dead"
  /\ l \in {"markClosed", "sessionClosed"} => n \in {"sessionClosed", "release"}
  /\ l = "release" => n = "end"

Way(t, l, n) ==
  /\ n \in Labels /\ (t \in Workers => l \notin {"off", "end"} /\ n # "off")
  /\ t \in Workers /\ n = "end" => l \in {"maybe", "release"} \/ t = "console"
  /\ t = "waiter" /\ l = "top" => n = "waitFailed" \/ program = "dead"
  /\ t = "waiter" /\ l = "waitFailed" => abandoned' = TRUE \/ posted'["ASYNC_ERROR"] > 0
  /\ t = "waiter" /\ n \in {"unreadable", "waitFailed"} => "wait" \in Faults
  /\ t = "reader" /\ n = "failed" => program = "dead" \/ "read" \in Faults
  /\ t \in Started /\ l \in Past => n \in Past
  /\ t = "waiter" /\ l \in PastExit => n \in PastExit
  /\ n = "SESSION_CLOSED" => l = "maybe" /\ t # "console" /\ Claims /\ "closedPosted" \in flags'
  /\ t = "owner" => /\ l # "idle"
                    /\ l \in {"finalizer", "end"} <=> n \in {"finalizer", "end"}
                    /\ l \in {"lifecycle", "claim"} =>
                         n \in {"idle", "claim"} \/ "closeStarted" \notin flags
  /\ t = "boot" => BootWay(l, n)

\* Thread t goes from l to n; others are interrupted or created.
Walks(t, l, n) ==
  /\ pc[t] = l /\ pc' \in [Threads -> Labels]
  /\ \A u \in Threads :
       LET a == IF u = t THEN n ELSE pc[u]
       IN  \/ pc'[u] = a
           \/ u = "reader" /\ a = "read" /\ pc'[u] = "failed" /\ "stopping" \in flags'
           \/ u = "writer" /\ a = "write" /\ pc'[u] = "unwritten"
           \/ /\ u = "closer" /\ pc'[u] = "stop"
              /\ abandoned' # abandoned \/ (t = "owner" /\ l = "create")
           \/ u = "console" /\ a = "off" /\ pc'[u] = "close"
           \/ u \in Started /\ t = "boot" /\ l = u /\ a = "off" /\ pc'[u] = "top"

\* Flags are raised for what was done, by whom.
Raises(t, l, n) ==
  /\ flags \ {"terminating", "backpressured"} \subseteq flags'
  /\ pc'["waiter"] # "off" => pc["waiter"] # "off" \/ "waiterStarted" \in flags'
  /\ "waiterStarted" \in flags' \ flags => pc'["waiter"] = "top"
  /\ "outputClosed" \in flags' \ flags => console # "none"
  /\ "readerDone" \in flags' \ flags => pc'["reader"] \in Gone
  /\ "writerDone" \in flags' \ flags => pc'["writer"] \in Gone
  /\ "waiterDone" \in flags' \ flags =>
       pc'["waiter"] \in Gone /\ pc'["boot"] \notin BeforeWriter \cup {"waiter"}
  /\ "closeStarted" \in flags' \ flags =>
       (t = "owner" /\ l = "claim") \/ (t = "boot" /\ n = "stop") \/ abandoned' # abandoned
  /\ "closeDone" \in flags' \ flags =>
       \/ t \in {"closer", "owner"} \/ abandoned' # abandoned
       \/ t = "boot" /\ n \in {"mark", "answer"} \cup UnstartedAt
  /\ "closedPosted" \in flags' \ flags =>
       n = "SESSION_CLOSED" \/ (t = "boot" /\ n \in UnstartedAt)

\* What else a step may do to the console, the program and the lifecycle.
Fair(t, l, n) ==
  /\ console' = "none" => console = "none"
  /\ console = "none" => console' = "none" \/ (t = "boot" /\ n = "check")
  /\ program = "dead" => program' = "dead"
  /\ program = "none" => program' = "none" \/ (t = "boot" /\ l = "createProcess" /\ program' = "suspended")
  /\ program # "none" => program' # "none"
  /\ lifecycle' # lifecycle =>
       \/ abandoned' # abandoned \/ (t = "owner" /\ l = "lifecycle")
       \/ n = "SESSION_CLOSED" \/ t = "boot"

\* Who posts at l, and what is told there.
Posting(t, l) ==
  \/ l = "SESSION_CLOSED" \/ (t = "owner" /\ l = "finalizer")
  \/ t \in Started \cup {"boot"} /\ l \notin Gone

TellsAt(t, l, n, e) ==
  CASE e = "SPAWNED"        -> t = "boot" /\ l = "spawned" /\ n = "release"
    [] e = "SPAWN_FAILED"   -> t = "boot" /\ l \in {"failed", "unstartedAnswer", "answer"}
                                 /\ n \notin Unanswered
    [] e = "OUTPUT_CLOSED"  -> \/ "outputClosed" \in flags' \ flags
                               \/ t = "boot" /\ l = "failedOutput" /\ n = "markClosed"
    [] e = "INPUT_CLOSED"   -> "inputClosed" \in flags' \ flags
    [] e = "PROCESS_EXIT"   -> t = "waiter" /\ l = "exit" /\ n \in PastExit
    [] e = "SESSION_CLOSED" -> \/ l = "SESSION_CLOSED"
                               \/ t = "boot" /\ l = "sessionClosed" /\ n = "release"
    [] e = "ASYNC_ERROR"    -> \/ t = "waiter" /\ l \in {"unreadable", "waitFailed"}
                               \/ t = "reader" /\ l = "failed" /\ Reportable
    [] OTHER                -> TRUE

Tells(t, l, n) ==
  /\ UNCHANGED <<abandoned, dart, refCount, program>> /\ ~Abandons /\ Posting(t, l)
  /\ \E e : posted' = (IF abandoned THEN posted ELSE Counted(e)) /\ TellsAt(t, l, n, e)

Hushes(t, l) ==
  /\ UNCHANGED <<posted, dart>>
  /\ \/ /\ abandoned' = abandoned
        /\ refCount' = refCount \/ (program' = program /\ l \notin {"finalizer", "end"})
     \/ /\ abandoned' = TRUE /\ Abandons /\ Posting(t, l)
        /\ refCount' \in {refCount, refCount - 1}

Step(t, l, n) ==
  /\ Walks(t, l, n) /\ Way(t, l, n) /\ Raises(t, l, n) /\ Fair(t, l, n)
  /\ Hushes(t, l) \/ Tells(t, l, n)

\* While the isolate is calm, nobody gives the session up.
LEMMA CalmStep ==
  ASSUME TellInv, TypeInv, NEW t \in Threads, NEW l, NEW n, Step(t, l, n), Calm'
  PROVE  Calm /\ StartsOK /\ PostsOK /\ abandoned' = abandoned
  <1>1. Calm
    <2>1. CASE Hushes(t, l)
      BY <2>1 DEF Hushes, Calm
    <2>2. CASE Tells(t, l, n)
      BY <2>2 DEF Tells, Counted, Calm, Events, TypeInv
    <2> QED
      BY <2>1, <2>2 DEF Step
  <1>2. StartsOK /\ PostsOK
    BY <1>1 DEF TellInv
  <1>3. ~(Abandons /\ Posting(t, l))
    <2> SUFFICES ASSUME Abandons, Posting(t, l) PROVE FALSE
      OBVIOUS
    <2>1. posted["SESSION_CLOSED"] > 0 /\ pc[t] = l
      BY <1>2 DEF Abandons, PostsOK, Step, Walks
    <2>2. Quiet /\ l # "SESSION_CLOSED"
      BY <1>2, <2>1 DEF PostsOK
    <2>3. t = "owner" /\ l = "finalizer"
      BY <2>1, <2>2 DEF Posting, Quiet, Gone, Past
    <2> QED
      BY <1>1, <2>1, <2>3 DEF TellInv, DoneOK, Calm
  <1> QED
    BY <1>1, <1>2, <1>3 DEF Step, Hushes, Tells

\* A step of the session's own threads keeps what is done, ...
LEMMA DoneKeeps ==
  ASSUME DoneOK, SafeInv, NEW t \in Threads, NEW l, NEW n, Walks(t, l, n), Way(t, l, n),
         Raises(t, l, n), Fair(t, l, n), dart' = dart
  PROVE  DoneOK'
  <1>1. /\ pc[t] = l /\ {"boot", "owner"} \cup Started \subseteq Threads
        /\ "boot" \notin Started
    BY DEF Walks, Threads, Workers, Started
  <1>2. /\ pc'["boot"] = IF t = "boot" THEN n ELSE pc["boot"]
        /\ pc'["owner"] = IF t = "owner" THEN n ELSE pc["owner"]
    BY <1>1 DEF Walks, Started
  <1>3. ASSUME NEW u \in Started PROVE
          /\ pc[u] \in Gone => pc'[u] \in Gone \/ (t = "boot" /\ l = u)
          /\ pc[u] \in {"off", "end"} => pc'[u] = pc[u] \/ (t = "boot" /\ l = u)
    <2>1. LET a == IF u = t THEN n ELSE pc[u]
          IN  \/ pc'[u] = a
              \/ a \in {"read", "write"}
              \/ t = "boot" /\ l = u
      BY <1>1 DEF Walks, Started
    <2>2. u = t => l \notin {"off", "end"} /\ (l \in Past => n \in Past)
      BY DEF Way, Started, Workers
    <2> QED
      BY <1>1, <2>1, <2>2 DEF Gone, Past
  <1>4. "waiterStarted" \in flags' <=> pc'["waiter"] # "off"
    <2>1. "waiterStarted" \notin flags' => pc'["waiter"] = "off"
      BY DEF Raises, DoneOK
    <2>2. pc["waiter"] # "off" => pc'["waiter"] # "off"
      <3>1. t = "waiter" => n # "off"
        BY DEF Way, Workers
      <3> QED
        BY <1>1, <3>1 DEF Walks, Started
    <2> QED
      BY <2>1, <2>2 DEF Raises, DoneOK
  <1>5. "readerDone" \in flags' => pc'["reader"] \in Gone
    <2>1. "readerDone" \in flags => pc["reader"] \in Gone /\ pc["boot"] # "reader"
      BY DEF DoneOK, SafeInv, StartOK, ReaderOver, BeforeReader
    <2> QED
      BY <1>1, <1>3, <2>1 DEF Raises, Started
  <1>6. "writerDone" \in flags' => pc'["writer"] \in Gone
    <2>1. "writerDone" \in flags => pc["writer"] \in Gone /\ pc["boot"] # "writer"
      BY DEF DoneOK, SafeInv, StartOK, WriterOver, BeforeWriter
    <2> QED
      BY <1>1, <1>3, <2>1 DEF Raises, Started
  <1>7. "waiterDone" \in flags' =>
          pc'["waiter"] \in Gone /\ pc'["boot"] \notin BeforeWriter \cup {"waiter"}
    <2>1. CASE "waiterDone" \in flags
      <3>1. pc["waiter"] \in Gone /\ pc["boot"] \notin BeforeWriter \cup {"waiter"}
        BY <2>1 DEF DoneOK
      <3>2. pc'["boot"] \notin BeforeWriter \cup {"waiter"}
        BY <1>1, <1>2, <3>1 DEF Way, BootWay
      <3> QED
        BY <1>1, <1>3, <3>1, <3>2 DEF Started
    <2>2. CASE "waiterDone" \notin flags
      BY <2>2 DEF Raises
    <2> QED
      BY <2>1, <2>2
  <1>8. pc'["boot"] \in AfterJoin => \A u \in Started : pc'[u] \in {"off", "end"}
    <2> SUFFICES ASSUME pc'["boot"] \in AfterJoin, NEW u \in Started PROVE pc'[u] \in {"off", "end"}
      OBVIOUS
    <2>1. t = "boot" /\ n \in AfterJoin => l \in AfterJoin \/ (l = "join" /\ AllJoined)
      BY DEF Way, BootWay
    <2>2. pc["boot"] \in AfterJoin \/ (t = "boot" /\ l = "join" /\ AllJoined)
      BY <1>1, <1>2, <2>1
    <2>3. AllJoined => pc[u] \in {"off", "end"}
      BY DEF AllJoined, Joined, Started, DoneOK, SafeInv, StartOK
    <2>4. pc[u] \in {"off", "end"}
      BY <2>2, <2>3 DEF DoneOK
    <2>5. t = "boot" => l # u
      BY <1>1, <2>2 DEF AfterJoin, Tearing, TornDown, Started
    <2> QED
      BY <1>3, <2>4, <2>5
  <1>9. pc'["boot"] \in {"mark", "answer"} \cup TornDown => program' = "dead"
    BY <1>1, <1>2 DEF Way, BootWay, Fair, DoneOK
  <1>10. pc'["boot"] \in UnstartedAt => \A u \in Started : pc'[u] = "off"
    <2> SUFFICES ASSUME pc'["boot"] \in UnstartedAt, NEW u \in Started PROVE pc'[u] = "off"
      OBVIOUS
    <2>1. pc["boot"] \in UnstartedAt \/ pc["boot"] = "check"
      BY <1>1, <1>2 DEF Way, BootWay
    <2>2. "check" \in NotYet(u) /\ u \in Threads
      BY <1>1 DEF NotYet, Started, BeforeWriter, BeforeReader
    <2>3. pc[u] = "off"
      BY <2>1, <2>2 DEF DoneOK, SafeInv, StartOK
    <2>4. t = "boot" => l # u
      BY <1>1, <2>1 DEF UnstartedAt, Unstarted, Started
    <2> QED
      BY <1>3, <2>3, <2>4
  <1>11. /\ pc'["owner"] \in {"finalizer", "end"} <=> dart'.finalizer = "ran"
         /\ dart'.finalizer = "detached" => pc'["owner"] = "idle"
    BY <1>1, <1>2 DEF Way, DoneOK
  <1>12. ASSUME NEW u \in Threads, pc'[u] = "SESSION_CLOSED"
         PROVE  IF u = t THEN n = "SESSION_CLOSED" ELSE pc[u] = "SESSION_CLOSED"
    BY <1>12 DEF Walks
  <1>13. \A u \in Threads : pc'[u] = "SESSION_CLOSED" => "closedPosted" \in flags'
    BY <1>12 DEF Way, Raises, DoneOK
  <1>14. \A u, v \in Threads : pc'[u] = "SESSION_CLOSED" /\ pc'[v] = "SESSION_CLOSED" => u = v
    BY <1>12 DEF Way, Claims, DoneOK
  <1>15. pc'["boot"] \in BootLabels
    BY <1>1, <1>2 DEF Way, BootWay, DoneOK
  <1>16. /\ dart'.finalizer # "attached" => ~dart'.portOpen
         /\ console' = "none" => "outputClosed" \notin flags'
    BY DEF DoneOK, Raises, Fair
  <1> QED
    BY <1>15, <1>16, <1>4, <1>5, <1>6, <1>7, <1>8, <1>9, <1>10, <1>11, <1>13, <1>14 DEF DoneOK

\* ... how the session starts, ...
LEMMA StartsKeep ==
  ASSUME DoneOK, StartsOK, PostsOK, TypeInv, NEW t \in Threads, NEW l, NEW n, Step(t, l, n),
         abandoned' = abandoned
  PROVE  StartsOK'
  <1>1. /\ pc[t] = l /\ {"boot", "owner", "closer"} \subseteq Threads
    BY DEF Step, Walks, Threads, Workers
  <1>2. /\ pc'["boot"] = IF t = "boot" THEN n ELSE pc["boot"]
        /\ pc'["owner"] = IF t = "owner" THEN n ELSE pc["owner"]
        /\ pc["closer"] = "off" => pc'["closer"] = "off" \/ (t = "owner" /\ l = "create")
    <2>1. t = "closer" => l # "off"
      BY DEF Step, Way, Workers
    <2> QED
      BY <1>1, <2>1 DEF Step, Walks, Started
  <1>3. t = "boot" => BootWay(l, n)
    BY DEF Step, Way
  <1>4. pc["boot"] \notin UnstartedAt
    BY DEF StartsOK
  <1>5. pc'["boot"] \notin UnstartedAt
    <2>1. l \in Undecided => lifecycle = "STARTING" \/ t # "boot"
      BY <1>1 DEF StartsOK, Launch, Launched, Undecided, Early
    <2>2. "check" \in Undecided
      BY DEF Undecided
    <2> QED
      BY <1>1, <1>2, <1>3, <1>4, <2>1, <2>2 DEF BootWay
  <1>6. dart' = dart
    BY DEF Step, Hushes, Tells
  <1>7. ASSUME pc'["boot"] \in Unanswered
        PROVE  /\ pc["boot"] \in Unanswered /\ t # "owner"
               /\ pc'["owner"] = "idle" /\ pc'["closer"] = "off" /\ ~dart'.fatal /\ ~dart'.closing
               /\ posted'["SPAWNED"] = 0 /\ posted'["SPAWN_FAILED"] = 0
    <2>1. pc["boot"] \in Unanswered
      BY <1>1, <1>2, <1>3, <1>7 DEF BootWay
    <2>2. t # "owner"
      BY <1>1, <2>1 DEF StartsOK, Step, Way
    <2>3. pc'["owner"] = "idle" /\ pc'["closer"] = "off" /\ ~dart'.fatal /\ ~dart'.closing
      BY <1>2, <1>6, <2>1, <2>2 DEF StartsOK
    <2>4. posted["SPAWNED"] = 0 /\ posted["SPAWN_FAILED"] = 0
      BY <2>1 DEF StartsOK
    <2>5. CASE posted' = posted
      BY <2>1, <2>2, <2>3, <2>4, <2>5
    <2>6. CASE Tells(t, l, n)
      <3>1. PICK e : posted' = (IF abandoned THEN posted ELSE Counted(e)) /\ TellsAt(t, l, n, e)
        BY <2>6 DEF Tells
      <3>2. "release" \notin Unanswered
        BY DEF Unanswered, Launch, Launched, Undecided, Early, Tearing
      <3>3. e \notin {"SPAWNED", "SPAWN_FAILED"}
        BY <1>2, <1>7, <3>1, <3>2 DEF TellsAt
      <3> QED
        BY <2>1, <2>2, <2>3, <2>4, <3>1, <3>3 DEF Counted, Events
    <2> QED
      BY <2>5, <2>6 DEF Step, Hushes
  <1>8. Launch \subseteq Unanswered /\ Tearing \subseteq Unanswered
    BY DEF Unanswered
  <1>9. ASSUME pc'["boot"] \in Launch
        PROVE  /\ lifecycle' = IF pc'["boot"] \in Launched THEN "RUNNING" ELSE "STARTING"
               /\ {"closeStarted", "closeDone"} \cap flags' = {}
    <2>1. pc["boot"] \in Unanswered /\ t # "owner" /\ pc["closer"] = "off"
      BY <1>7, <1>8, <1>9 DEF StartsOK
    <2>2. t # "closer"
      BY <1>1, <2>1 DEF Step, Way, Workers
    <2>3. pc["boot"] \in Launch
      BY <1>1, <1>2, <1>3, <1>9, <2>1 DEF BootWay, Launch, Launched, Undecided
    <2>4. {"closeStarted", "closeDone"} \cap flags = {}
      BY <2>3 DEF StartsOK
    <2>5. "stop" \notin Launch /\ "mark" \notin Launch /\ "answer" \notin Launch
          /\ Launch \cap UnstartedAt = {}
      BY DEF Launch, Launched, Undecided, Early, UnstartedAt, Unstarted
    <2>6. {"closeStarted", "closeDone"} \cap flags' = {}
      BY <1>2, <1>9, <2>1, <2>2, <2>4, <2>5 DEF Step, Raises
    <2>7. ~Claims
      BY <2>4 DEF Claims, Complete, AllParts
    <2>8. CASE t # "boot"
      <3>1. lifecycle' = lifecycle
        BY <2>1, <2>7, <2>8 DEF Step, Fair, Way
      <3> QED
        BY <1>2, <2>3, <2>6, <2>8, <3>1 DEF StartsOK
    <2>9. CASE t = "boot"
      BY <1>1, <1>2, <1>3, <1>9, <2>3, <2>6, <2>9 DEF BootWay, StartsOK, Launched
    <2> QED
      BY <2>8, <2>9
  <1>10. ASSUME pc'["boot"] \in Tearing \cup TornDown
         PROVE  /\ "closeStarted" \in flags' /\ pc'["closer"] = "off"
                /\ pc'["owner"] \in {"idle", "lifecycle", "claim"}
    <2>1. \/ pc["boot"] \in Tearing \cup TornDown /\ "closeStarted" \in flags
          \/ t = "boot" /\ pc["boot"] \in Launch /\ "closeStarted" \in flags'
      BY <1>1, <1>2, <1>3, <1>10 DEF BootWay, StartsOK
    <2>2. pc["closer"] = "off" /\ pc["owner"] \in {"idle", "lifecycle", "claim"}
      BY <1>8, <2>1 DEF StartsOK
    <2>3. "closeStarted" \in flags'
      BY <2>1 DEF Step, Raises
    <2>4. pc'["closer"] = "off"
      BY <1>1, <1>2, <2>2
    <2>5. pc'["owner"] \in {"idle", "lifecycle", "claim"}
      <3>1. t # "boot" => "closeStarted" \in flags
        BY <2>1
      <3> QED
        BY <1>1, <1>2, <2>2, <3>1 DEF Step, Way
    <2> QED
      BY <2>3, <2>4, <2>5
  <1>11. pc'["boot"] \in Tearing /\ "closeDone" \in flags' => pc'["boot"] \in {"mark", "answer"}
    <2> SUFFICES ASSUME pc'["boot"] \in Tearing, "closeDone" \in flags'
                 PROVE  pc'["boot"] \in {"mark", "answer"}
      OBVIOUS
    <2>1. pc["boot"] \in Unanswered /\ t # "owner" /\ pc["closer"] = "off"
      BY <1>7, <1>8 DEF StartsOK
    <2>2. t # "closer"
      BY <1>1, <2>1 DEF Step, Way, Workers
    <2>3. CASE "closeDone" \notin flags
      <3>1. UnstartedAt \cap Tearing = {}
        BY DEF UnstartedAt, Unstarted, Tearing
      <3> QED
        BY <1>2, <2>1, <2>2, <2>3, <3>1 DEF Step, Raises
    <2>4. CASE "closeDone" \in flags
      <3>1. pc["boot"] \in {"mark", "answer"}
        BY <2>1, <2>4 DEF StartsOK, Unanswered
      <3> QED
        BY <1>1, <1>2, <1>3, <3>1 DEF BootWay
    <2> QED
      BY <2>3, <2>4
  <1>12. pc'["boot"] \in NoPlatform => console' = "none"
    <2>1. pc'["boot"] \in NoPlatform => console = "none"
      BY <1>1, <1>2, <1>3, <1>4 DEF BootWay, StartsOK
    <2>2. "check" \notin NoPlatform
      BY DEF NoPlatform
    <2> QED
      BY <1>2, <2>1, <2>2 DEF Step, Fair
  <1>13. ~abandoned'
    BY DEF StartsOK
  <1> QED
    BY <1>5, <1>7, <1>9, <1>10, <1>11, <1>12, <1>13 DEF StartsOK

\* Who claims SESSION_CLOSED finds everybody silent.
LEMMA ClaimsQuiet ==
  ASSUME DoneOK, StartsOK, NEW t \in Threads \ {"console"}, Claims, pc[t] = "maybe"
  PROVE  Quiet
  <1>1. /\ {"readerDone", "writerDone", "waiterDone", "closeDone"} \subseteq flags
        /\ console = "CLOSED"
    BY DEF Claims, Complete, AllParts
  <1>2. \A u \in Started : pc[u] \in Gone
    BY <1>1 DEF DoneOK, Started
  <1>3. pc["boot"] \notin UnstartedAt \cup NoPlatform \cup Launch
    BY <1>1 DEF StartsOK
  <1>4. pc["boot"] \notin Tearing \cup TornDown
    <2> SUFFICES ASSUME pc["boot"] \in Tearing \cup TornDown PROVE FALSE
      OBVIOUS
    <2>1. pc["boot"] \in AfterJoin
      BY <1>1 DEF StartsOK, AfterJoin, Tearing
    <2>2. \A u \in Started : pc[u] \in {"off", "end"}
      BY <2>1 DEF DoneOK
    <2>3. pc["closer"] = "off" /\ pc["owner"] \in {"idle", "lifecycle", "claim"}
      BY DEF StartsOK
    <2>4. pc["boot"] # "maybe"
      BY DEF Tearing, TornDown
    <2> QED
      BY <2>2, <2>3, <2>4 DEF Threads, Workers, Started
  <1>5. pc["boot"] \in Past
    BY <1>3, <1>4 DEF DoneOK, BootLabels, Unanswered
  <1> QED
    BY <1>2, <1>5 DEF Quiet

\* ... and that nothing is told twice, or too late.
LEMMA PostsKeep ==
  ASSUME DoneOK, StartsOK, PostsOK, IInv, NEW t \in Threads, NEW l, NEW n, Step(t, l, n),
         abandoned' = abandoned, StartsOK'
  PROVE  PostsOK'
  <1>1. /\ pc[t] = l /\ {"boot", "waiter"} \cup Started \subseteq Threads /\ "boot" \notin Started
    BY DEF Step, Walks, Threads, Workers, Started
  <1>2. /\ pc'["boot"] = IF t = "boot" THEN n ELSE pc["boot"]
        /\ t = "boot" => BootWay(l, n)
    BY <1>1 DEF Step, Walks, Started, Way
  <1>3. Quiet => Quiet'
    <2> SUFFICES ASSUME Quiet PROVE Quiet'
      OBVIOUS
    <2>1. pc'["boot"] \in Past
      BY <1>1, <1>2 DEF Quiet, BootWay
    <2>2. ASSUME NEW u \in Started PROVE pc'[u] \in Gone
      <3>1. t = "boot" => l # u
        BY <1>1 DEF Quiet, Past, Started
      <3>2. (IF u = t THEN n ELSE pc[u]) \in Gone
        BY <1>1 DEF Quiet, Gone, Step, Way, Started, Workers
      <3> QED
        BY <1>1, <3>1, <3>2 DEF Step, Walks, Gone, Past, Started
    <2> QED
      BY <2>1, <2>2 DEF Quiet
  <1>4. n = "SESSION_CLOSED" => Quiet
    BY <1>1, ClaimsQuiet DEF Step, Way
  <1>5. ~Quiet \/ ~Posting(t, l) \/ l = "SESSION_CLOSED" \/ t = "owner"
    BY <1>1 DEF Quiet, Posting, Gone
  <1>6. posted \in [Events -> 0 .. 2] /\ dart' = dart
    BY DEF IInv, TypeInv, Step, Hushes, Tells
  <1>7. ASSUME NEW u \in Threads, pc'[u] = "SESSION_CLOSED"
        PROVE  IF u = t THEN n = "SESSION_CLOSED" ELSE pc[u] = "SESSION_CLOSED"
    BY <1>7 DEF Step, Walks
  <1>8. l # "SESSION_CLOSED" \/ n # "SESSION_CLOSED"
    BY DEF Step, Way
  <1>9. ASSUME NEW e \in Events, posted'[e] > 0 PROVE posted[e] > 0 \/ TellsAt(t, l, n, e)
    <2>1. CASE posted' = posted
      BY <1>9, <2>1
    <2>2. CASE Tells(t, l, n)
      BY <1>6, <1>9, <2>2 DEF Tells, Counted
    <2> QED
      BY <2>1, <2>2 DEF Step, Hushes
  <1>10. {"OUTPUT_CLOSED", "INPUT_CLOSED", "PROCESS_EXIT", "SESSION_CLOSED"} \subseteq Events
    BY DEF Events
  <1>11. \A e \in Events : posted[e] > 0 => posted'[e] > 0
    <2>1. CASE posted' = posted
      BY <2>1
    <2>2. CASE Tells(t, l, n)
      BY <1>6, <2>2 DEF Tells, Counted
    <2> QED
      BY <2>1, <2>2 DEF Step, Hushes
  <1>12. ~dart'.portOpen => posted'["SESSION_CLOSED"] > 0
    BY <1>6, <1>10, <1>11 DEF PostsOK
  \* The bootstrap of a session that found no console posts for all of them.
  <1>13. ASSUME t = "boot", l = "sessionClosed", n = "release"
         PROVE  /\ Quiet' /\ console' = "none"
                /\ \A u \in Threads : pc'[u] # "SESSION_CLOSED"
    <2>1. console = "none"
      BY <1>1, <1>13 DEF StartsOK, NoPlatform
    <2>2. console' = "none"
      BY <1>13, <2>1 DEF Step, Fair
    <2>3. \A u \in Threads : pc[u] \in Before(u)
      BY <2>1 DEF IInv, ConsoleOK, PlaceOK
    <2>4. \A u \in Threads : pc[u] # "SESSION_CLOSED"
      BY <2>3 DEF Before, Early
    <2>5. \A u \in Started : pc[u] = "off"
      BY <1>1, <2>3 DEF Before, Started
    <2>6. \A u \in Started : pc'[u] = "off"
      BY <1>1, <1>13, <2>5 DEF Step, Walks, Started
    <2> QED
      BY <1>2, <1>7, <1>13, <2>2, <2>4, <2>6 DEF Quiet, Past, Gone
  <1>14. "closedPosted" \in flags' => Quiet'
    <2>1. CASE "closedPosted" \in flags
      BY <1>3, <2>1 DEF PostsOK
    <2>2. CASE n = "SESSION_CLOSED"
      BY <1>3, <1>4, <2>2
    <2>3. t = "boot" => n \notin UnstartedAt
      BY <1>2 DEF StartsOK
    <2> QED
      BY <2>1, <2>2, <2>3 DEF Step, Raises
  <1>15. posted'["SESSION_CLOSED"] > 0 =>
           /\ Quiet' /\ ("closedPosted" \in flags' \/ console' = "none")
           /\ \A u \in Threads : pc'[u] # "SESSION_CLOSED"
    <2>1. CASE posted["SESSION_CLOSED"] > 0
      <3>1. /\ Quiet /\ ("closedPosted" \in flags \/ console = "none")
            /\ \A u \in Threads : pc[u] # "SESSION_CLOSED"
        BY <2>1 DEF PostsOK
      <3>2. "closedPosted" \in flags => "closedPosted" \in flags'
        BY DEF Step, Raises
      <3>3. console = "none" => console' = "none"
        BY <1>1, <1>2, <3>1 DEF BootWay, Step, Fair, Quiet, Past
      <3>4. n # "SESSION_CLOSED"
        BY <3>1 DEF Step, Way, Claims, Complete
      <3> QED
        BY <1>3, <1>7, <2>1, <3>1, <3>2, <3>3, <3>4 DEF PostsOK
    <2>2. CASE l = "SESSION_CLOSED"
      <3>1. "closedPosted" \in flags
        BY <1>1, <2>2 DEF DoneOK
      <3>2. \A u \in Threads : u # t => pc[u] # "SESSION_CLOSED"
        BY <1>1, <2>2 DEF DoneOK
      <3>3. "closedPosted" \in flags'
        BY <3>1 DEF Step, Raises
      <3> QED
        BY <1>7, <1>8, <1>14, <2>2, <3>2, <3>3
    <2>3. CASE t = "boot" /\ l = "sessionClosed" /\ n = "release"
      BY <1>13, <2>3
    <2> QED
      BY <1>9, <1>10, <2>1, <2>2, <2>3 DEF TellsAt
  <1>16. posted'["OUTPUT_CLOSED"] > 0 =>
           \/ "outputClosed" \in flags'
           \/ console' = "none" /\ pc'["boot"] \in {"markClosed", "sessionClosed", "release", "end"}
    <2>1. CASE "outputClosed" \in flags'
      BY <2>1
    <2>2. CASE /\ console = "none"
               /\ pc["boot"] \in {"markClosed", "sessionClosed", "release", "end"}
      <3>1. t = "boot" => l # "end"
        BY DEF Step, Way, Workers
      <3>2. pc'["boot"] \in {"markClosed", "sessionClosed", "release", "end"}
        BY <1>1, <1>2, <2>2, <3>1 DEF BootWay
      <3> QED
        BY <1>2, <2>2, <3>2 DEF Step, Fair
    <2>3. CASE t = "boot" /\ l = "failedOutput" /\ n = "markClosed"
      BY <1>1, <1>2, <2>3 DEF Step, Fair, StartsOK, NoPlatform
    <2>4. "outputClosed" \in flags => "outputClosed" \in flags'
      BY DEF Step, Raises
    <2> QED
      BY <1>9, <1>10, <2>1, <2>2, <2>3, <2>4 DEF PostsOK, TellsAt
  <1>17. posted'["INPUT_CLOSED"] > 0 => "inputClosed" \in flags'
    BY <1>9, <1>10 DEF PostsOK, TellsAt, Step, Raises
  <1>18. posted'["PROCESS_EXIT"] > 0 => pc'["waiter"] \in PastExit
    <2>1. (IF t = "waiter" THEN n ELSE pc["waiter"]) \in PastExit =>
            pc'["waiter"] = IF t = "waiter" THEN n ELSE pc["waiter"]
      BY <1>1 DEF Step, Walks, PastExit, Past, Started
    <2>2. pc["waiter"] \in PastExit => (IF t = "waiter" THEN n ELSE pc["waiter"]) \in PastExit
      BY <1>1 DEF Step, Way
    <2>3. pc["waiter"] \in PastExit => pc'["waiter"] \in PastExit
      BY <2>1, <2>2
    <2>4. t = "waiter" /\ n \in PastExit => pc'["waiter"] \in PastExit
      BY <2>1
    <2>5. posted["PROCESS_EXIT"] > 0 => pc["waiter"] \in PastExit
      BY DEF PostsOK
    <2>6. TellsAt(t, l, n, "PROCESS_EXIT") => t = "waiter" /\ n \in PastExit
      BY DEF TellsAt
    <2> QED
      BY <1>9, <1>10, <2>3, <2>4, <2>5, <2>6
  <1> QED
    BY <1>12, <1>14, <1>15, <1>16, <1>17, <1>18 DEF PostsOK

\* A step of the session's own threads keeps the order of what is told.
LEMMA TellKeeps ==
  ASSUME TellInv, SafeInv, IInv, NEW t \in Threads, NEW l, NEW n, Step(t, l, n)
  PROVE  TellInv'
  <1>1. dart' = dart /\ DoneOK /\ TypeInv
    BY DEF Step, Hushes, Tells, TellInv, IInv
  <1>2. DoneOK'
    BY <1>1, DoneKeeps DEF Step
  <1>3. ASSUME Calm' PROVE StartsOK' /\ PostsOK'
    <2>1. StartsOK /\ PostsOK /\ abandoned' = abandoned
      BY <1>1, <1>3, CalmStep
    <2>2. StartsOK'
      BY <1>1, <2>1, StartsKeep
    <2> QED
      BY <1>1, <2>1, <2>2, PostsKeep
  <1> QED
    BY <1>2, <1>3 DEF TellInv

-----------------------------------------------------------------------------
(* The kinds of steps are steps                                            *)

Stepped == \E t \in Threads : \E l, n \in Labels : Step(t, l, n)

\* The labels of a step are labels.
LEMMA Steps ==
  ASSUME TypeInv, NEW t \in Threads, NEW l, NEW n, Step(t, l, n)
  PROVE  Stepped
  BY DEF Step, Walks, Way, TypeInv, Stepped

\* A thread that goes to its next label walks, ...
LEMMA GoWalks ==
  ASSUME TypeInv, NEW t \in Threads, NEW l, NEW n, Go(t, l, n), Way(t, l, n)
  PROVE  Walks(t, l, n) /\ (pc["waiter"] = "off" => pc'["waiter"] = "off")
  <1>1. n \in Labels /\ pc' = [pc EXCEPT ![t] = n] /\ pc[t] = l /\ "waiter" \in Workers
    BY DEF Go, Way, Workers
  <1>2. Workers \subseteq Threads
    BY DEF Threads
  <1> QED
    BY <1>1, <1>2 DEF Walks, TypeInv, Way

\* ... even one that interrupts the reader and the writer besides.
LEMMA CutWalks ==
  ASSUME TypeInv, NEW t \in Threads, NEW l, NEW n, pc[t] = l, Way(t, l, n),
         pc' \in Interrupted([pc EXCEPT ![t] = n]), "stopping" \in flags' \/ pc' = [pc EXCEPT ![t] = n]
  PROVE  Walks(t, l, n) /\ (pc["waiter"] = "off" => pc'["waiter"] = "off")
  <1> DEFINE m == [pc EXCEPT ![t] = n]
  <1>1. n \in Labels /\ {"reader", "writer", "waiter"} \subseteq Workers /\ Workers \subseteq Threads
    BY DEF Way, Threads, Workers
  <1>2. m \in [Threads -> Labels] /\ \A u \in Threads : m[u] = IF u = t THEN n ELSE pc[u]
    BY <1>1 DEF TypeInv
  <1> HIDE DEF m
  <1>3. "failed" \in Labels /\ "unwritten" \in Labels
    BY DEF Labels
  <1>4. \/ pc' = m
        \/ pc' = [m EXCEPT !["reader"] = IF @ = "read" THEN "failed" ELSE @,
                           !["writer"] = IF @ = "write" THEN "unwritten" ELSE @]
    BY DEF Interrupted, m
  <1>5. /\ pc' \in [Threads -> Labels]
        /\ \A u \in Threads : \/ pc'[u] = m[u]
                              \/ u = "reader" /\ m[u] = "read" /\ pc'[u] = "failed" /\ "stopping" \in flags'
                              \/ u = "writer" /\ m[u] = "write" /\ pc'[u] = "unwritten"
    BY <1>1, <1>2, <1>3, <1>4
  <1>6. pc["waiter"] = "off" => pc'["waiter"] = "off"
    BY <1>1, <1>2, <1>5 DEF Way
  <1> QED
    BY <1>2, <1>5, <1>6 DEF Walks

\* A step that raises no flag that says that something is done.
Special == {"readerDone", "writerDone", "waiterDone", "closeStarted", "closeDone", "closedPosted",
            "waiterStarted"}
LEMMA RaisesFew ==
  ASSUME NEW t, NEW l, NEW n, flags \ {"terminating", "backpressured"} \subseteq flags',
         Special \cap flags' \subseteq flags, pc["waiter"] = "off" => pc'["waiter"] = "off",
         "outputClosed" \in flags' => "outputClosed" \in flags \/ console # "none"
  PROVE  Raises(t, l, n)
  BY DEF Raises, Special

\* Raising flags, ...
LEMMA FlagIs ==
  ASSUME TypeInv, NEW t \in Threads, NEW l, NEW n, NEW set, FlagStep(t, l, set, n), Way(t, l, n),
         Raises(t, l, n) \/ ("outputClosed" \notin set /\ Special \cap set = {})
  PROVE  Stepped
  <1>1. Walks(t, l, n) /\ (pc["waiter"] = "off" => pc'["waiter"] = "off") /\ flags' = flags \cup set
    BY GoWalks DEF FlagStep
  <1>2. Raises(t, l, n)
    BY <1>1, RaisesFew
  <1>3. Fair(t, l, n)
    BY <1>1 DEF FlagStep, Fair, TypeInv, sessionVars, hostVars
  <1>4. Hushes(t, l)
    BY DEF FlagStep, Hushes, sessionVars, dartVars
  <1> QED
    BY <1>1, <1>2, <1>3, <1>4, Steps DEF Step

\* ... looking at them, ...
LEMMA LookIs ==
  ASSUME TypeInv, NEW t \in Threads, NEW l, NEW n, FlagStep(t, l, {}, n), Way(t, l, n)
  PROVE  Stepped
  BY FlagIs

\* ... changing the lifecycle, ...
LEMMA LifeIs ==
  ASSUME TypeInv, NEW t \in Threads, NEW l, NEW n, NEW v, LifeStep(t, l, v, n), Way(t, l, n),
         t = "boot" \/ (t = "owner" /\ l = "lifecycle")
  PROVE  Stepped
  <1>1. Walks(t, l, n) /\ (pc["waiter"] = "off" => pc'["waiter"] = "off") /\ flags' = flags
    BY GoWalks DEF LifeStep
  <1>2. Raises(t, l, n)
    BY <1>1, RaisesFew
  <1>3. Fair(t, l, n)
    BY <1>1 DEF LifeStep, Fair, TypeInv, hostVars
  <1>4. Hushes(t, l)
    BY DEF LifeStep, Hushes, dartVars
  <1> QED
    BY <1>1, <1>2, <1>3, <1>4, Steps DEF Step

\* ... a call that fails, ...
LEMMA FailsIs ==
  ASSUME TypeInv, NEW t \in Threads, NEW l, NEW n, NEW f, Fails(f, t, l, n), Way(t, l, n)
  PROVE  Stepped
  <1>1. Walks(t, l, n) /\ (pc["waiter"] = "off" => pc'["waiter"] = "off") /\ flags' = flags
    BY GoWalks DEF Fails
  <1>2. Raises(t, l, n)
    BY <1>1, RaisesFew
  <1>3. Fair(t, l, n)
    BY <1>1 DEF Fails, Fair, TypeInv, hostVars, sessionVars
  <1>4. Hushes(t, l)
    BY DEF Fails, Hushes, dartVars, sessionVars
  <1> QED
    BY <1>1, <1>2, <1>3, <1>4, Steps DEF Step

\* ... stopping the program.
LEMMA StopIs ==
  ASSUME TypeInv, NEW t \in Threads, NEW l, NEW n, Way(t, l, n),
         StopStep(t, l, n) \/ (t = "boot" /\ BootStops(l, n))
  PROVE  Stepped
  <1>1. /\ pc[t] = l /\ pc' \in Interrupted([pc EXCEPT ![t] = n])
        /\ flags' = flags \cup {"stopping"} /\ program' = Killed
        /\ UNCHANGED <<sessionVars, console, dartVars>>
    BY DEF StopStep, BootStops
  <1>2. Walks(t, l, n) /\ (pc["waiter"] = "off" => pc'["waiter"] = "off")
    BY <1>1, CutWalks
  <1>3. Raises(t, l, n)
    BY <1>1, <1>2, RaisesFew DEF Special
  <1>4. Fair(t, l, n)
    BY <1>1 DEF Fair, Killed, sessionVars
  <1>5. Hushes(t, l)
    BY <1>1 DEF Hushes, dartVars, sessionVars
  <1> QED
    BY <1>2, <1>3, <1>4, <1>5, Steps DEF Step

\* pty_session_abandon, from a post or from the finalizer.
LEMMA AbandonIs ==
  ASSUME TypeInv, NEW t \in Threads, NEW l, NEW n, NEW set, pc[t] = l, Abandon(t, set, n), Abandons,
         Way(t, l, n), Posting(t, l), Special \cap set = {},
         "outputClosed" \in set => console # "none", n # "SESSION_CLOSED"
  PROVE  Stepped
  <1> DEFINE m == [pc EXCEPT ![t] = n]
  <1>1. /\ abandoned' = TRUE /\ ~abandoned /\ UNCHANGED <<posted, dart>>
        /\ n \in Labels /\ "stop" \in Labels /\ "waiter" \in Workers /\ Workers \subseteq Threads
        /\ "closer" \in Threads
    BY DEF Abandon, Abandons, dartVars, Way, Labels, Threads, Workers
  <1>2. m \in [Threads -> Labels] /\ \A u \in Threads : m[u] = IF u = t THEN n ELSE pc[u]
    BY <1>1 DEF TypeInv
  <1>3. \/ pc' \in Interrupted(m) /\ ("stopping" \in flags' \/ pc' = m)
        \/ pc' = [m EXCEPT !["closer"] = "stop"]
    BY DEF Abandon, Interrupted
  <1>4. Walks(t, l, n) /\ (pc["waiter"] = "off" => pc'["waiter"] = "off")
    <2>1. CASE pc' \in Interrupted(m) /\ ("stopping" \in flags' \/ pc' = m)
      BY <2>1, CutWalks
    <2>2. CASE pc' = [m EXCEPT !["closer"] = "stop"]
      <3> HIDE DEF m
      <3>1. /\ pc' \in [Threads -> Labels]
            /\ \A u \in Threads : pc'[u] = IF u = "closer" THEN "stop" ELSE m[u]
        BY <1>1, <1>2, <2>2
      <3> QED
        BY <1>1, <1>2, <3>1 DEF Walks, Way
    <2> QED
      BY <1>3, <2>1, <2>2
  <1>5. /\ flags \subseteq flags'
        /\ flags' \subseteq flags \cup set \cup {"stopping", "closeStarted", "closeDone"}
        /\ ~Claimable => flags' = flags \cup set
    BY DEF Abandon
  <1>6. Raises(t, l, n)
    BY <1>1, <1>4, <1>5 DEF Raises, Special
  <1>7. Fair(t, l, n)
    <2>1. console' = console \/ (console # "none" /\ console' = "CLOSED")
      BY DEF Abandon, Drop, FreedOpen
    <2>2. console = "none" => ~Claimable
      BY DEF Claimable, Published
    <2>3. program' \in {program, Killed}
      BY DEF Abandon
    <2> QED
      BY <1>1, <1>5, <2>1, <2>2, <2>3 DEF Fair, Killed
  <1>8. Hushes(t, l)
    BY <1>1 DEF Hushes, Abandon, Drop
  <1> QED
    BY <1>4, <1>6, <1>7, <1>8, Steps DEF Step

\* A post, or the abandonment in its place.
LEMMA PostIs ==
  ASSUME TypeInv, NEW t \in Threads, NEW l, NEW n, NEW e, NEW set, Post(t, l, e, set, n),
         Way(t, l, n), Posting(t, l), n # "SESSION_CLOSED",
         flags' = flags \cup set => TellsAt(t, l, n, e),
         Special \cap set = {}, "outputClosed" \in set => console # "none"
  PROVE  Stepped
  <1>1. CASE Abandons /\ Abandon(t, set, n)
    BY <1>1, AbandonIs DEF Post
  <1>2. CASE ~(Abandons /\ Abandon(t, set, n))
    <2>1. /\ Go(t, l, n) /\ flags' = flags \cup set /\ ~Abandons
          /\ posted' = (IF abandoned THEN posted ELSE Counted(e))
          /\ UNCHANGED <<sessionVars, hostVars, dart>>
      BY <1>2 DEF Post
    <2>2. Walks(t, l, n) /\ (pc["waiter"] = "off" => pc'["waiter"] = "off")
      BY <2>1, GoWalks
    <2>3. Raises(t, l, n)
      BY <2>1, <2>2, RaisesFew
    <2>4. Fair(t, l, n)
      BY <2>1 DEF Fair, sessionVars, hostVars
    <2>5. Tells(t, l, n)
      BY <2>1 DEF Tells, sessionVars, hostVars
    <2> QED
      BY <2>2, <2>3, <2>4, <2>5, Steps DEF Step
  <1> QED
    BY <1>1, <1>2

\* The first to find the output closed, or the input, says so, ...
LEMMA OutputClosedIs ==
  ASSUME TypeInv, NEW t \in Threads, NEW l, NEW n, OutputClosed(t, l, n),
         Way(t, l, n), Posting(t, l), n # "SESSION_CLOSED", pc[t] = l => console # "none"
  PROVE  Stepped
  <1>1. CASE "outputClosed" \in flags
    BY <1>1, LookIs DEF OutputClosed, MarkStep
  <1>2. CASE "outputClosed" \notin flags
    <2>1. Post(t, l, "OUTPUT_CLOSED", {"outputClosed"}, n) /\ console # "none"
      BY <1>2 DEF OutputClosed, MarkStep, Post
    <2>2. flags' = flags \cup {"outputClosed"} => TellsAt(t, l, n, "OUTPUT_CLOSED")
      BY <1>2 DEF TellsAt
    <2> QED
      BY <2>1, <2>2, PostIs DEF Special
  <1> QED
    BY <1>1, <1>2

\* ... likewise.
LEMMA InputClosedIs ==
  ASSUME TypeInv, NEW t \in Threads, NEW l, NEW n, InputClosed(t, l, n),
         Way(t, l, n), Posting(t, l), n # "SESSION_CLOSED"
  PROVE  Stepped
  <1>1. CASE "inputClosed" \in flags
    BY <1>1, LookIs DEF InputClosed, MarkStep
  <1>2. CASE "inputClosed" \notin flags
    <2>1. Post(t, l, "INPUT_CLOSED", {"inputClosed"}, n)
      BY <1>2 DEF InputClosed, MarkStep
    <2>2. flags' = flags \cup {"inputClosed"} => TellsAt(t, l, n, "INPUT_CLOSED")
      BY <1>2 DEF TellsAt
    <2> QED
      BY <2>1, <2>2, PostIs DEF Special
  <1> QED
    BY <1>1, <1>2

\* A step that gives nothing up and raises no flag of importance, ...
LEMMA TurnIs ==
  ASSUME TypeInv, NEW t \in Threads, NEW l, NEW n, Go(t, l, n), Way(t, l, n), Fair(t, l, n),
         flags \ {"terminating", "backpressured"} \subseteq flags', Special \cap flags' \subseteq flags,
         UNCHANGED <<abandoned, posted, dart>>, "outputClosed" \in flags' => "outputClosed" \in flags,
         refCount' = refCount \/ (program' = program /\ l \notin {"finalizer", "end"})
  PROVE  Stepped
  <1>1. Walks(t, l, n) /\ (pc["waiter"] = "off" => pc'["waiter"] = "off")
    BY GoWalks
  <1>2. Raises(t, l, n)
    BY <1>1, RaisesFew
  <1>3. Hushes(t, l)
    BY DEF Hushes
  <1> QED
    BY <1>1, <1>2, <1>3, Steps DEF Step

\* ... such as giving a reference back, ...
LEMMA DropIs ==
  ASSUME TypeInv, NEW t \in Threads, NEW l, NEW n, Go(t, l, n), Drop, Way(t, l, n),
         UNCHANGED <<lifecycle, abandoned, flags, program, dartVars>>, l \notin {"finalizer", "end"}
  PROVE  Stepped
  <1>1. Fair(t, l, n)
    BY DEF Fair, Drop, FreedOpen, TypeInv
  <1> QED
    BY <1>1, TurnIs DEF dartVars

\* ... or moving the console on.
LEMMA ConsoleIs ==
  ASSUME TypeInv, NEW t \in Threads, NEW l, NEW n, NEW c, ConsoleStep(t, l, c, n), Way(t, l, n),
         console # "none", c # "none"
  PROVE  Stepped
  <1>1. Fair(t, l, n)
    BY DEF Fair, ConsoleStep, TypeInv, sessionVars
  <1> QED
    BY <1>1, TurnIs DEF ConsoleStep, sessionVars, dartVars

\* The first to close the console creates the thread for it.
LEMMA StartCloseIs ==
  ASSUME SafeInv, IInv, NEW t \in Threads \ {"console"}, NEW l, NEW n, NEW i, StartClose(t, l, i, n),
         console # "none", Way(t, l, n), Way(t, l, i), Way(t, i, n), l \notin {"finalizer", "end"}
  PROVE  Stepped
  <1>1. TypeInv
    BY DEF IInv
  <1>2. CASE FlagStep(t, l, {}, n)
    BY <1>1, <1>2, LookIs
  <1>3. CASE ConsoleStep(t, i, "CLOSED", n)
    BY <1>1, <1>3, ConsoleIs
  <1>4. CASE /\ Unclaimed /\ pc[t] = l /\ console' = "CLOSING"
             /\ pc' = [pc EXCEPT ![t] = n, !["console"] = "close"]
             /\ UNCHANGED <<boot, lifecycle, abandoned, handed, flags, closes, program,
                            flowVars, dartVars>>
    <2>1. pc["console"] = "off"
      BY <1>4 DEF Unclaimed, SafeInv, StartOK
    <2>2. {"console", "waiter"} \subseteq Threads /\ n \in Labels /\ "close" \in Labels
      BY DEF Threads, Workers, Labels, Way
    <2>3. /\ pc' \in [Threads -> Labels] /\ pc'["console"] = "close"
          /\ \A u \in Threads \ {"console"} : pc'[u] = IF u = t THEN n ELSE pc[u]
      BY <1>1, <1>4, <2>2 DEF TypeInv
    <2>4. Walks(t, l, n)
      BY <1>4, <2>1, <2>3 DEF Walks
    <2>5. pc["waiter"] = "off" => pc'["waiter"] = "off"
      BY <1>4, <2>2, <2>3 DEF Way, Workers
    <2>6. Raises(t, l, n)
      BY <1>4, <2>5, RaisesFew
    <2>7. Fair(t, l, n)
      BY <1>1, <1>4 DEF Fair, TypeInv
    <2>8. Hushes(t, l)
      BY <1>4 DEF Hushes, dartVars
    <2> QED
      BY <1>1, <2>4, <2>6, <2>7, <2>8, Steps DEF Step
  <1>5. CASE /\ console' = "CLOSING" /\ Go(t, l, i) /\ UNCHANGED refCount
             /\ UNCHANGED <<boot, lifecycle, abandoned, handed, flags, closes, program,
                            flowVars, dartVars>>
    <2>1. Fair(t, l, i)
      BY <1>1, <1>5 DEF Fair, TypeInv
    <2> QED
      BY <1>1, <1>5, <2>1, TurnIs DEF dartVars
  <1> QED
    BY <1>2, <1>3, <1>4, <1>5 DEF StartClose

\* ... and waits for it.
LEMMA ClosesIs ==
  ASSUME SafeInv, IInv, NEW t \in Threads \ {"console"}, NEW l, NEW n, NEW i, NEW w,
         Closes(t, l, i, w, n), console # "none",
         Way(t, l, w), Way(t, l, i), Way(t, i, w), Way(t, w, n), l \notin {"finalizer", "end"}
  PROVE  Stepped
  <1>1. CASE StartClose(t, l, i, w)
    BY <1>1, StartCloseIs
  <1>2. CASE FlagStep(t, w, {}, n)
    BY <1>2, LookIs DEF IInv
  <1> QED
    BY <1>1, <1>2 DEF Closes

\* SESSION_CLOSED is claimed, and posted.
LEMMA ClaimIs ==
  ASSUME TypeInv, NEW t \in Threads \ {"console"}, NEW n, ClaimClosed(t, "maybe", n),
         n \in {"release", "idle"}, n = "idle" <=> t = "owner"
  PROVE  Stepped
  <1>1. n \in Labels /\ "SESSION_CLOSED" \in Labels /\ "release" \in Past /\ "SESSION_CLOSED" \in Past
        /\ "owner" \notin Workers /\ "owner" \notin Started /\ Past \subseteq PastExit
        /\ Past \subseteq BootLabels
    BY DEF Labels, Past, Workers, Started, PastExit, BootLabels
  <1>2. BootWay("maybe", "SESSION_CLOSED") /\ BootWay("SESSION_CLOSED", "release")
    BY <1>1 DEF BootWay, Past, BeforeWriter, BeforeReader, Early, Launched, Launch, Undecided,
       Unanswered, Tearing, TornDown, UnstartedAt, Unstarted, NoPlatform, AfterJoin
  <1>3. CASE PostStep(t, "SESSION_CLOSED", "SESSION_CLOSED", n)
    <2>1. Way(t, "SESSION_CLOSED", n)
      BY <1>1, <1>2 DEF Way
    <2> QED
      BY <1>3, <2>1, PostIs DEF PostStep, Posting, TellsAt
  <1>4. CASE /\ Claims /\ Go(t, "maybe", "SESSION_CLOSED")
             /\ flags' = flags \cup {"closedPosted"} /\ lifecycle' = "CLOSED"
             /\ UNCHANGED <<bootVars, abandoned, refCount, handed, hostVars, flowVars, dartVars>>
    <2> DEFINE l == "maybe"
               m == "SESSION_CLOSED"
    <2>1. Way(t, l, m)
      BY <1>1, <1>2, <1>4 DEF Way
    <2>2. Walks(t, l, m) /\ (pc["waiter"] = "off" => pc'["waiter"] = "off")
      BY <1>4, <2>1, GoWalks
    <2>3. Raises(t, l, m)
      BY <1>4, <2>2 DEF Raises
    <2>4. Fair(t, l, m)
      BY <1>4 DEF Fair, TypeInv, hostVars
    <2>5. Hushes(t, l)
      BY <1>4 DEF Hushes, dartVars
    <2> QED
      BY <2>1, <2>2, <2>3, <2>4, <2>5, Steps DEF Step
  <1> QED
    BY <1>3, <1>4 DEF ClaimClosed

\* The last steps of a worker.
LEMMA EndingIs ==
  ASSUME TypeInv, NEW t \in Threads \ {"console", "owner"}, Ending(t)
  PROVE  Stepped
  <1>1. CASE ClaimClosed(t, "maybe", "release")
    BY <1>1, ClaimIs
  <1>2. ASSUME NEW l \in {"maybe", "release"}, Release(t, l) PROVE Stepped
    <2>1. "end" \in Labels /\ {"maybe", "release", "end"} \subseteq Past
          /\ Past \subseteq PastExit /\ Past \subseteq BootLabels
      BY DEF Labels, Past, PastExit, BootLabels
    <2>2. BootWay(l, "end")
      BY <2>1 DEF BootWay, BeforeWriter, BeforeReader, Early, Launched, Launch, Undecided,
         Unanswered, Tearing, TornDown, UnstartedAt, Unstarted, NoPlatform, AfterJoin
    <2>3. Way(t, l, "end")
      BY <2>1, <2>2 DEF Way
    <2> QED
      BY <1>2, <2>3, DropIs DEF Release
  <1> QED
    BY <1>1, <1>2 DEF Ending

-----------------------------------------------------------------------------
(* Every step of a thread of the session is one                            *)

\* A worker of the session has a platform.
LEMMA WithPlatform ==
  ASSUME IInv, NEW t \in Threads, pc[t] \notin Before(t)
  PROVE  console # "none"
  BY DEF IInv, ConsoleOK, PlaceOK

\* windows_reader_thread_main
LEMMA ReaderIs ==
  ASSUME SafeInv, IInv, Reader \/ ReaderReads
  PROVE  Stepped
  <1>1. "reader" \in Threads \ {"console", "owner"} /\ "reader" \in Started /\ TypeInv
    BY DEF Threads, Workers, Started, IInv
  <1>2. /\ Way("reader", "top", "closing") /\ Way("reader", "top", "read")
        /\ Way("reader", "read", "charge") /\ Way("reader", "charge", "top")
        /\ Way("reader", "charge", "closing")
        /\ program = "dead" => Way("reader", "read", "failed")
        /\ Way("reader", "failed", "closing") /\ Way("reader", "closing", "done")
        /\ Way("reader", "done", "maybe")
    BY DEF Way, Labels, Past
  <1>3. /\ Posting("reader", "charge") /\ Posting("reader", "failed") /\ Posting("reader", "closing")
    BY <1>1 DEF Posting, Gone, Past
  <1>4. CASE ReaderWaits \/ ReaderReads
    BY <1>1, <1>2, <1>4, LookIs DEF ReaderWaits, ReaderReads
  <1>5. CASE ReaderPosts
    <2>1. CASE FlagStep("reader", "charge", {}, "top") \/ FlagStep("reader", "charge", {}, "closing")
      BY <1>1, <1>2, <2>1, LookIs
    <2>2. CASE /\ Go("reader", "charge", "top")
               /\ UNCHANGED <<bootVars, sessionVars, flags, hostVars, pending, dartVars>>
      <3>1. Fair("reader", "charge", "top")
        BY <1>1, <2>2 DEF Fair, TypeInv, sessionVars, hostVars
      <3> QED
        BY <1>1, <1>2, <2>2, <3>1, TurnIs DEF sessionVars, dartVars
    <2>3. CASE Abandons /\ pc["reader"] = "charge" /\ Abandon("reader", {}, "closing")
      BY <1>1, <1>2, <1>3, <2>3, AbandonIs
    <2> QED
      BY <1>5, <2>1, <2>2, <2>3 DEF ReaderPosts
  <1>6. CASE ReaderLeaves
    <2>1. CASE \/ PipeEnds /\ FlagStep("reader", "read", {}, "failed")
               \/ FlagStep("reader", "failed", {}, "closing")
      <3>1. PipeEnds => program = "dead"
        BY DEF PipeEnds, SafeInv, DeadOK
      <3> QED
        BY <1>1, <1>2, <2>1, <3>1, LookIs
    <2>2. CASE Reportable /\ PostStep("reader", "failed", "ASYNC_ERROR", "closing")
      <3>1. TellsAt("reader", "failed", "closing", "ASYNC_ERROR")
        BY <2>2 DEF TellsAt
      <3> QED
        BY <1>1, <1>2, <1>3, <2>2, <3>1, PostIs DEF PostStep
    <2>3. CASE OutputClosed("reader", "closing", "done")
      <3>1. pc["reader"] = "closing" => console # "none"
        BY <1>1, WithPlatform DEF Before
      <3> QED
        BY <1>1, <1>2, <1>3, <2>3, <3>1, OutputClosedIs
    <2>4. CASE FlagStep("reader", "done", {"readerDone"}, "maybe")
      <3>1. pc' = [pc EXCEPT !["reader"] = "maybe"] /\ flags' = flags \cup {"readerDone"}
        BY <2>4 DEF FlagStep, Go
      <3>2. pc'["reader"] = "maybe" /\ (pc'["waiter"] # "off" => pc["waiter"] # "off")
        BY <1>1, <3>1 DEF TypeInv, Threads, Workers
      <3>3. Raises("reader", "done", "maybe")
        BY <3>1, <3>2 DEF Raises, Gone, Past
      <3> QED
        BY <1>1, <1>2, <2>4, <3>3, FlagIs
    <2>5. CASE Ending("reader")
      BY <1>1, <2>5, EndingIs
    <2> QED
      BY <1>6, <2>1, <2>2, <2>3, <2>4, <2>5 DEF ReaderLeaves
  <1> QED
    BY <1>4, <1>5, <1>6 DEF Reader

\* A step that concerns the write queue.
LEMMA QueueIs ==
  ASSUME TypeInv, NEW l, NEW n, Go("writer", l, n), Way("writer", l, n),
         UNCHANGED <<bootVars, sessionVars, hostVars, dartVars>>,
         flags' \in {flags, flags \ {"backpressured"}}
  PROVE  Stepped
  <1>1. "writer" \in Threads /\ Fair("writer", l, n)
    BY DEF Fair, TypeInv, sessionVars, hostVars, Threads, Workers
  <1> QED
    BY <1>1, TurnIs DEF sessionVars, dartVars

\* windows_writer_thread_main
LEMMA WriterIs ==
  ASSUME SafeInv, IInv, Writer \/ WriterWrites
  PROVE  Stepped
  <1>1. "writer" \in Threads \ {"console", "owner"} /\ "writer" \in Started /\ TypeInv
    BY DEF Threads, Workers, Started, IInv
  <1>2. /\ Way("writer", "top", "closing") /\ Way("writer", "top", "writable")
        /\ Way("writer", "top", "write") /\ Way("writer", "writable", "write")
        /\ Way("writer", "write", "written") /\ Way("writer", "written", "complete")
        /\ Way("writer", "complete", "drained") /\ Way("writer", "complete", "top")
        /\ Way("writer", "drained", "top") /\ Way("writer", "write", "unwritten")
        /\ Way("writer", "unwritten", "discard") /\ Way("writer", "discard", "closing")
        /\ Way("writer", "closing", "done") /\ Way("writer", "done", "maybe")
    BY DEF Way, Labels, Past
  <1>3. \A l \in {"writable", "written", "drained", "unwritten", "closing"} : Posting("writer", l)
    BY <1>1 DEF Posting, Gone, Past
  <1>4. \A l, n : TellsAt("writer", l, n, "WRITABLE") /\ TellsAt("writer", l, n, "WRITE_COMPLETE")
    BY DEF TellsAt
  <1>5. CASE FlagStep("writer", "top", {}, "closing") \/ FlagStep("writer", "write", {}, "written")
             \/ FlagStep("writer", "write", {}, "unwritten")
    BY <1>1, <1>2, <1>5, LookIs
  <1>6. CASE \/ MaybeWritable("top", pending, "writable", "write")
             \/ MaybeWritable("complete", pending - 1, "drained", "top")
    BY <1>1, <1>2, <1>6, QueueIs DEF MaybeWritable
  <1>7. CASE \/ PostStep("writer", "writable", "WRITABLE", "write")
             \/ PostStep("writer", "drained", "WRITABLE", "top")
             \/ PostStep("writer", "written", "WRITE_COMPLETE", "complete")
    BY <1>1, <1>2, <1>3, <1>4, <1>7, PostIs DEF PostStep
  <1>8. CASE InputClosed("writer", "unwritten", "discard") \/ InputClosed("writer", "closing", "done")
    BY <1>1, <1>2, <1>3, <1>8, InputClosedIs
  <1>9. CASE /\ Go("writer", "discard", "closing") /\ flags' = flags \ {"backpressured"}
             /\ UNCHANGED <<bootVars, sessionVars, hostVars, credit, dartVars>>
    BY <1>1, <1>2, <1>9, QueueIs
  <1>10. CASE FlagStep("writer", "done", {"writerDone"}, "maybe")
    <2>1. pc' = [pc EXCEPT !["writer"] = "maybe"] /\ flags' = flags \cup {"writerDone"}
      BY <1>10 DEF FlagStep, Go
    <2>2. pc'["writer"] = "maybe" /\ (pc'["waiter"] # "off" => pc["waiter"] # "off")
      BY <1>1, <2>1 DEF TypeInv, Threads, Workers
    <2>3. Raises("writer", "done", "maybe")
      BY <2>1, <2>2 DEF Raises, Gone, Past
    <2> QED
      BY <1>1, <1>2, <1>10, <2>3, FlagIs
  <1>11. CASE Ending("writer")
    BY <1>1, <1>11, EndingIs
  <1> QED
    BY <1>5, <1>6, <1>7, <1>8, <1>9, <1>10, <1>11 DEF Writer, WriterWrites, WriterTakes,
       WriterCompletes, WriterLeaves

\* windows_waiter_thread_main
LEMMA WaiterIs ==
  ASSUME SafeInv, IInv, Waiter
  PROVE  Stepped
  <1>1. "waiter" \in Threads \ {"console", "owner"} /\ "waiter" \in Started /\ TypeInv
    BY DEF Threads, Workers, Started, IInv
  <1>2. /\ program = "dead" => Way("waiter", "top", "exit")
        /\ Way("waiter", "exit", "ownership") /\ Way("waiter", "unreadable", "ownership")
        /\ abandoned' = TRUE \/ posted'["ASYNC_ERROR"] > 0 => Way("waiter", "waitFailed", "done")
        /\ Way("waiter", "done", "maybe") /\ Way("waiter", "ownership", "done")
        /\ Way("waiter", "ownership", "releasing") /\ Way("waiter", "releasing", "done")
        /\ Way("waiter", "ownership", "close") /\ Way("waiter", "releasing", "unreleased")
        /\ Way("waiter", "unreleased", "close") /\ Way("waiter", "close", "done")
        /\ Way("waiter", "close", "inline") /\ Way("waiter", "inline", "done")
    BY DEF Way, Labels, Past, PastExit
  <1>3. /\ Posting("waiter", "exit") /\ Posting("waiter", "unreadable") /\ Posting("waiter", "waitFailed")
    BY <1>1 DEF Posting, Gone, Past
  <1>4. /\ \A n : /\ TellsAt("waiter", "unreadable", n, "ASYNC_ERROR")
                 /\ TellsAt("waiter", "waitFailed", n, "ASYNC_ERROR")
        /\ TellsAt("waiter", "exit", "ownership", "PROCESS_EXIT")
    BY DEF TellsAt, PastExit
  <1>5. pc["waiter"] # "off" => console # "none"
    BY <1>1, WithPlatform DEF Before
  <1>6. CASE \/ program = "dead" /\ FlagStep("waiter", "top", {"exited"}, "exit")
             \/ FlagStep("waiter", "ownership", {}, "done")
    BY <1>1, <1>2, <1>6, FlagIs DEF Special
  <1>7. CASE \/ PostStep("waiter", "exit", "PROCESS_EXIT", "ownership")
             \/ PostStep("waiter", "unreadable", "ASYNC_ERROR", "ownership")
             \/ PostStep("waiter", "waitFailed", "ASYNC_ERROR", "done")
    <2>1. PostStep("waiter", "waitFailed", "ASYNC_ERROR", "done") =>
            abandoned' = TRUE \/ posted'["ASYNC_ERROR"] > 0
      BY <1>1 DEF PostStep, Post, Abandon, Counted, TypeInv, Events, sessionVars
    <2> QED
      BY <1>1, <1>2, <1>3, <1>4, <1>7, <2>1, PostIs DEF PostStep
  <1>8. CASE \/ ConsoleStep("waiter", "ownership", "RELEASING", "releasing")
             \/ ConsoleStep("waiter", "releasing", "RELEASED", "done")
             \/ ConsoleStep("waiter", "unreleased", "OWNED", "close")
    <2>1. console # "none"
      BY <1>5, <1>8 DEF ConsoleStep, Go
    <2> QED
      BY <1>1, <1>2, <1>8, <2>1, ConsoleIs
  <1>9. CASE \/ Fails("release", "waiter", "ownership", "close")
             \/ Fails("release", "waiter", "releasing", "unreleased")
    BY <1>1, <1>2, <1>9, FailsIs
  <1>10. CASE StartClose("waiter", "close", "inline", "done")
    <2>1. console # "none"
      <3>1. pc["waiter"] # "off"
        BY <1>10 DEF StartClose, FlagStep, ConsoleStep, Go
      <3> QED
        BY <1>5, <3>1
    <2> QED
      BY <1>1, <1>2, <1>10, <2>1, StartCloseIs
  <1>11. CASE FlagStep("waiter", "done", {"exited", "waiterDone"}, "maybe")
    <2>1. /\ pc' = [pc EXCEPT !["waiter"] = "maybe"] /\ flags' = flags \cup {"exited", "waiterDone"}
          /\ pc["waiter"] = "done"
      BY <1>11 DEF FlagStep, Go
    <2>2. pc'["waiter"] = "maybe" /\ pc'["boot"] = pc["boot"]
      BY <1>1, <2>1 DEF TypeInv, Threads, Workers
    <2>3. pc'["boot"] \notin BeforeWriter \cup {"waiter"}
      BY <1>1, <2>1, <2>2 DEF SafeInv, StartOK, NotYet
    <2>4. Raises("waiter", "done", "maybe")
      BY <2>1, <2>2, <2>3 DEF Raises, Gone, Past
    <2> QED
      BY <1>1, <1>2, <1>11, <2>4, FlagIs
  <1>12. CASE Ending("waiter")
    BY <1>1, <1>12, EndingIs
  <1> QED
    BY <1>6, <1>7, <1>8, <1>9, <1>10, <1>11, <1>12 DEF Waiter, Releases

\* windows_close_thread_main
LEMMA CloserIs ==
  ASSUME SafeInv, IInv, Closer
  PROVE  Stepped
  <1>1. "closer" \in Threads \ {"console", "owner"} /\ "closer" \notin Started /\ TypeInv
    BY DEF Threads, Workers, Started, IInv
  <1>2. /\ Way("closer", "stop", "close") /\ Way("closer", "close", "wait")
        /\ Way("closer", "close", "inline") /\ Way("closer", "inline", "wait")
        /\ Way("closer", "wait", "done") /\ Way("closer", "done", "maybe")
    BY <1>1 DEF Way, Labels
  <1>3. CASE StopStep("closer", "stop", "close")
    BY <1>1, <1>2, <1>3, StopIs
  <1>4. CASE Closes("closer", "close", "inline", "wait", "done")
    <2>1. pc["closer"] # "off"
      BY <1>4 DEF Closes, StartClose, FlagStep, ConsoleStep, Go
    <2>2. console # "none"
      BY <1>1, <2>1, WithPlatform DEF Before
    <2> QED
      BY <1>1, <1>2, <1>4, <2>2, ClosesIs
  <1>5. CASE FlagStep("closer", "done", {"closeDone"}, "maybe")
    <2>1. pc' = [pc EXCEPT !["closer"] = "maybe"] /\ flags' = flags \cup {"closeDone"}
      BY <1>5 DEF FlagStep, Go
    <2>2. pc'["waiter"] # "off" => pc["waiter"] # "off"
      BY <1>1, <2>1 DEF TypeInv, Threads, Workers
    <2>3. Raises("closer", "done", "maybe")
      BY <2>1, <2>2 DEF Raises
    <2> QED
      BY <1>1, <1>2, <1>5, <2>3, FlagIs
  <1>6. CASE Ending("closer")
    BY <1>1, <1>6, EndingIs
  <1> QED
    BY <1>3, <1>4, <1>5, <1>6 DEF Closer

\* pseudo_console_close_worker
LEMMA ConsoleWorkerIs ==
  ASSUME SafeInv, IInv, ConsoleWorker
  PROVE  Stepped
  <1>1. "console" \in Threads /\ "console" \notin Started /\ TypeInv
    BY DEF Threads, Workers, Started, IInv
  <1>2. Way("console", "close", "end")
    BY <1>1 DEF Way, Labels
  <1>3. console # "none"
    BY <1>1, WithPlatform DEF Before, ConsoleWorker, Go
  <1>4. Fair("console", "close", "end")
    BY <1>1, <1>3 DEF Fair, TypeInv, ConsoleWorker
  <1> QED
    BY <1>1, <1>2, <1>4, TurnIs DEF ConsoleWorker, dartVars

\* A read, a write or a wait that fails.
LEMMA CallsFailIs ==
  ASSUME SafeInv, IInv, CallsFail
  PROVE  Stepped
  <1>1. {"reader", "writer", "waiter"} \subseteq Threads /\ TypeInv
    BY DEF Threads, Workers, IInv
  <1>2. /\ "read" \in Faults => Way("reader", "read", "failed")
        /\ Way("writer", "write", "unwritten")
        /\ "wait" \in Faults => /\ Way("waiter", "top", "waitFailed")
                                /\ Way("waiter", "exit", "unreadable")
    BY DEF Way, Labels, Past, PastExit
  <1> QED
    BY <1>1, <1>2, FailsIs DEF CallsFail, Fails, MayFail

\* A bootstrap that walks, walks its way.
LEMMA BootWays ==
  ASSUME NEW l, NEW n \in Labels, BootWay(l, n), l \notin {"off", "end"},
         n \notin {"SESSION_CLOSED", "off", "end"}
  PROVE  Way("boot", l, n)
  BY DEF Way, Started

\* pty_windows_create_process
LEMMA BootCreatesIs ==
  ASSUME SafeInv, IInv, NEW i \in 1 .. Len(Stages), BootCreates(i)
  PROVE  Stepped
  <1> DEFINE l == Stages[i]
             n == StageAfter[i]
             s == IF l = "createProcess" THEN "suspended" ELSE program
             h == (boot.held \cup Acquires(l)) \ LetsGo(l)
  <1>1. l \in Early /\ n \in Early /\ "boot" \in Threads /\ TypeInv
    BY StageHolds DEF Threads, Workers, IInv
  <1>2. n \in Labels /\ "failed" \in Labels
    BY <1>1 DEF Labels, Stages, Early
  <1> HIDE DEF l, n
  <1>3. l \notin Past /\ l \notin {"off", "markClosed", "sessionClosed", "release", "mark", "answer"}
        /\ n \notin Past /\ n # "off"
    BY <1>1 DEF Early, Past
  <1>4. CASE ProgramStep(l, s, h, n)
    <2> HIDE DEF h
    <2>1. /\ Go("boot", l, n) /\ program' = s
          /\ UNCHANGED <<events, sessionVars, flags, console, closes, flowVars, dartVars>>
      BY <1>4 DEF ProgramStep
    <2>2. BootWay(l, n)
      <3>1. n \in BeforeWriter /\ l \in BeforeWriter /\ l \in Unanswered /\ l \in Launch \ Launched
        BY <1>1 DEF Early, BeforeWriter, BeforeReader, Unanswered, Launch, Launched, Undecided
      <3>2. n \notin Launched \cup Tearing \cup TornDown \cup UnstartedAt \cup NoPlatform
                     \cup AfterJoin \cup {"mark", "answer"}
        BY <1>1 DEF Early, Launched, Tearing, TornDown, UnstartedAt, Unstarted, NoPlatform, AfterJoin
      <3>3. n \in BootLabels
        BY <1>1 DEF Early, BootLabels, Unanswered, Launch, Undecided
      <3>4. lifecycle' = lifecycle
        BY <2>1 DEF sessionVars
      <3> QED
        BY <1>3, <3>1, <3>2, <3>3, <3>4 DEF BootWay
    <2>3. Way("boot", l, n)
      BY <1>2, <1>3, <2>2, BootWays DEF Past
    <2>4. Fair("boot", l, n)
      <3>1. l = "createProcess" => program = "none"
        BY <2>1 DEF Go, SafeInv, DeadOK, Unborn, Early
      <3> QED
        BY <1>1, <2>1, <3>1 DEF Fair, TypeInv, sessionVars
    <2> QED
      BY <1>1, <2>1, <2>3, <2>4, TurnIs DEF sessionVars, dartVars
  <1>5. CASE /\ Go("boot", l, "failed") /\ program' = Killed
             /\ UNCHANGED <<sessionVars, flags, console, closes, flowVars, dartVars>>
    <2>1. console = "none"
      BY <1>1, <1>5 DEF Go, IInv, ConsoleOK, PlaceOK
    <2>2. BootWay(l, "failed")
      <3>1. "failed" \in BootLabels /\ l \in Unanswered /\ l \in Launch \ Launched
        BY <1>1 DEF Early, BootLabels, Unanswered, Launch, Launched, Undecided
      <3>2. "failed" \notin Launched \cup BeforeWriter \cup {"waiter"} \cup Tearing \cup TornDown
                             \cup UnstartedAt \cup AfterJoin \cup Past \cup {"mark", "answer"}
        BY DEF Early, BeforeWriter, BeforeReader, Launched, Tearing, TornDown, UnstartedAt,
           Unstarted, AfterJoin, Past
      <3>3. lifecycle' = lifecycle
        BY <1>5 DEF sessionVars
      <3> QED
        BY <1>3, <2>1, <3>1, <3>2, <3>3 DEF BootWay
    <2>3. Way("boot", l, "failed")
      BY <1>2, <1>3, <2>2, BootWays DEF Past
    <2>4. Fair("boot", l, "failed")
      BY <1>1, <1>5 DEF Fair, TypeInv, sessionVars, Killed
    <2> QED
      BY <1>1, <1>5, <2>3, <2>4, TurnIs DEF sessionVars, dartVars
  <1> QED
    BY <1>4, <1>5 DEF BootCreates, l, n

\* No process, or no platform, and every startup that had no threads.
LEMMA BootFailsIs ==
  ASSUME SafeInv, IInv, BootFails \/ BootMarksClosed
  PROVE  Stepped
  <1>1. "boot" \in Threads /\ TypeInv /\ "boot" \notin Started
    BY DEF Threads, Workers, IInv, Started
  <1>2. /\ Way("boot", "failed", "failedOutput") /\ Way("boot", "failedOutput", "markClosed")
        /\ Way("boot", "markClosed", "sessionClosed") /\ Way("boot", "sessionClosed", "release")
    BY DEF Way, BootWay, Labels, BootLabels, Past, Early, BeforeWriter, BeforeReader, Launched, Launch,
       Undecided, Unanswered, Tearing, TornDown, UnstartedAt, Unstarted, NoPlatform, AfterJoin, Started
  <1>3. /\ Posting("boot", "failed") /\ Posting("boot", "failedOutput") /\ Posting("boot", "sessionClosed")
    BY DEF Posting, Gone, Past
  <1>4. /\ TellsAt("boot", "failed", "failedOutput", "SPAWN_FAILED")
        /\ TellsAt("boot", "failedOutput", "markClosed", "OUTPUT_CLOSED")
        /\ TellsAt("boot", "sessionClosed", "release", "SESSION_CLOSED")
    BY DEF TellsAt, Unanswered, Launch, Launched, Undecided, Early, Tearing
  <1>5. CASE Fails("memory", "boot", "platform", "kill")
    <2>1. lifecycle' = lifecycle
      BY <1>5 DEF Fails, sessionVars
    <2>2. Way("boot", "platform", "kill")
      BY <2>1 DEF Way, BootWay, Labels, BootLabels, Past, Early, BeforeWriter, BeforeReader,
         Launched, Launch, Undecided, Unanswered, Tearing, TornDown, UnstartedAt, Unstarted,
         NoPlatform, AfterJoin, Started
    <2> QED
      BY <1>1, <1>5, <2>2, FailsIs
  <1>6. CASE ProgramStep("kill", "dead", boot.held \ (PlatformHandles \cup {"thread"}), "failed")
    <2>1. /\ Go("boot", "kill", "failed") /\ program' = "dead"
          /\ UNCHANGED <<events, sessionVars, flags, console, closes, flowVars, dartVars>>
      BY <1>6 DEF ProgramStep
    <2>2. console = "none" /\ program # "none" /\ lifecycle' = lifecycle
      BY <2>1 DEF Go, SafeInv, DeadOK, sessionVars
    <2>3. Way("boot", "kill", "failed")
      BY <2>2 DEF Way, BootWay, Labels, BootLabels, Past, Early, BeforeWriter, BeforeReader,
         Launched, Launch, Undecided, Unanswered, Tearing, TornDown, UnstartedAt, Unstarted,
         NoPlatform, AfterJoin, Started
    <2>4. Fair("boot", "kill", "failed")
      BY <1>1, <2>1, <2>2 DEF Fair, TypeInv, sessionVars
    <2> QED
      BY <1>1, <2>1, <2>3, <2>4, TurnIs DEF sessionVars, dartVars
  <1>7. CASE \/ PostStep("boot", "failed", "SPAWN_FAILED", "failedOutput")
             \/ PostStep("boot", "failedOutput", "OUTPUT_CLOSED", "markClosed")
             \/ PostStep("boot", "sessionClosed", "SESSION_CLOSED", "release")
    BY <1>1, <1>2, <1>3, <1>4, <1>7, PostIs DEF PostStep
  <1>8. CASE LifeStep("boot", "markClosed", "CLOSED", "sessionClosed")
    BY <1>1, <1>2, <1>8, LifeIs
  <1> QED
    BY <1>5, <1>6, <1>7, <1>8 DEF BootFails, BootMarksClosed

\* finish_unstarted_close
LEMMA BootFinishesUnstartedIs ==
  ASSUME DoneOK, SafeInv, IInv, BootFinishesUnstarted
  PROVE  Stepped
  <1>1. "boot" \in Threads \ {"console"} /\ TypeInv /\ {"reader", "writer", "waiter"} = Started
        /\ Started \subseteq Threads
    BY DEF Threads, Workers, IInv, Started
  <1>2. /\ Way("boot", "unstarted", "unstartedClose") /\ Way("boot", "unstartedClose", "unstartedWait")
        /\ Way("boot", "unstartedClose", "unstartedInline")
        /\ Way("boot", "unstartedInline", "unstartedWait")
        /\ Way("boot", "unstartedWait", "unstartedFlags")
        /\ Way("boot", "unstartedFlags", "unstartedAnswer")
        /\ Way("boot", "unstartedAnswer", "unstartedOutput")
        /\ Way("boot", "unstartedOutput", "unstartedInput")
        /\ Way("boot", "unstartedInput", "markClosed")
    BY DEF Way, BootWay, Labels, BootLabels, Past, Early, BeforeWriter, BeforeReader, Launched, Launch,
       Undecided, Unanswered, Tearing, TornDown, UnstartedAt, Unstarted, NoPlatform, AfterJoin, Started
  <1>3. /\ Posting("boot", "unstartedAnswer") /\ Posting("boot", "unstartedOutput")
        /\ Posting("boot", "unstartedInput")
    BY DEF Posting, Gone, Past
  <1>4. TellsAt("boot", "unstartedAnswer", "unstartedOutput", "SPAWN_FAILED")
    BY DEF TellsAt, Unanswered, Launch, Launched, Undecided, Early, Tearing
  <1>5. CASE BootStops("unstarted", "unstartedClose")
    BY <1>1, <1>2, <1>5, StopIs
  <1>6. CASE Closes("boot", "unstartedClose", "unstartedInline", "unstartedWait", "unstartedFlags")
    <2>1. pc["boot"] \in {"unstartedClose", "unstartedInline", "unstartedWait"}
      BY <1>6 DEF Closes, StartClose, FlagStep, ConsoleStep, Go
    <2>2. console # "none"
      BY <1>1, <2>1, WithPlatform DEF Before, Early
    <2> QED
      BY <1>1, <1>2, <1>6, <2>2, ClosesIs
  <1>7. CASE FlagStep("boot", "unstartedFlags", AllParts \cup {"closedPosted"}, "unstartedAnswer")
    <2>1. /\ pc["boot"] = "unstartedFlags" /\ pc' = [pc EXCEPT !["boot"] = "unstartedAnswer"]
          /\ flags' = flags \cup AllParts \cup {"closedPosted"}
      BY <1>7 DEF FlagStep, Go
    <2>2. "unstartedFlags" \in UnstartedAt /\ "unstartedAnswer" \in UnstartedAt
          /\ "unstartedAnswer" \notin BeforeWriter \cup {"waiter"}
      BY DEF UnstartedAt, BeforeWriter, BeforeReader, Early
    <2>3. \A u \in Started : pc[u] = "off"
      BY <2>1, <2>2 DEF DoneOK
    <2>4. pc'["boot"] = "unstartedAnswer" /\ \A u \in Started : pc'[u] = "off"
      BY <1>1, <2>1, <2>3 DEF TypeInv
    <2>5. {"closeStarted", "waiterStarted", "outputClosed"} \cap AllParts = {}
      BY DEF AllParts
    <2>6. Raises("boot", "unstartedFlags", "unstartedAnswer")
      BY <1>1, <2>1, <2>2, <2>4, <2>5 DEF Raises, Gone
    <2> QED
      BY <1>1, <1>2, <1>7, <2>6, FlagIs
  <1>8. CASE PostStep("boot", "unstartedAnswer", "SPAWN_FAILED", "unstartedOutput")
    BY <1>1, <1>2, <1>3, <1>4, <1>8, PostIs DEF PostStep
  <1>9. CASE OutputClosed("boot", "unstartedOutput", "unstartedInput")
    <2>1. pc["boot"] = "unstartedOutput" => console # "none"
      BY <1>1, WithPlatform DEF Before, Early
    <2> QED
      BY <1>1, <1>2, <1>3, <1>9, <2>1, OutputClosedIs
  <1>10. CASE InputClosed("boot", "unstartedInput", "markClosed")
    BY <1>1, <1>2, <1>3, <1>10, InputClosedIs
  <1> QED
    BY <1>5, <1>6, <1>7, <1>8, <1>9, <1>10 DEF BootFinishesUnstarted

\* A thread is created.
LEMMA StartThreadIs ==
  ASSUME SafeInv, IInv, NEW w \in Started, NEW f, NEW n, StartThread(w, w, f, n),
         Way("boot", w, n), f \in StartedFlags, w = "waiter" <=> f = "waiterStarted"
  PROVE  Stepped
  <1>1. /\ "boot" \in Threads /\ w \in Threads /\ w # "boot" /\ "waiter" \in Threads
        /\ {n, "top"} \subseteq Labels /\ TypeInv
    BY DEF Threads, Workers, IInv, Started, Labels, Way
  <1>2. /\ pc["boot"] = w /\ flags' = flags \cup {f} /\ refCount' = refCount + 1
        /\ UNCHANGED <<lifecycle, abandoned, console, program, posted, dart>>
    BY DEF StartThread, hostVars, dartVars
  <1>3. /\ pc' \in [Threads -> Labels] /\ pc'[w] = "top" /\ pc'["boot"] = n
        /\ \A u \in Threads \ {w, "boot"} : pc'[u] = pc[u]
    BY <1>1 DEF StartThread, TypeInv
  <1>4. w \in NotYet(w)
    BY DEF NotYet, BeforeWriter, BeforeReader, Started
  <1>5. pc[w] = "off"
    BY <1>1, <1>2, <1>4 DEF SafeInv, StartOK
  <1>6. Walks("boot", w, n)
    BY <1>1, <1>2, <1>3, <1>5 DEF Walks
  <1>7. Raises("boot", w, n)
    BY <1>1, <1>2, <1>3 DEF Raises, StartedFlags
  <1>8. Fair("boot", w, n)
    BY <1>1, <1>2 DEF Fair, TypeInv
  <1>9. Hushes("boot", w)
    BY <1>2 DEF Hushes, Started
  <1> QED
    BY <1>1, <1>6, <1>7, <1>8, <1>9, Steps DEF Step

\* The platform is stored, and the threads are created.
LEMMA BootStartsIs ==
  ASSUME SafeInv, IInv, BootStarts
  PROVE  Stepped
  <1>1. "boot" \in Threads /\ TypeInv
    BY DEF Threads, Workers, IInv
  <1>2. lifecycle' = lifecycle =>
          /\ Way("boot", "platform", "check") /\ Way("boot", "check", "reader")
          /\ lifecycle = "CLOSING" => Way("boot", "check", "unstarted")
          /\ Way("boot", "reader", "writer") /\ Way("boot", "writer", "waiter")
          /\ Way("boot", "waiter", "started")
    BY DEF Way, BootWay, Labels, BootLabels, Past, Early, BeforeWriter, BeforeReader, Launched, Launch,
       Undecided, Unanswered, Tearing, TornDown, UnstartedAt, Unstarted, NoPlatform, AfterJoin, Started
  <1>3. CASE Go("boot", "platform", "check") /\ console' = "OWNED"
             /\ boot' = [boot EXCEPT !.held = @ \ PlatformHandles]
             /\ UNCHANGED <<events, sessionVars, flags, closes, program, flowVars, dartVars>>
    <2>1. Fair("boot", "platform", "check")
      BY <1>1, <1>3 DEF Fair, TypeInv, sessionVars
    <2> QED
      BY <1>1, <1>2, <1>3, <2>1, TurnIs DEF sessionVars, dartVars
  <1>4. CASE FlagStep("boot", "check", {}, IF lifecycle = "CLOSING" THEN "unstarted" ELSE "reader")
    <2>1. lifecycle' = lifecycle
      BY <1>4 DEF FlagStep, sessionVars
    <2> QED
      BY <1>1, <1>2, <1>4, <2>1, LookIs
  <1>5. CASE \/ StartThread("reader", "reader", "readerStarted", "writer")
             \/ StartThread("writer", "writer", "writerStarted", "waiter")
             \/ StartThread("waiter", "waiter", "waiterStarted", "started")
    <2>1. lifecycle' = lifecycle
      BY <1>5 DEF StartThread
    <2> QED
      BY <1>2, <1>5, <2>1, StartThreadIs DEF Started, StartedFlags
  <1>6. CASE \/ Fails("reader", "boot", "reader", "writer")
             \/ Fails("writer", "boot", "writer", "waiter")
             \/ Fails("waiter", "boot", "waiter", "started")
    <2>1. lifecycle' = lifecycle
      BY <1>6 DEF Fails, sessionVars
    <2> QED
      BY <1>1, <1>2, <1>6, <2>1, FailsIs
  <1> QED
    BY <1>3, <1>4, <1>5, <1>6 DEF BootStarts

\* The program may run.
LEMMA BootRunsIs ==
  ASSUME SafeInv, IInv, BootRuns
  PROVE  Stepped
  <1>1. "boot" \in Threads /\ TypeInv
    BY DEF Threads, Workers, IInv
  <1>2. /\ lifecycle' = "RUNNING" /\ "waiterStarted" \in flags => Way("boot", "started", "resume")
        /\ lifecycle' = lifecycle => Way("boot", "resume", "spawned")
        /\ Way("boot", "spawned", "release")
    BY DEF Way, BootWay, Labels, BootLabels, Past, Early, BeforeWriter, BeforeReader, Launched, Launch,
       Undecided, Unanswered, Tearing, TornDown, UnstartedAt, Unstarted, NoPlatform, AfterJoin, Started
  <1>3. CASE StartedFlags \subseteq flags /\ LifeStep("boot", "started", "RUNNING", "resume")
    BY <1>1, <1>2, <1>3, LifeIs DEF LifeStep, StartedFlags
  <1>4. CASE ProgramStep("resume", IF program = "suspended" THEN "running" ELSE program,
                         boot.held \ {"thread"}, "spawned")
    <2>1. /\ Go("boot", "resume", "spawned")
          /\ program' = IF program = "suspended" THEN "running" ELSE program
          /\ UNCHANGED <<events, sessionVars, flags, console, closes, flowVars, dartVars>>
      BY <1>4 DEF ProgramStep
    <2>2. Fair("boot", "resume", "spawned")
      BY <1>1, <2>1 DEF Fair, TypeInv, sessionVars
    <2> QED
      BY <1>1, <1>2, <2>1, <2>2, TurnIs DEF sessionVars, dartVars
  <1>5. CASE PostStep("boot", "spawned", "SPAWNED", "release")
    <2>1. Posting("boot", "spawned") /\ TellsAt("boot", "spawned", "release", "SPAWNED")
      BY DEF Posting, Gone, Past, TellsAt
    <2> QED
      BY <1>1, <1>2, <1>5, <2>1, PostIs DEF PostStep
  <1> QED
    BY <1>3, <1>4, <1>5 DEF BootRuns

\* The bootstrap reserves the close.
LEMMA BootGivesUpIs ==
  ASSUME SafeInv, IInv, BootGivesUp
  PROVE  Stepped
  <1>1. "boot" \in Threads /\ TypeInv /\ "waiter" \in Threads
    BY DEF Threads, Workers, IInv
  <1>2. ASSUME NEW l \in {"started", "unresumed"}, NEW c, GivesUp(l, c) PROVE Stepped
    <2>1. /\ Go("boot", l, "stop") /\ flags' = flags \cup {"closeStarted"}
          /\ UNCHANGED <<sessionVars, hostVars, dartVars>>
      BY <1>2 DEF GivesUp
    <2>2. Way("boot", l, "stop")
      BY <2>1 DEF Way, BootWay, Labels, BootLabels, Past, Early, BeforeWriter, BeforeReader, Launched,
         Launch, Undecided, Unanswered, Tearing, TornDown, UnstartedAt, Unstarted, NoPlatform,
         AfterJoin, Started
    <2>3. Walks("boot", l, "stop") /\ (pc["waiter"] = "off" => pc'["waiter"] = "off")
      BY <1>1, <2>1, <2>2, GoWalks
    <2>4. Raises("boot", l, "stop")
      BY <2>1, <2>3 DEF Raises
    <2>5. Fair("boot", l, "stop")
      BY <1>1, <2>1 DEF Fair, TypeInv, sessionVars, hostVars
    <2>6. Hushes("boot", l)
      BY <2>1 DEF Hushes, sessionVars, dartVars
    <2> QED
      BY <1>1, <2>2, <2>3, <2>4, <2>5, <2>6, Steps DEF Step
  <1>3. CASE Fails("resume", "boot", "resume", "unresumed")
    <2>1. lifecycle' = lifecycle
      BY <1>3 DEF Fails, sessionVars
    <2>2. Way("boot", "resume", "unresumed")
      BY <2>1 DEF Way, BootWay, Labels, BootLabels, Past, Early, BeforeWriter, BeforeReader, Launched,
         Launch, Undecided, Unanswered, Tearing, TornDown, UnstartedAt, Unstarted, NoPlatform,
         AfterJoin, Started
    <2> QED
      BY <1>1, <1>3, <2>2, FailsIs
  <1> QED
    BY <1>2, <1>3 DEF BootGivesUp

\* finish_worker_startup_failure, the cancelled startup, and their answer.
LEMMA BootTearsDownIs ==
  ASSUME DoneOK, SafeInv, IInv, BootTearsDown \/ BootAnswers
  PROVE  Stepped
  <1>1. "boot" \in Threads \ {"console"} /\ TypeInv /\ {"reader", "writer", "waiter"} \subseteq Threads
    BY DEF Threads, Workers, IInv
  <1>2. /\ Way("boot", "stop", "join") /\ Way("boot", "close", "wait") /\ Way("boot", "close", "inline")
        /\ Way("boot", "inline", "wait") /\ Way("boot", "wait", "account")
        /\ Way("boot", "mark", "answer") /\ Way("boot", "answer", "maybe")
        /\ Way("boot", "answer", "outputClosed") /\ Way("boot", "outputClosed", "inputClosed")
        /\ Way("boot", "inputClosed", "maybe")
        /\ AllJoined => Way("boot", "join", "close")
        /\ program = "dead" => Way("boot", "account", "mark") /\ Way("boot", "account", "answer")
    BY DEF Way, BootWay, Labels, BootLabels, Past, Early, BeforeWriter, BeforeReader, Launched, Launch,
       Undecided, Unanswered, Tearing, TornDown, UnstartedAt, Unstarted, NoPlatform, AfterJoin, Started
  <1>3. Posting("boot", "answer") /\ Posting("boot", "outputClosed") /\ Posting("boot", "inputClosed")
    BY DEF Posting, Gone, Past
  <1>4. /\ TellsAt("boot", "answer", "maybe", "SPAWN_FAILED")
        /\ TellsAt("boot", "answer", "outputClosed", "SPAWN_FAILED")
    BY DEF TellsAt, Unanswered, Launch, Launched, Undecided, Early, Tearing
  <1>5. CASE BootStops("stop", "join")
    BY <1>1, <1>2, <1>5, StopIs
  <1>6. CASE AllJoined /\ FlagStep("boot", "join", {}, "close")
    BY <1>1, <1>2, <1>6, LookIs
  <1>7. CASE Closes("boot", "close", "inline", "wait", "account")
    <2>1. pc["boot"] \in {"close", "inline", "wait"}
      BY <1>7 DEF Closes, StartClose, FlagStep, ConsoleStep, Go
    <2>2. console # "none"
      BY <1>1, <2>1, WithPlatform DEF Before, Early
    <2> QED
      BY <1>1, <1>2, <1>7, <2>2, ClosesIs
  <1>8. CASE FlagStep("boot", "account",
                      NeverRan \cup (IF boot.reserved THEN {"closeDone"} ELSE {}),
                      IF boot.cancelled THEN "answer" ELSE "mark")
    <2> DEFINE set == NeverRan \cup (IF boot.reserved THEN {"closeDone"} ELSE {})
               n == IF boot.cancelled THEN "answer" ELSE "mark"
    <2>1. FlagStep("boot", "account", set, n) /\ n \in {"answer", "mark"}
      BY <1>8
    <2>2. /\ "readerDone" \in set => "readerStarted" \notin flags
          /\ "writerDone" \in set => "writerStarted" \notin flags
          /\ "waiterDone" \in set => "waiterStarted" \notin flags
          /\ {"closeStarted", "closedPosted", "waiterStarted", "outputClosed"} \cap set = {}
      BY DEF NeverRan
    <2> HIDE DEF set, n
    <2>3. /\ pc["boot"] = "account" /\ pc' = [pc EXCEPT !["boot"] = n] /\ flags' = flags \cup set
      BY <2>1 DEF FlagStep, Go
    <2>4. program = "dead"
      BY <1>1, <2>3 DEF SafeInv, DeadOK, DeadAt
    <2>5. Way("boot", "account", n)
      BY <1>2, <2>1, <2>4
    <2>6. /\ pc'["reader"] = pc["reader"] /\ pc'["writer"] = pc["writer"]
          /\ pc'["waiter"] = pc["waiter"] /\ pc'["boot"] = n
      BY <1>1, <2>3 DEF TypeInv
    <2>7. /\ "readerDone" \in set => pc["reader"] = "off"
          /\ "writerDone" \in set => pc["writer"] = "off"
          /\ "waiterDone" \in set => pc["waiter"] = "off"
      BY <2>2 DEF SafeInv, StartOK, DoneOK
    <2>8. n \notin BeforeWriter \cup {"waiter"}
      BY <2>1 DEF BeforeWriter, BeforeReader, Early
    <2>9. Raises("boot", "account", n)
      BY <2>1, <2>2, <2>3, <2>6, <2>7, <2>8 DEF Raises, Gone
    <2> QED
      BY <1>1, <2>1, <2>5, <2>9, FlagIs
  <1>9. CASE LifeStep("boot", "mark", "CLOSING", "answer")
    BY <1>1, <1>2, <1>9, LifeIs
  <1>10. CASE OutputClosed("boot", "outputClosed", "inputClosed")
    <2>1. pc["boot"] = "outputClosed" => console # "none"
      BY <1>1, WithPlatform DEF Before, Early
    <2> QED
      BY <1>1, <1>2, <1>3, <1>10, <2>1, OutputClosedIs
  <1>11. CASE InputClosed("boot", "inputClosed", "maybe")
    BY <1>1, <1>2, <1>3, <1>11, InputClosedIs
  <1>12. CASE BootAnswers
    BY <1>1, <1>2, <1>3, <1>4, <1>12, PostIs DEF BootAnswers, PostStep
  <1> QED
    BY <1>5, <1>6, <1>7, <1>8, <1>9, <1>10, <1>11, <1>12 DEF BootTearsDown

\* windows_bootstrap
LEMMA BootIs ==
  ASSUME DoneOK, SafeInv, IInv, Boot
  PROVE  Stepped
  <1>1. CASE Ending("boot")
    BY <1>1, EndingIs DEF Threads, Workers, IInv
  <1>2. CASE \E i \in 1 .. Len(Stages) : BootCreates(i)
    BY <1>2, BootCreatesIs
  <1> QED
    BY <1>1, <1>2, BootFailsIs, BootFinishesUnstartedIs, BootStartsIs, BootRunsIs, BootGivesUpIs,
       BootTearsDownIs DEF Boot

\* pty_session_begin_close
LEMMA BeginCloseIs ==
  ASSUME SafeInv, IInv, BeginClose
  PROVE  Stepped
  <1>1. {"owner", "closer", "waiter"} \subseteq Threads /\ "owner" \in Threads /\ TypeInv
        /\ "owner" \notin Workers \cup Started
    BY DEF Threads, Workers, IInv, Started
  <1>2. /\ Way("owner", "lifecycle", "idle") /\ Way("owner", "lifecycle", "claim")
        /\ Way("owner", "claim", "idle") /\ Way("owner", "create", "unretain")
        /\ "closeStarted" \notin flags => Way("owner", "claim", "create")
        /\ Way("owner", "unretain", "idle")
    BY <1>1 DEF Way, Labels
  <1>3. CASE LifeStep("owner", "lifecycle", ClosingFrom(lifecycle),
                      IF lifecycle \in {"STARTING", "CLOSED"} THEN "idle" ELSE "claim")
    BY <1>1, <1>2, <1>3, LifeIs
  <1>4. CASE FlagStep("owner", "claim", {}, "idle")
    BY <1>1, <1>2, <1>4, LookIs
  <1>5. CASE Claimable /\ FlagStep("owner", "claim", {"closeStarted"}, "create")
    <2>1. "closeStarted" \notin flags
      BY <1>5 DEF Claimable
    <2>2. pc' = [pc EXCEPT !["owner"] = "create"] /\ flags' = flags \cup {"closeStarted"}
      BY <1>5 DEF FlagStep, Go
    <2>3. pc'["waiter"] # "off" => pc["waiter"] # "off"
      BY <1>1, <2>2 DEF TypeInv
    <2>4. Raises("owner", "claim", "create")
      BY <2>2, <2>3 DEF Raises
    <2> QED
      BY <1>1, <1>2, <1>5, <2>1, <2>4, FlagIs
  <1>6. CASE /\ pc["owner"] = "create"
             /\ pc' = [pc EXCEPT !["owner"] = "unretain", !["closer"] = "stop"]
             /\ refCount' = refCount + 2
             /\ UNCHANGED <<bootVars, lifecycle, abandoned, handed, flags, hostVars, flowVars,
                            dartVars>>
    <2>1. /\ pc' \in [Threads -> Labels] /\ pc'["closer"] = "stop" /\ pc'["owner"] = "unretain"
          /\ \A u \in Threads \ {"closer", "owner"} : pc'[u] = pc[u]
      BY <1>1, <1>6 DEF TypeInv, Labels
    <2>2. Walks("owner", "create", "unretain")
      BY <1>1, <1>6, <2>1 DEF Walks
    <2>3. pc["waiter"] = "off" => pc'["waiter"] = "off"
      BY <1>1, <2>1
    <2>4. Raises("owner", "create", "unretain")
      BY <1>6, <2>3, RaisesFew
    <2>5. Fair("owner", "create", "unretain")
      BY <1>1, <1>6 DEF Fair, TypeInv, hostVars
    <2>6. Hushes("owner", "create")
      BY <1>6 DEF Hushes, dartVars, hostVars
    <2> QED
      BY <1>1, <1>2, <2>2, <2>4, <2>5, <2>6, Steps DEF Step
  <1>7. CASE /\ Go("owner", "unretain", "idle") /\ Drop
             /\ UNCHANGED <<bootVars, lifecycle, abandoned, handed, flags, program, flowVars,
                            dartVars>>
    BY <1>1, <1>2, <1>7, DropIs
  <1> QED
    BY <1>3, <1>4, <1>5, <1>6, <1>7 DEF BeginClose

\* ... without a worker, and pty_session_abandon, from the finalizer.
LEMMA ClosesInlineIs ==
  ASSUME SafeInv, IInv, ClosesInline \/ Finalizes
  PROVE  Stepped
  <1>1. "owner" \in Threads \ {"console"} /\ "owner" \notin Workers \cup Started /\ TypeInv
        /\ "waiter" \in Threads
    BY DEF Threads, Workers, Started, IInv
  <1>2. /\ Way("owner", "create", "uncreated") /\ Way("owner", "uncreated", "stop")
        /\ Way("owner", "stop", "close") /\ Way("owner", "close", "wait")
        /\ Way("owner", "close", "inline") /\ Way("owner", "inline", "wait")
        /\ Way("owner", "wait", "maybe") /\ Way("owner", "maybe", "idle")
        /\ Way("owner", "finalizer", "end")
    BY <1>1 DEF Way, Labels
  <1>3. CASE Fails("closer", "owner", "create", "uncreated")
    BY <1>1, <1>2, <1>3, FailsIs
  <1>4. CASE FlagStep("owner", "uncreated", {"stopping", "closeDone"}, "stop")
    <2>1. pc' = [pc EXCEPT !["owner"] = "stop"] /\ flags' = flags \cup {"stopping", "closeDone"}
      BY <1>4 DEF FlagStep, Go
    <2>2. pc'["waiter"] # "off" => pc["waiter"] # "off"
      BY <1>1, <2>1 DEF TypeInv
    <2>3. Raises("owner", "uncreated", "stop")
      BY <2>1, <2>2 DEF Raises
    <2> QED
      BY <1>1, <1>2, <1>4, <2>3, FlagIs
  <1>5. CASE StopStep("owner", "stop", "close")
    BY <1>1, <1>2, <1>5, StopIs
  <1>6. CASE Closes("owner", "close", "inline", "wait", "maybe")
    <2>1. pc["owner"] \in {"close", "inline", "wait"}
      BY <1>6 DEF Closes, StartClose, FlagStep, ConsoleStep, Go
    <2>2. console # "none"
      BY <1>1, <2>1, WithPlatform DEF Before
    <2> QED
      BY <1>1, <1>2, <1>6, <2>2, ClosesIs
  <1>7. CASE ClaimClosed("owner", "maybe", "idle")
    BY <1>1, <1>7, ClaimIs
  <1>8. CASE FlagStep("owner", "maybe", {}, "idle") \/ FlagStep("owner", "finalizer", {}, "end")
    BY <1>1, <1>2, <1>8, LookIs
  <1>9. CASE pc["owner"] = "finalizer" /\ Abandons /\ Abandon("owner", {}, "end")
    <2>1. Posting("owner", "finalizer")
      BY DEF Posting
    <2> QED
      BY <1>1, <1>2, <1>9, <2>1, AbandonIs
  <1> QED
    BY <1>3, <1>4, <1>5, <1>6, <1>7, <1>8, <1>9 DEF ClosesInline, Finalizes

\* What the session does of itself, but for what Dart asks of it.
LEMMA ThreadsStep ==
  ASSUME DoneOK, SafeInv, IInv,
         \/ Boot \/ Reader \/ Writer \/ Waiter \/ Closer \/ ConsoleWorker \/ ReaderReads
         \/ WriterWrites \/ CallsFail \/ BeginClose \/ ClosesInline \/ Finalizes
  PROVE  Stepped
  BY BootIs, ReaderIs, WriterIs, WaiterIs, CloserIs, ConsoleWorkerIs, CallsFailIs, BeginCloseIs,
     ClosesInlineIs

-----------------------------------------------------------------------------
(* The isolate, its user and the program                                   *)

\* A step beside the session's threads: the isolate may turn to a close, once the
\* bootstrap has answered, and let go of a session that is closed.
LEMMA BesideKeeps ==
  ASSUME TellInv, TypeInv, NEW n \in {pc["owner"], "lifecycle"}, pc' = [pc EXCEPT !["owner"] = n],
         n = pc["owner"] \/ (pc["owner"] = "idle" /\ dart.finalizer = "attached"),
         UNCHANGED <<lifecycle, abandoned, posted>>,
         console' = console \/ (console # "none" /\ console' # "none"),
         program = "dead" => program' = "dead",
         \A f \in Special \cup {"waiterStarted", "outputClosed", "inputClosed"} :
           f \in flags' <=> f \in flags,
         \/ dart'.finalizer = dart.finalizer
         \/ dart.finalizer = "attached" /\ dart'.finalizer = "detached" /\ n = "idle",
         dart'.finalizer # "attached" => ~dart'.portOpen,
         ~dart'.portOpen => ~dart.portOpen \/ posted["SESSION_CLOSED"] > 0,
         \/ n = pc["owner"] /\ dart'.fatal = dart.fatal /\ dart'.closing = dart.closing
         \/ Calm => pc["boot"] \notin Unanswered
  PROVE  TellInv'
  <1>1. {"owner", "boot", "closer", "waiter", "reader", "writer"} \subseteq Threads
        /\ Started = {"reader", "writer", "waiter"} /\ n \in Labels /\ (n # "SESSION_CLOSED" \/ n = pc["owner"])
    BY DEF Threads, Workers, Started, TypeInv, Labels
  <1>2. /\ pc'["owner"] = n /\ \A u \in Threads \ {"owner"} : pc'[u] = pc[u]
    BY <1>1 DEF TypeInv
  <1>3. \A f \in {"readerDone", "writerDone", "waiterDone", "closeStarted", "closeDone", "closedPosted",
                  "waiterStarted", "outputClosed", "inputClosed"} : f \in flags' <=> f \in flags
    BY DEF Special
  <1>4. \A u \in Threads : pc'[u] = "SESSION_CLOSED" => pc[u] = "SESSION_CLOSED"
    BY <1>2
  <1>5. DoneOK'
    <2>1. /\ pc'["boot"] \in BootLabels
          /\ "waiterStarted" \in flags' <=> pc'["waiter"] # "off"
          /\ console' = "none" => "outputClosed" \notin flags'
          /\ "readerDone" \in flags' => pc'["reader"] \in Gone
          /\ "writerDone" \in flags' => pc'["writer"] \in Gone
          /\ "waiterDone" \in flags' =>
               pc'["waiter"] \in Gone /\ pc'["boot"] \notin BeforeWriter \cup {"waiter"}
          /\ pc'["boot"] \in {"mark", "answer"} \cup TornDown => program' = "dead"
      BY <1>1, <1>2, <1>3 DEF TellInv, DoneOK
    <2>2. /\ pc'["boot"] \in AfterJoin => \A u \in Started : pc'[u] \in {"off", "end"}
          /\ pc'["boot"] \in UnstartedAt => \A u \in Started : pc'[u] = "off"
      BY <1>1, <1>2 DEF TellInv, DoneOK
    <2>3. /\ pc'["owner"] \in {"finalizer", "end"} <=> dart'.finalizer = "ran"
          /\ dart'.finalizer = "detached" => pc'["owner"] = "idle"
      BY <1>2 DEF TellInv, DoneOK
    <2>4. /\ \A u \in Threads : pc'[u] = "SESSION_CLOSED" => "closedPosted" \in flags'
          /\ \A u, v \in Threads : pc'[u] = "SESSION_CLOSED" /\ pc'[v] = "SESSION_CLOSED" => u = v
      BY <1>3, <1>4 DEF TellInv, DoneOK
    <2> QED
      BY <2>1, <2>2, <2>3, <2>4 DEF DoneOK
  <1>6. ASSUME Calm' PROVE StartsOK' /\ PostsOK'
    <2>1. Calm /\ StartsOK /\ PostsOK
      BY <1>6 DEF Calm, TellInv
    <2>2. StartsOK'
      BY <1>1, <1>2, <1>3, <2>1 DEF StartsOK
    <2>3. Quiet => Quiet'
      BY <1>1, <1>2 DEF Quiet
    <2>4. PostsOK'
      BY <1>1, <1>2, <1>3, <1>4, <2>1, <2>3 DEF PostsOK
    <2> QED
      BY <2>2, <2>4
  <1> QED
    BY <1>5, <1>6 DEF TellInv

\* What else Dart does.
LEMMA DartTells ==
  ASSUME TellInv, SafeInv, DartTyped, IInv,
         \/ DartFails \/ DriverCloses \/ DartClosed \/ CloseFinishes \/ User \/ ProgramExits
         \/ UNCHANGED vars
  PROVE  TellInv'
  <1>1. /\ TypeInv /\ "owner" \in Threads
        /\ Alive => pc["owner"] = "idle" /\ dart.finalizer = "attached"
    BY DEF IInv, Threads, Alive
  <1>2. pc = [pc EXCEPT !["owner"] = pc["owner"]]
    BY <1>1 DEF TypeInv
  <1>3. Calm /\ (posted["SPAWN_FAILED"] > 0 \/ posted["SPAWNED"] > 0 \/ dart.fatal) =>
          pc["boot"] \notin Unanswered
    BY DEF TellInv, StartsOK
  <1>4. CASE DartFails \/ DriverCloses \/ UserCloses
    <2>1. PICK d : /\ DartCalls("lifecycle", d) /\ Alive
                   /\ d.finalizer = dart.finalizer /\ d.portOpen = dart.portOpen
                   /\ Calm => pc["boot"] \notin Unanswered
      <3>1. CASE DartFails
        <4> DEFINE d == [dart EXCEPT !.fatal = TRUE]
        <4>1. DartCalls("lifecycle", d) /\ posted["SPAWN_FAILED"] + posted["ASYNC_ERROR"] > 0
          BY <3>1 DEF DartFails
        <4>2. d.finalizer = dart.finalizer /\ d.portOpen = dart.portOpen
          BY DEF DartTyped
        <4>3. Calm => posted["SPAWN_FAILED"] > 0
          BY <4>1 DEF Calm, TypeInv, IInv, Events
        <4> QED
          BY <1>3, <3>1, <4>1, <4>2, <4>3 DEF DartFails
      <3>2. CASE DriverCloses \/ UserCloses
        <4> DEFINE d == [dart EXCEPT !.closing = TRUE]
        <4>1. DartCalls("lifecycle", d) /\ (posted["SPAWNED"] > 0 \/ dart.fatal) /\ Alive
          BY <3>2 DEF DriverCloses, UserCloses, Close
        <4>2. d.finalizer = dart.finalizer /\ d.portOpen = dart.portOpen
          BY DEF DartTyped
        <4> QED
          BY <1>3, <4>1, <4>2
      <3> QED
        BY <1>4, <3>1, <3>2
    <2>2. /\ pc' = [pc EXCEPT !["owner"] = "lifecycle"] /\ dart' = d
          /\ UNCHANGED <<lifecycle, abandoned, posted, console, program, flags>>
      BY <2>1 DEF DartCalls, ownerFrame, sessionVars, hostVars
    <2> QED
      BY <1>1, <2>1, <2>2, BesideKeeps
  <1>5. CASE DartClosed
    <2> DEFINE d == [dart EXCEPT !.portOpen = FALSE]
    <2>1. DartCalls("idle", d) /\ posted["SESSION_CLOSED"] > 0 /\ pc["owner"] = "idle"
      BY <1>1, <1>5 DEF DartClosed
    <2>2. d.finalizer = dart.finalizer /\ d.fatal = dart.fatal /\ d.closing = dart.closing
      BY DEF DartTyped
    <2>3. /\ pc' = [pc EXCEPT !["owner"] = pc["owner"]] /\ dart' = d
          /\ UNCHANGED <<lifecycle, abandoned, posted, console, program, flags>>
      BY <2>1 DEF DartCalls, ownerFrame, sessionVars, hostVars
    <2> QED
      BY <1>1, <2>1, <2>2, <2>3, BesideKeeps
  <1>6. CASE CloseFinishes
    <2>1. /\ dart' = [dart EXCEPT !.finalizer = "detached"] /\ ~dart.portOpen /\ Drop
          /\ dart.finalizer = "attached" /\ pc["owner"] = "idle" /\ posted["SESSION_CLOSED"] > 0
          /\ UNCHANGED <<pc, lifecycle, abandoned, flags, program, posted>>
      BY <1>6 DEF CloseFinishes, Alive
    <2>2. dart'.finalizer = "detached" /\ dart'.fatal = dart.fatal /\ dart'.closing = dart.closing
      BY <2>1 DEF DartTyped
    <2>3. console' = console \/ (console # "none" /\ console' # "none")
      BY <2>1 DEF Drop, FreedOpen
    <2> QED
      BY <1>1, <1>2, <2>1, <2>2, <2>3, BesideKeeps
  <1>7. CASE Acknowledges \/ Discards \/ TryWrites \/ Kills \/ ProgramExits \/ UNCHANGED vars
    <2>1. /\ UNCHANGED <<pc, lifecycle, abandoned, posted, console, dart>>
          /\ program = "dead" => program' = "dead"
          /\ flags' \in {flags, flags \cup {"discard"}, flags \cup {"backpressured"},
                         flags \cup {"terminating"}, flags \ {"terminating"}}
      BY <1>7 DEF Acknowledges, Discards, TryWrites, Kills, ProgramExits, vars, ownerFrame, sessionVars,
         hostVars, dartVars, Killed
    <2>2. \A f \in Special \cup {"waiterStarted", "outputClosed", "inputClosed"} :
            f \in flags' <=> f \in flags
      BY <2>1 DEF Special
    <2>3. dart'.finalizer # "attached" => ~dart'.portOpen
      BY <2>1 DEF TellInv, DoneOK
    <2> QED
      BY <1>1, <1>2, <2>1, <2>2, <2>3, BesideKeeps
  \* The isolate is not calm any more.
  <1>8. CASE IsolateExits
    <2>1. /\ pc' = [pc EXCEPT !["owner"] = "finalizer"] /\ dart'.finalizer = "ran"
          /\ ~dart'.portOpen /\ UNCHANGED <<flags, program, console>>
      BY <1>8 DEF IsolateExits, ownerFrame, hostVars
    <2>2. /\ pc'["owner"] = "finalizer" /\ \A u \in Threads \ {"owner"} : pc'[u] = pc[u]
      BY <1>1, <2>1 DEF TypeInv
    <2>3. {"boot", "waiter", "reader", "writer"} \subseteq Threads /\ Started \subseteq Threads \ {"owner"}
      BY DEF Threads, Workers, Started
    <2>4. \A u \in Threads : pc'[u] = "SESSION_CLOSED" => pc[u] = "SESSION_CLOSED"
      BY <2>2
    <2>5. DoneOK'
      BY <2>1, <2>2, <2>3, <2>4 DEF TellInv, DoneOK
    <2> QED
      BY <2>1, <2>5 DEF TellInv, Calm
  <1> QED
    BY <1>4, <1>5, <1>6, <1>7, <1>8 DEF User

\* A session starts calm and untold.
LEMMA InitTells ==
  ASSUME Init
  PROVE  TellInv
  <1>1. Stages[1] = "inputPipe"
    BY DEF Stages
  <1>2. /\ pc["boot"] = "inputPipe" /\ pc["owner"] = "idle"
        /\ \A u \in Threads \ {"boot", "owner"} : pc[u] = "off"
    BY <1>1 DEF Init, Threads, Workers
  <1>3. /\ lifecycle = "STARTING" /\ ~abandoned /\ flags = {} /\ \A e \in Events : posted[e] = 0
        /\ dart = [portOpen |-> TRUE, fatal |-> FALSE, closing |-> FALSE, finalizer |-> "attached"]
    BY DEF Init
  <1>4. {"boot", "owner", "reader", "writer", "waiter", "closer", "console"} = Threads
        /\ Started = {"reader", "writer", "waiter"}
    BY DEF Threads, Workers, Started
  <1>5. /\ "inputPipe" \in BootLabels \cap Unanswered \cap Launch
        /\ "inputPipe" \notin AfterJoin \cup UnstartedAt \cup Tearing \cup TornDown \cup NoPlatform
                              \cup Launched \cup {"mark", "answer"}
    BY DEF BootLabels, Unanswered, Launch, Undecided, Early, AfterJoin, UnstartedAt, Unstarted, Tearing,
       TornDown, NoPlatform, Launched
  <1>6. DoneOK
    BY <1>2, <1>3, <1>4, <1>5 DEF DoneOK
  <1>7. StartsOK
    BY <1>2, <1>3, <1>4, <1>5 DEF StartsOK, Events
  <1>8. PostsOK
    BY <1>2, <1>3, <1>4, <1>5 DEF PostsOK, Events
  <1> QED
    BY <1>6, <1>7, <1>8 DEF TellInv

\* Who is done and who claims SESSION_CLOSED, in every state; and, while the isolate
\* is there and was told of no error, how far the bootstrap, the threads and the
\* isolate are when each event is posted.
THEOREM TellInvariant == Spec => []TellInv
  <1>1. Init => TellInv
    BY InitTells
  <1>2. ASSUME TellInv, SafeInv, DartTyped, IInv, [Next]_vars PROVE TellInv'
    <2>1. CASE \/ DartFails \/ DriverCloses \/ DartClosed \/ CloseFinishes \/ User \/ ProgramExits
               \/ UNCHANGED vars
      BY <1>2, <2>1, DartTells
    <2>2. CASE \/ Boot \/ Reader \/ Writer \/ Waiter \/ Closer \/ ConsoleWorker \/ ReaderReads
               \/ WriterWrites \/ CallsFail \/ BeginClose \/ ClosesInline \/ Finalizes
      <3>1. Stepped
        BY <1>2, <2>2, ThreadsStep DEF TellInv
      <3> QED
        BY <1>2, <3>1, TellKeeps DEF Stepped
    <2> QED
      BY <1>2, <2>1, <2>2 DEF Next, ByItself, Owner
  <1> QED
    BY <1>1, <1>2, Invariant, SafeInvariant, PTL DEF Spec

\* Unless an error was posted, Dart's reference is released once, by close() or by
\* the finalizer's pty_session_abandon, so that a worker that has not released its
\* own (pty_session_release) finds the session still there.
THEOREM WorkersHoldTheSession == Spec => []WorkersHoldSession
  <1>1. TellInv /\ SafeInv /\ IInv => WorkersHoldSession
    <2> SUFFICES ASSUME TellInv, SafeInv, TypeInv, posted["ASYNC_ERROR"] = 0
                 PROVE  handed <= 1 /\ (refCount <= 0 => \A t \in Workers : ~Live(t))
      BY DEF IInv, WorkersHoldSession
    <2>1. ~(abandoned /\ dart.finalizer = "detached")
      BY DEF TellInv, Calm, StartsOK
    <2>2. handed <= 1
      BY <2>1 DEF SafeInv, RefsOK
    <2>3. \A l : Runs(l) \in {0, 1} /\ (Runs(l) = 0 <=> l \in {"off", "end"})
      BY DEF Runs
    <2>4. refCount <= 0 => Running <= 0
      <3>1. Running \in Int
        BY <2>3 DEF Running
      <3> QED
        BY <2>2, <3>1 DEF SafeInv, RefsOK, TypeInv
    <2>5. Running <= 0 => \A t \in Workers : Runs(pc[t]) = 0
      BY <2>3 DEF Running, Workers
    <2> QED
      BY <2>2, <2>3, <2>4, <2>5 DEF Live
  <1> QED
    BY <1>1, TellInvariant, SafeInvariant, Invariant, PTL

-----------------------------------------------------------------------------
(* A session keeps its contract                                            *)

\* The isolate was told of no error.
NoError == posted["ASYNC_ERROR"] = 0

\* Unless the session was abandoned, its program is watched: the waiter is or will
\* be there before the bootstrap is through, and waits until the program is dead.
Awake == program \in {"suspended", "running"}
Watched ==
  ~abandoned /\ Awake =>
    /\ pc["waiter"] \in {"off", "top", "waitFailed"}
    /\ pc["boot"] \in Launched \cup Past => pc["waiter"] # "off"

\* A step of the session's threads keeps the program watched.
LEMMA WatchKeeps ==
  ASSUME Watched, DoneOK, SafeInv, IInv, NEW t \in Threads, NEW l, NEW n, Step(t, l, n), NoError'
  PROVE  Watched'
  <1> SUFFICES ASSUME ~abandoned', Awake'
               PROVE  /\ pc'["waiter"] \in {"off", "top", "waitFailed"}
                      /\ pc'["boot"] \in Launched \cup Past => pc'["waiter"] # "off"
    BY DEF Watched, Awake
  <1>1. /\ TypeInv /\ pc[t] = l /\ {"boot", "waiter"} \subseteq Threads
        /\ Walks(t, l, n) /\ Way(t, l, n) /\ Fair(t, l, n)
    BY DEF Step, Walks, Threads, Workers, IInv
  <1>2. ~abandoned
    BY DEF Step, Hushes, Tells
  <1>3. /\ pc'["boot"] = IF t = "boot" THEN n ELSE pc["boot"]
        /\ \/ pc'["waiter"] = IF t = "waiter" THEN n ELSE pc["waiter"]
           \/ t = "boot" /\ l = "waiter" /\ pc["waiter"] = "off" /\ pc'["waiter"] = "top"
    BY <1>1 DEF Walks, Started
  <1>4. t = "boot" => BootWay(l, n)
    BY <1>1 DEF Way
  <1>5. CASE program = "none"
    <2>1. t = "boot" /\ l = "createProcess"
      BY <1>1, <1>5 DEF Fair, Awake
    <2>2. console = "none"
      BY <1>1, <2>1 DEF IInv, ConsoleOK, PlaceOK, Early
    <2>3. pc["waiter"] = "off"
      BY <1>1, <2>2 DEF IInv, ConsoleOK, PlaceOK, Before
    <2>4. n \notin Launched \cup Past
      BY <1>4, <2>1 DEF BootWay, Launched, Past
    <2> QED
      BY <1>3, <2>1, <2>3, <2>4
  <1>6. CASE program # "none"
    <2>1. Awake
      BY <1>1, <1>6 DEF Fair, Awake, TypeInv
    <2>2. /\ pc["waiter"] \in {"off", "top", "waitFailed"}
          /\ pc["boot"] \in Launched \cup Past => pc["waiter"] # "off"
      BY <1>2, <2>1 DEF Watched
    <2>3. t = "waiter" => l = "top" /\ n = "waitFailed"
      BY <1>1, <2>1, <2>2 DEF Way, Awake, NoError, Workers
    <2>4. /\ pc'["waiter"] \in {"off", "top", "waitFailed"}
          /\ pc["waiter"] # "off" => pc'["waiter"] # "off"
      BY <1>1, <1>3, <2>2, <2>3
    <2>5. ASSUME t = "boot", n \in Launched \cup Past PROVE pc["waiter"] # "off"
      <3>1. l \notin {"sessionClosed", "answer", "inputClosed"}
        BY <1>1, <2>1, <2>5 DEF SafeInv, ShutOK, ShutAt, Shut, DoneOK, TornDown, Awake
      <3>2. l \in Launched \cup Past \/ (l = "started" /\ "waiterStarted" \in flags)
        BY <1>4, <2>5, <3>1 DEF BootWay, Launched
      <3> QED
        BY <1>1, <2>2, <2>5, <3>2 DEF DoneOK
    <2> QED
      BY <1>3, <2>2, <2>4, <2>5
  <1> QED
    BY <1>5, <1>6

\* Nobody but the session's threads moves a worker or abandons the session, and
\* the program is only ended.
Beside ==
  \/ DartFails \/ DriverCloses \/ DartClosed \/ CloseFinishes \/ User \/ ProgramExits
  \/ UNCHANGED vars

LEMMA BesideIs ==
  ASSUME IInv, Beside
  PROVE  /\ \A u \in Workers : pc'[u] = pc[u]
         /\ abandoned' = abandoned /\ (posted' = posted \/ posted' = [e \in Events |-> 0])
         /\ program' \in {program, Killed}
         /\ flags \ {"terminating"} \subseteq flags'
  <1>1. TypeInv /\ "owner" \notin Workers
    BY DEF IInv, Workers
  <1>2. ASSUME NEW n, NEW d, DartCalls(n, d)
        PROVE  /\ \A u \in Workers : pc'[u] = pc[u]
               /\ UNCHANGED <<abandoned, posted, program, flags>>
    BY <1>1, <1>2 DEF DartCalls, ownerFrame, sessionVars, hostVars, TypeInv, Threads
  <1>3. CASE DartFails \/ DriverCloses \/ DartClosed \/ UserCloses
    BY <1>2, <1>3 DEF DartFails, DriverCloses, DartClosed, UserCloses, Close
  <1>4. CASE CloseFinishes \/ Acknowledges \/ Discards \/ TryWrites \/ ProgramExits \/ UNCHANGED vars
    BY <1>4 DEF CloseFinishes, Acknowledges, Discards, TryWrites, ProgramExits, Killed, vars, ownerFrame,
       sessionVars, hostVars, dartVars
  <1>5. CASE Kills
    BY <1>5 DEF Kills, sessionVars, dartVars
  <1>6. CASE IsolateExits
    BY <1>1, <1>6 DEF IsolateExits, ownerFrame, sessionVars, hostVars, TypeInv, Threads
  <1> QED
    BY <1>3, <1>4, <1>5, <1>6 DEF Beside, User

LEMMA BesideWatched ==
  ASSUME Watched, IInv, Beside
  PROVE  Watched'
  <1>1. {"boot", "waiter"} \subseteq Workers
    BY DEF Workers
  <1> QED
    BY <1>1, BesideIs DEF Watched, Awake, Killed

\* The steps of a session, and those beside it.
LEMMA NextSteps ==
  ASSUME DoneOK, SafeInv, IInv, [Next]_vars
  PROVE  Beside \/ Stepped
  BY ThreadsStep DEF Next, ByItself, Owner, Beside

\* A program that nobody abandoned is waited for unless the wait fails, of which
\* the isolate is told.
LEMMA WatchedInvariant == Spec /\ []NoError => []Watched
  <1>1. Init => Watched
    BY DEF Init, Watched, Awake
  <1>2. ASSUME Watched, TellInv, SafeInv, IInv, NoError', [Next]_vars PROVE Watched'
    <2>1. Beside \/ Stepped
      BY <1>2, NextSteps DEF TellInv
    <2> QED
      BY <1>2, <2>1, BesideWatched, WatchKeeps DEF Stepped, TellInv
  <1> QED
    BY <1>1, <1>2, Invariant, SafeInvariant, TellInvariant, PTL DEF Spec

-----------------------------------------------------------------------------
(* No error is posted where no read and no wait fails                      *)

\* The reader is at the failure of a read only when the read failed or the session
\* or its program was ended, the waiter at one of its own only when a wait failed.
ErrorFree ==
  /\ NoError
  /\ pc["waiter"] \notin {"unreadable", "waitFailed"}
  /\ pc["reader"] = "failed" => program = "dead" \/ "stopping" \in flags

LEMMA ErrorFreeKeeps ==
  ASSUME ErrorFree, IInv, NEW t \in Threads, NEW l, NEW n, Step(t, l, n),
         {"read", "wait"} \cap Faults = {}
  PROVE  ErrorFree'
  <1>1. /\ TypeInv /\ pc[t] = l /\ {"reader", "waiter"} \subseteq Threads
        /\ Walks(t, l, n) /\ Way(t, l, n) /\ Raises(t, l, n) /\ Fair(t, l, n)
    BY DEF Step, Walks, Threads, Workers, IInv
  <1>2. pc'["waiter"] \notin {"unreadable", "waitFailed"}
    BY <1>1 DEF Walks, Way, ErrorFree
  <1>3. pc'["reader"] = "failed" => program' = "dead" \/ "stopping" \in flags'
    <2>1. program = "dead" => program' = "dead"
      BY <1>1 DEF Fair
    <2>2. "stopping" \in flags => "stopping" \in flags'
      BY <1>1 DEF Raises
    <2>3. pc'["reader"] = "failed" =>
            \/ "stopping" \in flags'
            \/ t = "reader" /\ n = "failed"
            \/ pc["reader"] = "failed"
      BY <1>1 DEF Walks
    <2>4. t = "reader" /\ n = "failed" => program = "dead"
      BY <1>1 DEF Way
    <2> QED
      BY <2>1, <2>2, <2>3, <2>4 DEF ErrorFree
  <1>4. NoError'
    <2>1. CASE Hushes(t, l)
      BY <2>1 DEF Hushes, ErrorFree, NoError
    <2>2. CASE Tells(t, l, n)
      <3>1. PICK e : posted' = (IF abandoned THEN posted ELSE Counted(e)) /\ TellsAt(t, l, n, e)
        BY <2>2 DEF Tells
      <3>2. e # "ASYNC_ERROR"
        BY <1>1, <3>1 DEF TellsAt, ErrorFree, Reportable
      <3> QED
        BY <3>1, <3>2 DEF Counted, ErrorFree, NoError, Events
    <2> QED
      BY <2>1, <2>2 DEF Step
  <1> QED
    BY <1>2, <1>3, <1>4 DEF ErrorFree

\* The isolate hears of an error only from a read or a wait that failed
\* (windows_reader, windows_waiter): what fails because the session is stopped or
\* its program is over is none.
THEOREM ErrorsAreReal ==
  ASSUME {"read", "wait"} \cap Faults = {}
  PROVE  Spec => []NoError
  <1>1. Init => ErrorFree
    BY DEF Init, ErrorFree, NoError, Events, Threads, Workers
  <1>2. ASSUME ErrorFree, TellInv, SafeInv, IInv, [Next]_vars PROVE ErrorFree'
    <2>1. Beside \/ Stepped
      BY <1>2, NextSteps DEF TellInv
    <2>2. CASE Beside
      <3>1. {"reader", "waiter"} \subseteq Workers /\ "ASYNC_ERROR" \in Events
        BY DEF Workers, Events
      <3> QED
        BY <1>2, <2>2, <3>1, BesideIs DEF ErrorFree, NoError, Killed
    <2> QED
      BY <1>2, <2>1, <2>2, ErrorFreeKeeps DEF Stepped
  <1>3. ErrorFree => NoError
    BY DEF ErrorFree
  <1> QED
    BY <1>1, <1>2, <1>3, Invariant, SafeInvariant, TellInvariant, PTL DEF Spec

-----------------------------------------------------------------------------
(* The steps of the contract                                               *)

\* The isolate can be told something; the contract's view of the program.
Listening == dart.portOpen /\ ~abandoned
Seen == CASE program = "none" -> "none" [] program = "dead" -> "over" [] OTHER -> "running"
ContractStep == [Contract!Next]_(Contract!vars)

\* An event that may be told now.
MayTell(e) ==
  /\ posted[e] = 0
  /\ e = "SPAWNED" => program # "none" /\ posted["SPAWN_FAILED"] = 0
  /\ e = "SPAWN_FAILED" => ~Awake /\ posted["SPAWNED"] = 0
  /\ e = "PROCESS_EXIT" => program = "dead"
  /\ e = "SESSION_CLOSED" => ~Awake
  /\ posted["SESSION_CLOSED"] = 0

\* A post the isolate hears is a Tell of the contract.
LEMMA MapsTell ==
  ASSUME TypeInv, NEW e \in Events, Listening, MayTell(e), posted' = [posted EXCEPT ![e] = @ + 1],
         refCount > 0, UNCHANGED <<dart, abandoned, program, refCount>>
  PROVE  Contract!Next
  <1>1. Contract!True(e)
    BY DEF Contract!True, Contract!Heard, MayTell, TypeInv, Awake
  <1>2. Contract!InTime(e) /\ ~Contract!Heard(e)
    BY DEF Contract!InTime, Contract!Heard, MayTell
  <1>3. ~(refCount <= 0)
    BY DEF TypeInv
  <1>4. Contract!Tell(e)
    BY <1>1, <1>2, <1>3 DEF Contract!Tell, Listening
  <1> QED
    BY <1>4 DEF Contract!Next, Contract!Events, Events

\* The isolate stops listening: with what it heard or, when it goes away, without.
LEMMA MapsDisconnect ==
  ASSUME ~Listening', posted' = posted \/ posted' = [e \in Events |-> 0],
         UNCHANGED <<program, refCount>>
  PROVE  Contract!Next
  BY DEF Contract!Next, Contract!Disconnect, Contract!Nothing, Contract!Events, Events, Listening

\* The program starts or ends.
LEMMA MapsProgram ==
  ASSUME TypeInv, posted' = posted, Listening' = Listening, refCount <= 0 <=> refCount' <= 0,
         program = "dead" => program' = "dead", program # "none" => program' # "none",
         program = "none" => program' = "none" \/ (program' = "suspended" /\ refCount > 0)
  PROVE  ContractStep
  <1>1. CASE program = "none" /\ program' = "suspended"
    <2>1. ~(refCount <= 0)
      BY <1>1 DEF TypeInv
    <2>2. Contract!ProgramStarts
      BY <1>1, <2>1 DEF Contract!ProgramStarts, Listening
    <2> QED
      BY <2>2 DEF ContractStep, Contract!Next
  <1>2. CASE Awake /\ program' = "dead"
    <2>1. Contract!ProgramEnds
      BY <1>2 DEF Contract!ProgramEnds, Awake, Listening
    <2> QED
      BY <2>1 DEF ContractStep, Contract!Next
  <1>3. CASE ~(program = "none" /\ program' = "suspended") /\ ~(Awake /\ program' = "dead")
    <2>1. Seen' = Seen
      BY <1>3 DEF Seen, Awake, TypeInv
    <2> QED
      BY <2>1 DEF ContractStep, Contract!vars, Seen, Listening
  <1> QED
    BY <1>1, <1>2, <1>3

\* The last reference goes when nobody listens and no program runs.
LEMMA MapsFree ==
  ASSUME UNCHANGED <<posted, program>>, ~Listening, ~Listening', ~Awake,
         ~(refCount <= 0), refCount' <= 0, TypeInv
  PROVE  Contract!Next
  BY DEF Contract!Next, Contract!Free, Listening, Awake, TypeInv

\* What nobody sees.
LEMMA MapsNothing ==
  ASSUME posted' = posted, Listening' = Listening, program' = program, refCount <= 0 <=> refCount' <= 0
  PROVE  ContractStep
  BY DEF ContractStep, Contract!vars, Listening

\* Everything the proof of the contract knows of a state.
KeptInv == TellInv /\ SafeInv /\ IInv /\ Watched /\ NoError

\* While a worker runs or the isolate holds its reference, there is one; a session
\* without any is shut, and nobody listens to it.
Referenced ==
  /\ \A t \in Workers : pc[t] \notin {"off", "end"} => refCount > 0
  /\ Listening => refCount > 0
  /\ refCount <= 0 => ~Awake
  /\ dart.finalizer # "ran" => ~abandoned

LEMMA References == KeptInv => Referenced
  <1> SUFFICES ASSUME KeptInv PROVE Referenced
    OBVIOUS
  <1>1. /\ TypeInv /\ DoneOK /\ RefsOK
        /\ dart.finalizer # "ran" => ~abandoned
    BY DEF KeptInv, IInv, TellInv, SafeInv, Calm, StartsOK, NoError
  <1>2. \A l : Runs(l) \in {0, 1} /\ (Runs(l) = 0 <=> l \in {"off", "end"})
    BY DEF Runs
  <1>3. Running \in Nat /\ ((\E t \in Workers : pc[t] \notin {"off", "end"}) => Running > 0)
    BY <1>2 DEF Running, Workers
  <1>4. handed \in {0, 1} /\ (Listening => handed = 0)
    BY <1>1 DEF RefsOK, DoneOK, Listening
  <1>5. refCount <= 0 => handed = 1 /\ Running = 0
    BY <1>1, <1>3, <1>4 DEF RefsOK, TypeInv
  <1>6. refCount > 0 \/ refCount <= 0
    BY <1>1 DEF TypeInv
  <1>7. refCount <= 0 => ~Awake
    BY DEF KeptInv, SafeInv, ShutOK, Shut, Awake
  <1> QED
    BY <1>1, <1>3, <1>4, <1>5, <1>6, <1>7 DEF Referenced

\* Who posts now posts before SESSION_CLOSED or is the one that posts it.
LEMMA PostsFirst ==
  ASSUME DoneOK, PostsOK, NEW t \in Threads, NEW l, pc[t] = l, Posting(t, l),
         dart.finalizer # "ran"
  PROVE  ~(posted["SESSION_CLOSED"] > 0)
  <1>1. l = "SESSION_CLOSED" => ~(posted["SESSION_CLOSED"] > 0)
    BY DEF PostsOK
  <1>2. ~(t = "owner" /\ l = "finalizer")
    BY DEF DoneOK
  <1>3. t \in Started \cup {"boot"} /\ l \notin Gone => ~Quiet
    BY DEF Quiet, Gone
  <1> QED
    BY <1>1, <1>2, <1>3 DEF Posting, PostsOK

\* What a thread tells now is true and in time.
LEMMA MayTellNow ==
  ASSUME KeptInv, NEW t \in Threads, NEW l, NEW n, Step(t, l, n), Posting(t, l), Listening,
         NEW e \in Events \ {"ASYNC_ERROR"}, TellsAt(t, l, n, e)
  PROVE  MayTell(e)
  <1>1. /\ TypeInv /\ DoneOK /\ SafeInv /\ dart.finalizer = "attached" /\ pc[t] = l
        /\ Calm /\ StartsOK /\ PostsOK
    <2>1. TypeInv /\ DoneOK /\ SafeInv /\ dart.finalizer = "attached" /\ pc[t] = l
      BY DEF KeptInv, IInv, TellInv, DoneOK, Listening, Step, Walks
    <2>2. Calm
      BY <2>1 DEF Calm, KeptInv, NoError
    <2> QED
      BY <2>1, <2>2 DEF KeptInv, TellInv
  <1>2. \A x \in Events : ~(posted[x] > 0) <=> posted[x] = 0
    BY <1>1 DEF TypeInv
  <1>3. posted["SESSION_CLOSED"] = 0
    BY <1>1, <1>2, PostsFirst DEF Events
  <1>4. CASE e = "SPAWNED"
    <2>1. t = "boot" /\ l = "spawned" /\ pc["boot"] \in Unanswered
      BY <1>1, <1>4 DEF TellsAt, Unanswered, Launch, Launched
    <2>2. posted["SPAWNED"] = 0 /\ posted["SPAWN_FAILED"] = 0
      BY <1>1, <2>1 DEF StartsOK
    <2>3. console # "none"
      BY <1>1, <2>1, WithPlatform DEF Before, Early, KeptInv
    <2>4. program # "none"
      BY <1>1, <2>3 DEF SafeInv, DeadOK
    <2> QED
      BY <1>3, <1>4, <2>2, <2>4 DEF MayTell
  <1>5. CASE e = "SPAWN_FAILED"
    <2>1. t = "boot" /\ l \in {"failed", "answer"} /\ pc["boot"] \in Unanswered
      BY <1>1, <1>5 DEF TellsAt, Unanswered, Launch, Tearing, StartsOK, UnstartedAt
    <2>2. posted["SPAWNED"] = 0 /\ posted["SPAWN_FAILED"] = 0
      BY <1>1, <2>1 DEF StartsOK
    <2>3. ~Awake
      BY <1>1, <2>1 DEF SafeInv, ShutOK, ShutAt, Shut, DoneOK, Awake
    <2> QED
      BY <1>3, <1>5, <2>2, <2>3 DEF MayTell
  <1>6. CASE e = "OUTPUT_CLOSED"
    <2>1. Raises(t, l, n)
      BY DEF Step
    <2>2. CASE "outputClosed" \in flags' \ flags
      BY <1>1, <1>2, <1>3, <1>6, <2>1, <2>2 DEF Raises, PostsOK, MayTell, Events
    <2>3. CASE t = "boot" /\ l = "failedOutput"
      <3>1. console = "none"
        BY <1>1, <2>3 DEF StartsOK, NoPlatform
      <3> QED
        BY <1>1, <1>2, <1>3, <1>6, <2>3, <3>1 DEF DoneOK, PostsOK, MayTell, Events
    <2> QED
      BY <1>6, <2>2, <2>3 DEF TellsAt
  <1>7. CASE e = "INPUT_CLOSED"
    BY <1>1, <1>2, <1>3, <1>7 DEF TellsAt, PostsOK, MayTell, Events
  <1>8. CASE e = "PROCESS_EXIT"
    <2>1. t = "waiter" /\ l = "exit"
      BY <1>8 DEF TellsAt
    <2>2. program = "dead"
      BY <1>1, <2>1 DEF SafeInv, DeadOK, DeadAt
    <2>3. posted["PROCESS_EXIT"] = 0
      BY <1>1, <1>2, <2>1 DEF PostsOK, PastExit, Past, Events
    <2> QED
      BY <1>3, <1>8, <2>2, <2>3 DEF MayTell
  <1>9. CASE e = "SESSION_CLOSED"
    <2>1. l \in ShutAt(t)
      BY <1>9 DEF TellsAt, ShutAt
    <2>2. ~Awake
      BY <1>1, <2>1 DEF SafeInv, ShutOK, Shut, Awake
    <2> QED
      BY <1>3, <1>9, <2>2 DEF MayTell
  <1> QED
    BY <1>4, <1>5, <1>6, <1>7, <1>8, <1>9 DEF Events

\* A step that posts tells something the contract allows, or nothing.
LEMMA TellMaps ==
  ASSUME KeptInv, NoError', NEW t \in Threads, NEW l, NEW n, Step(t, l, n), Tells(t, l, n)
  PROVE  ContractStep
  <1>1. /\ UNCHANGED <<abandoned, dart, refCount, program>> /\ ~Abandons /\ Posting(t, l) /\ TypeInv
    BY DEF Tells, KeptInv, IInv
  <1>2. PICK e : posted' = (IF abandoned THEN posted ELSE Counted(e)) /\ TellsAt(t, l, n, e)
    BY DEF Tells
  <1>3. CASE posted' = posted
    BY <1>1, <1>3, MapsNothing DEF Listening
  <1>4. CASE posted' # posted
    <2>1. ~abandoned /\ Listening /\ posted' = Counted(e)
      BY <1>1, <1>2, <1>4 DEF Abandons, Listening
    <2>2. e \in Events /\ posted[e] < 2
      <3> SUFFICES ASSUME ~(e \in Events /\ posted[e] < 2) PROVE FALSE
        OBVIOUS
      <3>1. posted' = posted
        BY <1>1, <2>1 DEF Counted, TypeInv
      <3> QED
        BY <1>4, <3>1
    <2>3. posted' = [posted EXCEPT ![e] = @ + 1]
      <3> DEFINE more(x) == IF x = e THEN posted[x] + 1 ELSE posted[x]
      <3>1. \A x \in Events : posted[x] \in 0 .. 2
        BY <1>1 DEF TypeInv
      <3>2. Counted(e) = [x \in Events |-> more(x)]
        BY <2>2, <3>1 DEF Counted
      <3>3. [posted EXCEPT ![e] = @ + 1] = [x \in Events |-> more(x)]
        BY <1>1, <2>2 DEF TypeInv
      <3> QED
        BY <2>1, <3>2, <3>3
    <2>4. e # "ASYNC_ERROR"
      BY <1>1, <2>2, <2>3 DEF NoError, KeptInv, TypeInv
    <2>5. MayTell(e)
      BY <1>1, <1>2, <2>1, <2>2, <2>4, MayTellNow
    <2> QED
      BY <1>1, <2>1, <2>2, <2>3, <2>5, References, MapsTell DEF ContractStep, Referenced
  <1> QED
    BY <1>3, <1>4

\* A step that posts nothing ends or starts the program, or frees the session --
\* never both: who frees a session whose program still ran would have been the last.
LEMMA HushMaps ==
  ASSUME KeptInv, KeptInv', NEW t \in Threads, NEW l, NEW n, Step(t, l, n), Hushes(t, l)
  PROVE  ContractStep
  <1>1. /\ TypeInv /\ TypeInv' /\ DoneOK /\ DoneOK' /\ RefsOK /\ pc[t] = l /\ Fair(t, l, n)
        /\ UNCHANGED <<posted, dart>>
        /\ t \in Workers => l \notin {"off", "end"}
    BY DEF KeptInv, IInv, TellInv, SafeInv, Step, Walks, Way, Hushes
  <1>2. program = "none" => program' = "none" \/ (program' = "suspended" /\ refCount > 0)
    <2>1. t = "boot" => refCount > 0
      BY <1>1, References DEF Workers, Referenced
    <2> QED
      BY <1>1, <2>1 DEF Fair
  <1>3. CASE abandoned' = abandoned /\ (refCount <= 0 <=> refCount' <= 0)
    BY <1>1, <1>2, <1>3, MapsProgram DEF Fair, Listening
  <1>4. CASE refCount <= 0 /\ ~(refCount' <= 0)
    <2>1. CASE refCount' \in {refCount, refCount - 1}
      BY <1>1, <1>4, <2>1 DEF TypeInv
    <2>2. CASE l \notin {"finalizer", "end"}
      <3>1. t = "owner"
        BY <1>1, <1>4, References DEF Threads, TypeInv, Referenced
      <3>2. ~Listening
        BY <1>1, <1>4, References DEF TypeInv, Referenced
      <3>3. dart.finalizer # "ran" /\ l # "idle"
        BY <1>1, <2>2, <3>1 DEF DoneOK, Step, Way
      <3>4. ~abandoned /\ dart.finalizer # "detached"
        BY <1>1, <3>1, <3>3, References DEF DoneOK, Referenced
      <3>5. handed = 0
        BY <1>1, <3>4 DEF RefsOK
      <3>6. Running \in Nat
        BY DEF Running, Runs
      <3> QED
        BY <1>1, <1>4, <3>5, <3>6 DEF RefsOK, TypeInv
    <2> QED
      BY <1>4, <2>1, <2>2 DEF Hushes
  <1>5. CASE /\ abandoned' = abandoned /\ program' = program
             /\ ~(refCount <= 0) /\ refCount' <= 0
    <2>1. (KeptInv => Referenced)'
      BY References, PTL
    <2>2. ~Listening' /\ ~Awake'
      BY <1>1, <1>5, <2>1 DEF TypeInv, Referenced
    <2>3. ~Listening /\ ~Awake
      BY <1>1, <1>5, <2>2 DEF Listening, Awake
    <2> QED
      BY <1>1, <1>5, <2>2, <2>3, MapsFree DEF ContractStep
  <1>6. CASE abandoned' = TRUE /\ Abandons /\ Posting(t, l) /\ refCount' \in {refCount, refCount - 1}
    <2>1. dart.finalizer = "ran" /\ ~abandoned /\ ~Listening /\ ~Listening'
      <3>1. dart.finalizer # "ran" => Calm'
        BY <1>1 DEF Calm, KeptInv, NoError
      <3>2. dart.finalizer # "ran" => abandoned' = abandoned
        BY <1>1, <3>1, CalmStep DEF KeptInv
      <3> QED
        BY <1>1, <1>6, <3>2 DEF Abandons, Listening
    <2>2. CASE refCount <= 0 <=> refCount' <= 0
      <3>1. Listening' = Listening
        BY <2>1 DEF Listening
      <3> QED
        BY <1>1, <1>2, <2>2, <3>1, MapsProgram DEF Fair
    <2>3. CASE ~(refCount <= 0) /\ refCount' <= 0
      <3>1. refCount = 1
        BY <1>1, <1>6, <2>3 DEF TypeInv
      <3>2. handed = 0
        BY <1>1, <2>1 DEF RefsOK
      <3>3. \A x : Runs(x) \in {0, 1} /\ (Runs(x) = 0 <=> x \in {"off", "end"})
        BY DEF Runs
      <3>4. Running \in Nat /\ (Running = 0 => \A u \in Workers : Runs(pc[u]) = 0)
        BY <3>3 DEF Running, Workers
      <3>5. Running = 0
        BY <1>1, <3>1, <3>2, <3>4 DEF RefsOK
      <3>6. \A u \in Workers : pc[u] \in {"off", "end"}
        BY <3>3, <3>4, <3>5
      <3>7. pc["boot"] = "end" /\ pc["waiter"] \in {"off", "end"} /\ t \notin Workers
        BY <1>1, <3>6 DEF Workers, DoneOK, BootLabels, Unanswered, Launch, Undecided, Early, Launched,
           Tearing, TornDown, NoPlatform, UnstartedAt, Unstarted, Past
      <3>8. ~Awake
        BY <2>1, <3>7 DEF KeptInv, Watched, Past
      <3>9. program' = program
        BY <1>1, <3>7, <3>8 DEF Fair, Awake, TypeInv, Workers
      <3> QED
        BY <1>1, <2>1, <2>3, <3>8, <3>9, MapsFree DEF ContractStep
    <2> QED
      BY <1>6, <2>2, <2>3, <1>4
  <1> QED
    BY <1>3, <1>4, <1>5, <1>6 DEF Hushes

\* What the isolate, its user and the program do is a step of the contract.
LEMMA BesideMaps ==
  ASSUME KeptInv, KeptInv', DartTyped, Beside
  PROVE  ContractStep
  <1>1. TypeInv /\ DoneOK /\ DoneOK'
    BY DEF KeptInv, IInv, TellInv
  <1>2. ASSUME NEW n, NEW d, DartCalls(n, d), d.portOpen = dart.portOpen
        PROVE  ContractStep
    <2>1. UNCHANGED <<posted, abandoned, program, refCount>> /\ dart' = d
      BY <1>2 DEF DartCalls, ownerFrame, sessionVars, hostVars
    <2>2. Listening' = Listening
      BY <1>2, <2>1 DEF Listening
    <2> QED
      BY <2>1, <2>2, MapsNothing
  <1>3. CASE DartFails
    <2>1. [dart EXCEPT !.fatal = TRUE].portOpen = dart.portOpen
      BY DEF DartTyped
    <2> QED
      BY <1>2, <1>3, <2>1 DEF DartFails
  <1>4. CASE DriverCloses \/ UserCloses
    <2>1. [dart EXCEPT !.closing = TRUE].portOpen = dart.portOpen
      BY DEF DartTyped
    <2> QED
      BY <1>2, <1>4, <2>1 DEF DriverCloses, UserCloses, Close
  <1>5. CASE DartClosed
    <2>1. /\ UNCHANGED <<posted, program, refCount>> /\ dart' = [dart EXCEPT !.portOpen = FALSE]
      BY <1>5 DEF DartClosed, DartCalls, ownerFrame, sessionVars, hostVars
    <2>2. ~Listening'
      BY <2>1 DEF Listening, DartTyped
    <2> QED
      BY <2>1, <2>2, MapsDisconnect DEF ContractStep
  <1>6. CASE IsolateExits
    <2>1. /\ UNCHANGED <<program, refCount>> /\ ~dart'.portOpen
          /\ posted' = [e \in Events |-> 0]
      BY <1>6 DEF IsolateExits, ownerFrame, sessionVars, hostVars
    <2>2. ~Listening'
      BY <2>1 DEF Listening
    <2> QED
      BY <2>1, <2>2, MapsDisconnect DEF ContractStep
  <1>7. CASE CloseFinishes
    <2>1. /\ UNCHANGED <<posted, program, abandoned>> /\ ~dart.portOpen /\ refCount' = refCount - 1
          /\ dart' = [dart EXCEPT !.finalizer = "detached"]
      BY <1>7 DEF CloseFinishes, Drop
    <2>2. dart'.portOpen = dart.portOpen
      BY <2>1 DEF DartTyped
    <2>3. Listening' = Listening /\ ~Listening
      BY <2>1, <2>2 DEF Listening
    <2>4. CASE refCount <= 0 <=> refCount' <= 0
      BY <2>1, <2>3, <2>4, MapsNothing
    <2>5. CASE ~(refCount <= 0) /\ refCount' <= 0
      <3>1. (KeptInv => Referenced)'
        BY References, PTL
      <3>2. ~Awake
        BY <2>1, <2>5, <3>1 DEF Referenced, Awake
      <3> QED
        BY <1>1, <2>1, <2>3, <2>5, <3>2, MapsFree DEF ContractStep
    <2> QED
      BY <1>1, <2>1, <2>4, <2>5 DEF TypeInv
  <1>8. CASE Acknowledges \/ Discards \/ TryWrites \/ Kills \/ ProgramExits \/ UNCHANGED vars
    <2>1. /\ UNCHANGED <<posted, dart, abandoned, refCount>>
          /\ program' \in {program, Killed}
      BY <1>8 DEF Acknowledges, Discards, TryWrites, Kills, ProgramExits, Killed, vars, ownerFrame,
         sessionVars, hostVars, dartVars
    <2>2. Listening' = Listening
      BY <2>1 DEF Listening
    <2> QED
      BY <1>1, <2>1, <2>2, MapsProgram DEF Killed
  <1> QED
    BY <1>3, <1>4, <1>5, <1>6, <1>7, <1>8 DEF Beside, User

\* A session starts as the contract says.
LEMMA InitMaps ==
  ASSUME Init
  PROVE  Contract!Init
  BY DEF Init, Contract!Init, Contract!Nothing, Contract!Events, Events

\* A session that posts no error keeps the contract: every event at most once, in
\* time and true of the program, and its memory goes when the program is over and
\* nobody listens (post_session_event, pty_session_release).
THEOREM SessionKeepsContract == Spec /\ []NoError => ImplementsContract
  <1>1. ASSUME KeptInv, KeptInv', DartTyped, [Next]_vars PROVE [Contract!Next]_(Contract!vars)
    <2>1. Beside \/ Stepped
      BY <1>1, NextSteps DEF KeptInv, TellInv
    <2>2. CASE Beside
      BY <1>1, <2>2, BesideMaps DEF ContractStep
    <2>3. CASE Stepped
      <3>1. PICK t \in Threads : \E l, n \in Labels : Step(t, l, n)
        BY <2>3 DEF Stepped
      <3>2. PICK l, n \in Labels : Step(t, l, n)
        BY <3>1
      <3>3. NoError'
        BY <1>1 DEF KeptInv
      <3>4. CASE Hushes(t, l)
        BY <1>1, <3>2, <3>4, HushMaps DEF ContractStep
      <3>5. CASE Tells(t, l, n)
        BY <1>1, <3>2, <3>3, <3>5, TellMaps DEF ContractStep
      <3> QED
        BY <3>2, <3>4, <3>5 DEF Step
    <2> QED
      BY <2>1, <2>2, <2>3
  <1>2. TellInv /\ SafeInv /\ IInv /\ Watched /\ NoError => KeptInv
    BY DEF KeptInv
  <1> QED
    BY <1>1, <1>2, InitMaps, WatchedInvariant, TellInvariant, SafeInvariant, Invariant, PTL
       DEF Spec, ImplementsContract, Contract!Spec

\* Where no read and no wait fails it keeps it outright, whatever else fails.
THEOREM SessionKeepsContractOutright ==
  ASSUME {"read", "wait"} \cap Faults = {}
  PROVE  Spec => ImplementsContract
  BY ErrorsAreReal, SessionKeepsContract, PTL
=============================================================================
