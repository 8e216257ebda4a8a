-------------------------- MODULE UnixSessionProofs --------------------------
(***************************************************************************)
(* The reference count of a Unix session is exact, whatever fails: the     *)
(* inductive invariant is RefsInv of UnixSession.  Most steps move one     *)
(* thread from one label of its body to another (lemma Move); the others   *)
(* create a worker, finish one, or run pty_session_begin_close.            *)
(***************************************************************************)
EXTENDS UnixSession, TLAPS

\* The session starts with Dart's reference and the bootstrap's.
LEMMA InitRefs == Init => RefsInv
  <1> SUFFICES ASSUME Init PROVE RefsInv
    OBVIOUS
  <1>1. RefsTypeOK
    <2>1. DOMAIN pc = Threads /\ DOMAIN call = Threads
      BY DEF Init
    <2>2. DOMAIN plat = FlagNames
      BY DEF Init, FlagNames
    <2> QED
      BY <2>1, <2>2 DEF Init, RefsTypeOK
  <1>2. StartsOnce /\ ClosesOnce
    BY DEF Init, StartsOnce, ClosesOnce, Threads, Workers, BeforeReactor, BeforeWaiter
  <1>3. RefsAccounted
    BY DEF Init, RefsAccounted, Held, Live, Threads, Workers
  <1> QED
    BY <1>1, <1>2, <1>3 DEF RefsInv

\* Labels at which a thread's body is under way.
Busy(label) == label \notin {"off", "end"}

\* The bootstrap does not go back to a label before a creation.
Onward(t, label, next) ==
  t = "boot" => /\ next \in BeforeReactor => label \in BeforeReactor
                /\ next \in BeforeWaiter => label \in BeforeWaiter

\* A thread that goes on with its body, perhaps entering pty_session_abandon
\* because a post failed, disturbs no reference.
LEMMA Move ==
  ASSUME RefsInv, NEW t \in Threads, NEW label, NEW next,
         At(t, label), Go(t, next), Busy(label), Busy(next), Onward(t, label, next),
         call' = call \/ call' = [call EXCEPT ![t] = "abandon"],
         DOMAIN plat' = FlagNames, plat.closeStarted => plat'.closeStarted,
         UNCHANGED <<refCount, handed>>
  PROVE  RefsInv'
  <1>1. RefsTypeOK'
    BY DEF RefsInv, RefsTypeOK, Go
  <1>2. \A u \in Threads : call'[u] = call[u] \/ (u = t /\ call[u] = "none" /\ call'[u] = "abandon")
    BY DEF RefsInv, RefsTypeOK, At
  <1>3. \A u \in Threads : u # t => pc'[u] = pc[u]
    BY DEF RefsInv, RefsTypeOK, Go
  <1>4. pc[t] = label /\ pc'[t] = next
    BY DEF RefsInv, RefsTypeOK, Go, At
  <1>5. StartsOnce'
    BY <1>3, <1>4 DEF RefsInv, StartsOnce, Onward, Busy, Threads, Workers
  <1>6. ClosesOnce'
    BY <1>2, <1>3, <1>4 DEF RefsInv, ClosesOnce, Busy, Threads, Workers
  <1>7. \A u \in Threads : Held(u)' = Held(u)
    BY <1>2, <1>3, <1>4 DEF Held, Live, Busy
  <1>8. RefsAccounted'
    BY <1>7 DEF RefsInv, RefsAccounted, Threads, Workers
  <1> QED
    BY <1>1, <1>5, <1>6, <1>8 DEF RefsInv

\* A flag step that keeps a started close started.
LEMMA FlagStepRefs ==
  ASSUME RefsInv, NEW t \in Threads, NEW label, NEW next, NEW flags,
         FlagStep(t, label, flags, next), Busy(label), Busy(next), Onward(t, label, next),
         DOMAIN flags = FlagNames, plat.closeStarted => flags.closeStarted
  PROVE  RefsInv'
  BY Move DEF FlagStep, callVars, sessionVars

\* The steps that post an event or mark the lifecycle.
LEMMA OtherStepRefs ==
  ASSUME RefsInv, NEW t \in Threads, NEW label, NEW next, NEW value,
         PostStep(t, label, value, next) \/ MarkStep(t, label, value, next),
         Busy(label), Busy(next), Onward(t, label, next)
  PROVE  RefsInv'
  <1>1. At(t, label) /\ Go(t, next)
    BY DEF PostStep, MarkStep
  <1>2. UNCHANGED <<plat, refCount, handed>>
    BY DEF PostStep, PostEvent, MarkStep, sessionVars
  <1>3. call' = call \/ call' = [call EXCEPT ![t] = "abandon"]
    BY DEF PostStep, PostEvent, Abandon, MarkStep, callVars
  <1>4. DOMAIN plat' = FlagNames /\ (plat.closeStarted => plat'.closeStarted)
    BY <1>2 DEF RefsInv, RefsTypeOK
  <1> QED
    BY <1>1, <1>2, <1>3, <1>4, Move

\* stop_process
LEMMA StopStepRefs ==
  ASSUME RefsInv, NEW t \in Threads, NEW label, NEW next, StopStep(t, label, next),
         Busy(label), Busy(next), Onward(t, label, next)
  PROVE  RefsInv'
  BY Move DEF StopStep, callVars, sessionVars, RefsInv, RefsTypeOK

\* How a worker ends: the last step gives its reference back.
LEMMA EndingRefs ==
  ASSUME RefsInv, NEW t \in Workers, Ending(t)
  PROVE  RefsInv'
  <1> t \in Threads
    BY DEF Threads
  <1>0. \A label \in {"claim", "markClosed", "postClosed", "release"} :
          Busy(label) /\ label \notin BeforeWaiter /\ label \notin BeforeReactor
    BY DEF Busy, BeforeReactor, BeforeWaiter
  <1>1. ASSUME ClaimClosed(t) PROVE RefsInv'
    <2>1. DOMAIN plat = FlagNames /\ DOMAIN Claimed = FlagNames
          /\ (plat.closeStarted => Claimed.closeStarted)
      BY DEF RefsInv, RefsTypeOK, Claimed, FlagNames
    <2>2. ASSUME FlagStep(t, "claim", Claimed, "markClosed") PROVE RefsInv'
      BY <1>0, <2>1, <2>2, FlagStepRefs DEF Onward
    <2>3. ASSUME FlagStep(t, "claim", plat, "release") PROVE RefsInv'
      BY <1>0, <2>1, <2>3, FlagStepRefs DEF Onward
    <2> QED
      BY <1>1, <2>2, <2>3 DEF ClaimClosed
  <1>2. ASSUME MarkStep(t, "markClosed", "CLOSED", "postClosed") PROVE RefsInv'
    BY <1>0, <1>2, OtherStepRefs DEF Onward
  <1>3. ASSUME PostStep(t, "postClosed", "SESSION_CLOSED", "release") PROVE RefsInv'
    BY <1>0, <1>3, OtherStepRefs DEF Onward
  <1>4. ASSUME Finish(t) PROVE RefsInv'
    <2>1. pc[t] = "release" /\ pc'[t] = "end" /\ \A u \in Threads : u # t => pc'[u] = pc[u]
      BY <1>4 DEF Finish, At, Go, RefsInv, RefsTypeOK
    <2>2. UNCHANGED <<call, plat, handed>> /\ refCount' = refCount - 1
      BY <1>4 DEF Finish, callVars
    <2>3. RefsTypeOK'
      BY <1>4, <2>2 DEF RefsInv, RefsTypeOK, Finish, Go
    <2>4. StartsOnce' /\ ClosesOnce'
      BY <2>1, <2>2 DEF RefsInv, StartsOnce, ClosesOnce, Threads, Workers,
                           BeforeReactor, BeforeWaiter
    <2>5. Held(t)' = Held(t) - 1 /\ \A u \in Threads : u # t => Held(u)' = Held(u)
      BY <2>1, <2>2 DEF Held, Live
    <2>6. RefsAccounted'
      BY <2>2, <2>5 DEF RefsInv, RefsTypeOK, RefsAccounted, Held, Threads, Workers
    <2> QED
      BY <2>3, <2>4, <2>6 DEF RefsInv
  <1> QED
    BY <1>1, <1>2, <1>3, <1>4 DEF Ending

\* A step inside abandon or begin_close, one that enters them, or one of the
\* isolate: no thread moves, and what the count loses is Dart's reference.
LEMMA Settle ==
  ASSUME RefsInv, NEW t \in Threads, DOMAIN call' = Threads,
         \A u \in Threads :
           \/ call'[u] = call[u]
           \/ u = t /\ call[t] # "unretain" /\ call'[t] \notin {"create", "unretain"},
         UNCHANGED pc, DOMAIN plat' = FlagNames,
         plat.closeStarted => plat'.closeStarted,
         refCount' \in Int, handed' \in Int,
         refCount' + handed' = refCount + handed
  PROVE  RefsInv'
  <1>1. RefsTypeOK'
    BY DEF RefsInv, RefsTypeOK
  <1>2. StartsOnce' /\ ClosesOnce'
    BY DEF RefsInv, StartsOnce, ClosesOnce
  <1>3. \A u \in Threads : Held(u) \in Int /\ Held(u)' = Held(u)
    BY DEF Held, Live
  <1>4. RefsAccounted'
    BY <1>3 DEF RefsInv, RefsTypeOK, RefsAccounted, Threads, Workers
  <1> QED
    BY <1>1, <1>2, <1>4 DEF RefsInv

\* Returning from begin_close keeps refCount + handed.
LEMMA ReturnKeepsSum ==
  ASSUME RefsInv, NEW t, Return(t)
  PROVE  /\ refCount' \in Int /\ handed' \in Int
         /\ refCount' + handed' = refCount + handed
         /\ UNCHANGED pc /\ call' = [call EXCEPT ![t] = "none"]
  BY DEF RefsInv, RefsTypeOK, Return

\* pty_session_begin_close: the two references taken for the close worker are
\* the worker's and the creator's, and only one creation is ever under way.
LEMMA BeginCloseRefs ==
  ASSUME RefsInv, NEW t \in Threads, BeginClose(t)
  PROVE  RefsInv'
  <1>0. /\ DOMAIN plat = FlagNames /\ DOMAIN call = Threads
        /\ refCount \in Int /\ handed \in Int
    BY DEF RefsInv, RefsTypeOK
  <1>1. ASSUME CloseLifecycle(t) PROVE RefsInv'
    <2>1. call[t] = "lifecycle" /\ UNCHANGED plat
      BY <1>1 DEF CloseLifecycle, In
    <2>2. CASE Return(t)
      BY <1>0, <2>1, <2>2, ReturnKeepsSum, Settle
    <2>3. CASE Inside(t, "claim") /\ UNCHANGED <<refCount, handed>>
      BY <1>0, <2>1, <2>3, Settle DEF Inside
    <2> QED
      BY <1>1, <2>2, <2>3 DEF CloseLifecycle
  <1>2. ASSUME CloseClaim(t) PROVE RefsInv'
    <2>1. call[t] = "claim"
      BY <1>2 DEF CloseClaim, In
    <2>2. CASE plat.closeStarted \/ plat.closeDone
      BY <1>0, <1>2, <2>1, <2>2, ReturnKeepsSum, Settle DEF CloseClaim
    <2>3. CASE ~(plat.closeStarted \/ plat.closeDone)
      <3>1. /\ call' = [call EXCEPT ![t] = "create"] /\ UNCHANGED <<pc, refCount, handed>>
            /\ DOMAIN plat' = FlagNames /\ plat'.closeStarted
        BY <1>0, <1>2, <2>3 DEF CloseClaim, Inside, FlagNames
      <3>2. \A u \in Threads : u # t => call'[u] = call[u]
        BY <1>0, <3>1
      <3>3. call'[t] = "create"
        BY <1>0, <3>1
      <3>4. RefsTypeOK'
        BY <3>1 DEF RefsInv, RefsTypeOK
      <3>5. StartsOnce' /\ ClosesOnce'
        BY <2>3, <3>1, <3>2, <3>3 DEF RefsInv, StartsOnce, ClosesOnce
      <3>6. \A u \in Threads : Held(u)' = Held(u)
        BY <2>1, <3>1, <3>2, <3>3 DEF Held, Live
      <3>7. RefsAccounted'
        BY <3>1, <3>6 DEF RefsInv, RefsAccounted, Threads, Workers
      <3> QED
        BY <3>4, <3>5, <3>7 DEF RefsInv
    <2> QED
      BY <2>2, <2>3
  <1>3. ASSUME CloseCreate(t) PROVE RefsInv'
    <2>1. /\ call[t] = "create" /\ refCount' = refCount + 2
          /\ pc' = [pc EXCEPT !["closer"] = "stopping"]
          /\ call' = [call EXCEPT ![t] = "unretain"] /\ UNCHANGED <<handed, plat>>
      BY <1>3 DEF CloseCreate, In
    <2>2. pc["closer"] = "off" /\ plat.closeStarted
      BY <2>1 DEF RefsInv, ClosesOnce
    <2>3. /\ \A u \in Threads : u # t => call'[u] = call[u] /\ call[u] # "create"
          /\ call'[t] = "unretain"
      BY <1>0, <2>1 DEF RefsInv, ClosesOnce
    <2>4. /\ \A u \in Threads : u # "closer" => pc'[u] = pc[u]
          /\ pc'["closer"] = "stopping"
      BY <2>1 DEF RefsInv, RefsTypeOK, Threads, Workers
    <2>5. RefsTypeOK'
      BY <2>1 DEF RefsInv, RefsTypeOK
    <2>6. StartsOnce' /\ ClosesOnce'
      BY <2>1, <2>2, <2>3, <2>4 DEF RefsInv, StartsOnce, ClosesOnce, Threads, Workers
    <2>7. \A u \in Threads :
            Held(u)' = Held(u) + (IF u = "closer" THEN 1 ELSE 0) + (IF u = t THEN 1 ELSE 0)
      BY <2>1, <2>2, <2>3, <2>4 DEF Held, Live, Threads, Workers
    <2>8. \A u \in Threads : Held(u) \in Int
      BY DEF Held
    <2>9. RefsAccounted'
      BY <1>0, <2>1, <2>7, <2>8 DEF RefsInv, RefsAccounted, Threads, Workers
    <2> QED
      BY <2>5, <2>6, <2>9 DEF RefsInv
  <1>4. ASSUME CloseUnretain(t) PROVE RefsInv'
    <2>1. /\ call[t] = "unretain" /\ call' = [call EXCEPT ![t] = "none"]
          /\ UNCHANGED <<pc, plat>>
          /\ refCount' \in Int /\ handed' \in Int
          /\ refCount' + handed' = refCount + handed - 1
      BY <1>0, <1>4 DEF CloseUnretain, In
    <2>2. (\A u \in Threads : u # t => call'[u] = call[u]) /\ call'[t] = "none"
      BY <1>0, <2>1
    <2>3. RefsTypeOK'
      BY <2>1 DEF RefsInv, RefsTypeOK
    <2>4. StartsOnce' /\ ClosesOnce'
      BY <2>1, <2>2 DEF RefsInv, StartsOnce, ClosesOnce
    <2>5. \A u \in Threads : Held(u)' = Held(u) - (IF u = t THEN 1 ELSE 0)
      BY <2>1, <2>2 DEF Held, Live
    <2>6. \A u \in Threads : Held(u) \in Int
      BY DEF Held
    <2>7. RefsAccounted'
      <3>1. t \in {"boot", "reactor", "waiter", "closer", "owner"}
        BY DEF Threads, Workers
      <3> DEFINE sum == Held("boot") + Held("reactor") + Held("waiter")
                        + Held("closer") + Held("owner")
      <3>2. sum \in Int
        BY <2>6 DEF Threads, Workers
      <3>3. refCount + handed = 1 + sum
        BY <1>0, <2>6 DEF RefsInv, RefsAccounted, Threads, Workers
      <3>4. refCount' + handed' = sum
        <4>1. refCount' \in Int /\ handed' \in Int
          BY <2>1
        <4>2. refCount' + handed' = refCount + handed - 1
          BY <2>1
        <4>3. refCount \in Int /\ handed \in Int
          BY <1>0
        <4> HIDE DEF sum
        <4>4. refCount + handed - 1 = sum
          BY <3>2, <3>3, <4>3
        <4> QED
          BY <4>2, <4>4
      <3> QED
        BY <2>5, <2>6, <3>1, <3>4 DEF RefsAccounted, Threads, Workers
    <2> QED
      BY <2>3, <2>4, <2>7 DEF RefsInv
  <1>5. ASSUME CloseCreateFails(t) PROVE RefsInv'
    <2>1. call[t] = "create" /\ call' = [call EXCEPT ![t] = "stop"] /\ UNCHANGED pc
      BY <1>5 DEF CloseCreateFails, In, Inside
    <2>2. UNCHANGED <<refCount, handed>> /\ DOMAIN plat' = FlagNames
          /\ (plat.closeStarted => plat'.closeStarted)
      BY <1>0, <1>5 DEF CloseCreateFails, sessionVars, FlagNames
    <2> QED
      BY <1>0, <2>1, <2>2, Settle
  <1>6. ASSUME CloseStop(t) \/ CloseWake(t) \/ CloseMark(t) PROVE RefsInv'
    <2>1. /\ call[t] \in {"stop", "wake", "mark"} /\ UNCHANGED <<pc, refCount, handed>>
          /\ \E label \in {"wake", "maybe", "post"} : call' = [call EXCEPT ![t] = label]
      BY <1>6 DEF CloseStop, CloseWake, CloseMark, In, Inside, sessionVars
    <2>2. DOMAIN plat' = FlagNames /\ (plat.closeStarted => plat'.closeStarted)
      BY <1>0, <1>6 DEF CloseStop, CloseWake, CloseMark, Woken, FlagNames
    <2> QED
      BY <1>0, <2>1, <2>2, Settle
  <1>7. ASSUME CloseMaybe(t) PROVE RefsInv'
    <2>1. call[t] = "maybe"
      BY <1>7 DEF CloseMaybe, In
    <2>2. DOMAIN plat' = FlagNames /\ (plat.closeStarted => plat'.closeStarted)
      BY <1>0, <1>7 DEF CloseMaybe, Claimed, FlagNames
    <2>3. CASE Claimable
      BY <1>0, <1>7, <2>1, <2>2, <2>3, Settle DEF CloseMaybe, Inside
    <2>4. CASE ~Claimable
      BY <1>0, <1>7, <2>1, <2>2, <2>4, ReturnKeepsSum, Settle DEF CloseMaybe
    <2> QED
      BY <2>3, <2>4
  <1>8. ASSUME ClosePost(t) PROVE RefsInv'
    <2>1. call[t] = "post" /\ UNCHANGED plat
      BY <1>8 DEF ClosePost, In
    <2>2. CASE Return(t)
      BY <1>0, <2>1, <2>2, ReturnKeepsSum, Settle
    <2>3. CASE Abandon(t) /\ UNCHANGED <<pc, refCount, handed>>
      BY <1>0, <2>1, <2>3, Settle DEF Abandon
    <2> QED
      BY <1>8, <2>2, <2>3 DEF ClosePost
  <1>9. ASSUME MarkAbandoned(t) PROVE RefsInv'
    <2>1. /\ call[t] = "abandon" /\ UNCHANGED <<pc, plat, refCount, handed>>
          /\ call' = [call EXCEPT ![t] = IF abandoned THEN "none" ELSE "lifecycle"]
      BY <1>9 DEF MarkAbandoned, In
    <2> QED
      BY <1>0, <2>1, Settle
  <1> QED
    BY <1>1, <1>2, <1>3, <1>4, <1>5, <1>6, <1>7, <1>8, <1>9 DEF BeginClose

\* Creating a worker that does not exist yet takes the reference it will hold.
LEMMA StartThreadRefs ==
  ASSUME RefsInv, NEW label, NEW thread \in {"reactor", "waiter"}, NEW first, NEW next,
         StartThread(label, thread, first, next),
         Busy(label), Busy(first), Busy(next), Onward("boot", label, next),
         pc[thread] = "off",
         thread = "reactor" => next \notin BeforeReactor,
         thread = "waiter" => next \notin BeforeWaiter
  PROVE  RefsInv'
  <1>1. /\ pc["boot"] = label /\ pc'["boot"] = next /\ pc'[thread] = first
        /\ \A u \in Threads : u \notin {"boot", thread} => pc'[u] = pc[u]
        /\ DOMAIN pc' = Threads
    BY DEF StartThread, At, RefsInv, RefsTypeOK, Threads, Workers
  <1>2. UNCHANGED <<call, plat, handed>> /\ refCount' = refCount + 1
    BY DEF StartThread, callVars
  <1>3. RefsTypeOK'
    BY <1>1, <1>2 DEF RefsInv, RefsTypeOK
  <1>4. StartsOnce' /\ ClosesOnce'
    BY <1>1, <1>2 DEF RefsInv, StartsOnce, ClosesOnce, Onward, Threads, Workers
  <1>5. \A u \in Threads : Held(u) \in Int
    BY DEF Held
  <1>6. \A u \in Threads : Held(u)' = Held(u) + (IF u = thread THEN 1 ELSE 0)
    BY <1>1, <1>2 DEF Held, Live, Busy, Threads, Workers
  <1>7. RefsAccounted'
    BY <1>2, <1>5, <1>6 DEF RefsInv, RefsTypeOK, RefsAccounted, Threads, Workers
  <1> QED
    BY <1>3, <1>4, <1>7 DEF RefsInv

\* What the flag values of the bootstrap and the workers have in common.
LEMMA FlagValues ==
  ASSUME RefsInv
  PROVE  /\ DOMAIN plat = FlagNames
         /\ DOMAIN Woken = FlagNames /\ (plat.closeStarted => Woken.closeStarted)
         /\ DOMAIN Released = FlagNames /\ (plat.closeStarted => Released.closeStarted)
         /\ \A flags : DOMAIN flags = FlagNames =>
              DOMAIN Reserved(flags) = FlagNames
              /\ (flags.closeStarted => Reserved(flags).closeStarted)
  BY DEF RefsInv, RefsTypeOK, Woken, Released, Reserved, FlagNames

\* bootstrap_worker, every way through it.
LEMMA BootRefs ==
  ASSUME RefsInv, Boot
  PROVE  RefsInv'
  <1>0. "boot" \in Threads /\ "boot" \in Workers
    BY DEF Threads, Workers
  <1>1. DOMAIN plat = FlagNames
    BY DEF RefsInv, RefsTypeOK
  <1> USE DEF Busy, Onward, BeforeReactor, BeforeWaiter
  <1>2. ASSUME BootSpawns PROVE RefsInv'
    BY <1>0, <1>1, <1>2, Move DEF BootSpawns, callVars, sessionVars
  <1>3. ASSUME BootSpawnFails PROVE RefsInv'
    <2>1. CASE FlagStep("boot", "spawn", plat, "failed")
      BY <1>0, <1>1, <2>1, FlagStepRefs
    <2>2. CASE PostStep("boot", "failed", "SPAWN_FAILED", "failedOutput")
      BY <1>0, <2>2, OtherStepRefs
    <2>3. CASE PostStep("boot", "failedOutput", "OUTPUT_CLOSED", "failedMark")
      BY <1>0, <2>3, OtherStepRefs
    <2>4. CASE MarkStep("boot", "failedMark", "CLOSING", "markClosed")
      BY <1>0, <2>4, OtherStepRefs
    <2> QED
      BY <1>3, <2>1, <2>2, <2>3, <2>4 DEF BootSpawnFails
  <1>4. ASSUME BootSetupFails PROVE RefsInv'
    <2>1. CASE PostStep("boot", "setupFailed", "SPAWN_FAILED", "failedMark")
      BY <1>0, <2>1, OtherStepRefs
    <2>2. CASE ~PostStep("boot", "setupFailed", "SPAWN_FAILED", "failedMark")
      BY <1>0, <1>4, <2>2, FlagValues, Move DEF BootSetupFails, callVars, sessionVars
    <2> QED
      BY <2>1, <2>2
  <1>5. ASSUME BootPublishes PROVE RefsInv'
    <2> DEFINE done == [plat EXCEPT !.published = TRUE]
    <2>1. DOMAIN done = FlagNames /\ (plat.closeStarted => done.closeStarted)
      BY <1>1 DEF FlagNames
    <2>2. FlagStep("boot", "setup", done, "check")
      BY <1>5 DEF BootPublishes
    <2> HIDE DEF done
    <2> QED
      BY <1>0, <2>1, <2>2, FlagStepRefs
  <1>6. ASSUME BootChecksClosing PROVE RefsInv'
    <2>1. CASE FlagStep("boot", "check", plat, "unstarted")
      BY <1>0, <1>1, <2>1, FlagStepRefs
    <2>2. CASE FlagStep("boot", "check", plat, "reactor")
      BY <1>0, <1>1, <2>2, FlagStepRefs
    <2> QED
      BY <1>6, <2>1, <2>2 DEF BootChecksClosing
  <1>7. ASSUME BootFinishesUnstarted PROVE RefsInv'
    <2> DEFINE done == [plat EXCEPT !.stopping = TRUE, !.reactorDone = TRUE,
                                    !.waiterDone = TRUE, !.closeDone = TRUE,
                                    !.outputClosed = TRUE, !.closedPosted = TRUE]
    <2>1. CASE StopStep("boot", "unstarted", "unstartedFlags")
      BY <1>0, <2>1, StopStepRefs
    <2>2. CASE FlagStep("boot", "unstartedFlags", done, "unstartedRelease")
      <3>1. DOMAIN done = FlagNames /\ (plat.closeStarted => done.closeStarted)
        BY <1>1 DEF FlagNames
      <3> HIDE DEF done
      <3> QED
        BY <1>0, <2>2, <3>1, FlagStepRefs
    <2>3. CASE FlagStep("boot", "unstartedRelease", Released, "unstartedAnswer")
      BY <1>0, <2>3, FlagValues, FlagStepRefs
    <2>4. CASE PostStep("boot", "unstartedAnswer", "SPAWN_FAILED", "unstartedMark")
      BY <1>0, <2>4, OtherStepRefs
    <2>5. CASE MarkStep("boot", "unstartedMark", "CLOSED", "unstartedOutput")
      BY <1>0, <2>5, OtherStepRefs
    <2>6. CASE PostStep("boot", "unstartedOutput", "OUTPUT_CLOSED", "postClosed")
      BY <1>0, <2>6, OtherStepRefs
    <2> QED
      BY <1>7, <2>1, <2>2, <2>3, <2>4, <2>5, <2>6 DEF BootFinishesUnstarted
  <1>8. ASSUME BootReactorFails PROVE RefsInv'
    <2> DEFINE done == [plat EXCEPT !.stopping = TRUE, !.reactorDone = TRUE,
                                    !.waiterDone = TRUE, !.outputClosed = TRUE,
                                    !.closedPosted = @ \/ ~plat.closeStarted]
    <2>1. CASE ThreadFails("reactor", "reactor", "noReactor")
      BY <1>0, <1>1, <2>1, FlagStepRefs DEF ThreadFails
    <2>2. CASE MarkStep("boot", "noReactor", "CLOSING", "noReactorStop")
      BY <1>0, <2>2, OtherStepRefs
    <2>3. CASE StopStep("boot", "noReactorStop", "noReactorRelease")
      BY <1>0, <2>3, StopStepRefs
    <2>4. CASE FlagStep("boot", "noReactorRelease", Released, "noReactorFlags")
      BY <1>0, <2>4, FlagValues, FlagStepRefs
    <2>5. CASE FlagStep("boot", "noReactorFlags", Reserved(done),
                        IF plat.closeStarted THEN "lateAnswer" ELSE "noReactorAnswer")
      <3>1. DOMAIN done = FlagNames /\ (plat.closeStarted => done.closeStarted)
        BY <1>1 DEF FlagNames
      <3> HIDE DEF done
      <3>2. /\ DOMAIN Reserved(done) = FlagNames
            /\ plat.closeStarted => Reserved(done).closeStarted
        BY <3>1, FlagValues
      <3>3. CASE plat.closeStarted
        BY <1>0, <2>5, <3>2, <3>3, FlagStepRefs
      <3>4. CASE ~plat.closeStarted
        BY <1>0, <2>5, <3>2, <3>4, FlagStepRefs
      <3> QED
        BY <3>3, <3>4
    <2>6. CASE PostStep("boot", "noReactorAnswer", "SPAWN_FAILED", "noReactorOutput")
      BY <1>0, <2>6, OtherStepRefs
    <2>7. CASE PostStep("boot", "noReactorOutput", "OUTPUT_CLOSED", "markClosed")
      BY <1>0, <2>7, OtherStepRefs
    <2>8. CASE PostStep("boot", "lateAnswer", "SPAWN_FAILED", "lateOutput")
      BY <1>0, <2>8, OtherStepRefs
    <2>9. CASE PostStep("boot", "lateOutput", "OUTPUT_CLOSED", "claim")
      BY <1>0, <2>9, OtherStepRefs
    <2> QED
      BY <1>8, <2>1, <2>2, <2>3, <2>4, <2>5, <2>6, <2>7, <2>8, <2>9 DEF BootReactorFails
  <1>9. ASSUME BootWaiterFails PROVE RefsInv'
    <2> DEFINE done == [plat EXCEPT !.stopping = TRUE, !.waiterDone = TRUE]
    <2>1. CASE ThreadFails("waiter", "waiter", "noWaiter")
      BY <1>0, <1>1, <2>1, FlagStepRefs DEF ThreadFails
    <2>2. CASE FlagStep("boot", "noWaiter", Reserved(done), "noWaiterStop")
      <3>1. DOMAIN done = FlagNames /\ (plat.closeStarted => done.closeStarted)
        BY <1>1 DEF FlagNames
      <3> HIDE DEF done
      <3>2. /\ DOMAIN Reserved(done) = FlagNames
            /\ plat.closeStarted => Reserved(done).closeStarted
        BY <3>1, FlagValues
      <3> QED
        BY <1>0, <2>2, <3>2, FlagStepRefs
    <2>3. CASE StopStep("boot", "noWaiterStop", "noWaiterWake")
      BY <1>0, <2>3, StopStepRefs
    <2>4. CASE FlagStep("boot", "noWaiterWake", Woken, "noWaiterRelease")
      BY <1>0, <2>4, FlagValues, FlagStepRefs
    <2>5. CASE FlagStep("boot", "noWaiterRelease", Released, "noWaiterMark")
      BY <1>0, <2>5, FlagValues, FlagStepRefs
    <2>6. CASE MarkStep("boot", "noWaiterMark", "CLOSING", "cancelAnswer")
      BY <1>0, <2>6, OtherStepRefs
    <2> QED
      BY <1>9, <2>1, <2>2, <2>3, <2>4, <2>5, <2>6 DEF BootWaiterFails
  <1>10. ASSUME BootRuns PROVE RefsInv'
    BY <1>0, <1>10, OtherStepRefs DEF BootRuns
  <1>11. ASSUME BootCancelled PROVE RefsInv'
    <2> DEFINE done == [plat EXCEPT !.stopping = TRUE]
    <2>1. CASE FlagStep("boot", "run", plat, "cancelled")
      BY <1>0, <1>1, <2>1, FlagStepRefs
    <2>2. CASE FlagStep("boot", "cancelled", Reserved(done), "cancelStop")
      <3>1. DOMAIN done = FlagNames /\ (plat.closeStarted => done.closeStarted)
        BY <1>1 DEF FlagNames
      <3> HIDE DEF done
      <3>2. /\ DOMAIN Reserved(done) = FlagNames
            /\ plat.closeStarted => Reserved(done).closeStarted
        BY <3>1, FlagValues
      <3> QED
        BY <1>0, <2>2, <3>2, FlagStepRefs
    <2>3. CASE StopStep("boot", "cancelStop", "cancelWake")
      BY <1>0, <2>3, StopStepRefs
    <2>4. CASE FlagStep("boot", "cancelWake", Woken, "cancelAnswer")
      BY <1>0, <2>4, FlagValues, FlagStepRefs
    <2>5. CASE PostStep("boot", "cancelAnswer", "SPAWN_FAILED", "claim")
      BY <1>0, <2>5, OtherStepRefs
    <2> QED
      BY <1>11, <2>1, <2>2, <2>3, <2>4, <2>5 DEF BootCancelled
  <1>12. ASSUME StartThread("reactor", "reactor", "top", "waiter") PROVE RefsInv'
    <2>1. pc["reactor"] = "off"
      BY <1>12 DEF StartThread, At, RefsInv, StartsOnce
    <2> QED
      BY <1>12, <2>1, StartThreadRefs
  <1>13. ASSUME StartThread("waiter", "waiter", "wait", "run") PROVE RefsInv'
    <2>1. pc["waiter"] = "off"
      BY <1>13 DEF StartThread, At, RefsInv, StartsOnce
    <2> QED
      BY <1>13, <2>1, StartThreadRefs
  <1>14. ASSUME PostStep("boot", "spawned", "SPAWNED", "release") PROVE RefsInv'
    BY <1>0, <1>14, OtherStepRefs
  <1>15. ASSUME Ending("boot") PROVE RefsInv'
    BY <1>0, <1>15, EndingRefs
  <1> QED
    BY <1>2, <1>3, <1>4, <1>5, <1>6, <1>7, <1>8, <1>9, <1>10, <1>11, <1>12, <1>13,
       <1>14, <1>15 DEF Boot

\* reactor_worker, with the terminal as its environment.
LEMMA ReactorRefs ==
  ASSUME RefsInv, Reactor \/ ReactorSeesTerminal \/ ReactorLeaves
  PROVE  RefsInv'
  <1>0. "reactor" \in Threads /\ "reactor" \in Workers
    BY DEF Threads, Workers
  <1>1. DOMAIN plat = FlagNames
    BY DEF RefsInv, RefsTypeOK
  <1> USE DEF Busy, Onward
  <1>2. ASSUME NEW label, Busy(label),
               FlagStep("reactor", label, plat, "output")
                 \/ FlagStep("reactor", label, plat, "poll")
                 \/ FlagStep("reactor", label, plat, "drain")
                 \/ FlagStep("reactor", label, plat, "check")
                 \/ FlagStep("reactor", label, plat, "work")
                 \/ FlagStep("reactor", label, plat, "top")
        PROVE  RefsInv'
    BY <1>0, <1>1, <1>2, FlagStepRefs
  <1>3. ASSUME ReactorLoops PROVE RefsInv'
    <2> DEFINE drained == [plat EXCEPT !.wake = FALSE]
    <2>1. CASE FlagStep("reactor", "drain", drained, "check")
      <3>1. DOMAIN drained = FlagNames /\ (plat.closeStarted => drained.closeStarted)
        BY <1>1 DEF FlagNames
      <3> HIDE DEF drained
      <3> QED
        BY <1>0, <2>1, <3>1, FlagStepRefs
    <2>2. CASE ~FlagStep("reactor", "drain", drained, "check")
      BY <1>2, <1>3, <2>2 DEF ReactorLoops
    <2> QED
      BY <2>1, <2>2
  <1>4. ASSUME ReactorSeesTerminal PROVE RefsInv'
    BY <1>2, <1>4 DEF ReactorSeesTerminal
  <1>5. ASSUME ReactorLeaves PROVE RefsInv'
    <2>1. CASE FlagStep("reactor", "work", plat, "output")
      BY <1>2, <2>1
    <2>2. CASE PostStep("reactor", "work", "ASYNC_ERROR", "output")
      BY <1>0, <2>2, OtherStepRefs
    <2>3. CASE PostStep("reactor", "work", "OUTPUT", "output")
      BY <1>0, <2>3, OtherStepRefs
    <2> QED
      BY <1>5, <2>1, <2>2, <2>3 DEF ReactorLeaves
  <1>6. ASSUME ReactorEnds PROVE RefsInv'
    <2> DEFINE done == [plat EXCEPT !.reactorDone = TRUE]
    <2>1. CASE At("reactor", "output") /\ ~PostStep("reactor", "input", "INPUT_CLOSED", "done")
               /\ ~FlagStep("reactor", "done", done, "claim") /\ ~Ending("reactor")
      <3>1. /\ At("reactor", "output") /\ Go("reactor", "input")
            /\ plat' = [plat EXCEPT !.outputClosed = TRUE]
        BY <1>6, <2>1 DEF ReactorEnds
      <3>2. /\ UNCHANGED <<refCount, handed>>
            /\ call' = call \/ call' = [call EXCEPT !["reactor"] = "abandon"]
        BY <1>6, <2>1 DEF ReactorEnds, PostEvent, Abandon, callVars
      <3>3. DOMAIN plat' = FlagNames /\ (plat.closeStarted => plat'.closeStarted)
        BY <1>1, <3>1 DEF FlagNames
      <3> QED
        BY <1>0, <3>1, <3>2, <3>3, Move
    <2>2. CASE PostStep("reactor", "input", "INPUT_CLOSED", "done")
      BY <1>0, <2>2, OtherStepRefs
    <2>3. CASE FlagStep("reactor", "done", done, "claim")
      <3>1. DOMAIN done = FlagNames /\ (plat.closeStarted => done.closeStarted)
        BY <1>1 DEF FlagNames
      <3> HIDE DEF done
      <3> QED
        BY <1>0, <2>3, <3>1, FlagStepRefs
    <2>4. CASE Ending("reactor")
      BY <1>0, <2>4, EndingRefs
    <2> QED
      BY <1>6, <2>1, <2>2, <2>3, <2>4 DEF ReactorEnds
  <1> QED
    BY <1>3, <1>4, <1>5, <1>6 DEF Reactor

\* waiter_worker
LEMMA WaiterRefs ==
  ASSUME RefsInv, Waiter
  PROVE  RefsInv'
  <1>0. "waiter" \in Threads /\ "waiter" \in Workers
    BY DEF Threads, Workers
  <1>1. DOMAIN plat = FlagNames
    BY DEF RefsInv, RefsTypeOK
  <1> USE DEF Busy, Onward
  <1>2. ASSUME WaiterReads PROVE RefsInv'
    BY <1>0, <1>1, <1>2, Move DEF WaiterReads, callVars, sessionVars
  <1>3. ASSUME WaiterRecords PROVE RefsInv'
    <2> DEFINE done == [plat EXCEPT !.processExited = TRUE]
    <2>1. CASE StopStep("waiter", "stop", "record")
      BY <1>0, <2>1, StopStepRefs
    <2>2. CASE FlagStep("waiter", "record", done, "unregister")
      <3>1. DOMAIN done = FlagNames /\ (plat.closeStarted => done.closeStarted)
        BY <1>1 DEF FlagNames
      <3> HIDE DEF done
      <3> QED
        BY <1>0, <2>2, <3>1, FlagStepRefs
    <2>3. CASE FlagStep("waiter", "unregister", Released, "wake")
      BY <1>0, <2>3, FlagValues, FlagStepRefs
    <2>4. CASE FlagStep("waiter", "wake", Woken, "post")
      BY <1>0, <2>4, FlagValues, FlagStepRefs
    <2> QED
      BY <1>3, <2>1, <2>2, <2>3, <2>4 DEF WaiterRecords
  <1>4. ASSUME WaiterEnds PROVE RefsInv'
    <2> DEFINE done == [plat EXCEPT !.waiterDone = TRUE]
    <2>1. CASE PostStep("waiter", "post",
                        IF report = "exit" THEN "PROCESS_EXIT" ELSE "ASYNC_ERROR", "done")
      <3>1. CASE report = "exit"
        BY <1>0, <2>1, <3>1, OtherStepRefs
      <3>2. CASE report # "exit"
        BY <1>0, <2>1, <3>2, OtherStepRefs
      <3> QED
        BY <3>1, <3>2
    <2>2. CASE FlagStep("waiter", "done", done, "claim")
      <3>1. DOMAIN done = FlagNames /\ (plat.closeStarted => done.closeStarted)
        BY <1>1 DEF FlagNames
      <3> HIDE DEF done
      <3> QED
        BY <1>0, <2>2, <3>1, FlagStepRefs
    <2>3. CASE Ending("waiter")
      BY <1>0, <2>3, EndingRefs
    <2> QED
      BY <1>4, <2>1, <2>2, <2>3 DEF WaiterEnds
  <1> QED
    BY <1>2, <1>3, <1>4 DEF Waiter

\* close_worker
LEMMA CloserRefs ==
  ASSUME RefsInv, Closer
  PROVE  RefsInv'
  <1>0. "closer" \in Threads /\ "closer" \in Workers
    BY DEF Threads, Workers
  <1>1. DOMAIN plat = FlagNames
    BY DEF RefsInv, RefsTypeOK
  <1> USE DEF Busy, Onward
  <1> DEFINE stopped == [plat EXCEPT !.stopping = TRUE]
             done == [plat EXCEPT !.closeDone = TRUE]
  <1>2. /\ DOMAIN stopped = FlagNames /\ (plat.closeStarted => stopped.closeStarted)
        /\ DOMAIN done = FlagNames /\ (plat.closeStarted => done.closeStarted)
    BY <1>1 DEF FlagNames
  <1>3. CASE FlagStep("closer", "stopping", stopped, "stop")
    <2> HIDE DEF stopped
    <2> QED
      BY <1>0, <1>2, <1>3, FlagStepRefs
  <1>4. CASE StopStep("closer", "stop", "wake")
    BY <1>0, <1>4, StopStepRefs
  <1>5. CASE FlagStep("closer", "wake", Woken, "done")
    BY <1>0, <1>5, FlagValues, FlagStepRefs
  <1>6. CASE FlagStep("closer", "done", done, "claim")
    <2> HIDE DEF done
    <2> QED
      BY <1>0, <1>2, <1>6, FlagStepRefs
  <1>7. CASE Ending("closer")
    BY <1>0, <1>7, EndingRefs
  <1> QED
    BY <1>3, <1>4, <1>5, <1>6, <1>7 DEF Closer

\* The program, its supervisor and the isolate: close() is the only one of
\* their steps that touches the count, and it hands Dart's reference back.
LEMMA OutsideRefs ==
  ASSUME RefsInv,
         \/ ProgramExits \/ SupervisorDies \/ Reap
         \/ DartReceives \/ UserCloses \/ DriverCloses \/ CloseFinishes
         \/ UserKills \/ UserKillWakes \/ IsolateExits \/ FinalizerAtExit
         \/ WrapperCollected
  PROVE  RefsInv'
  <1>0. /\ "owner" \in Threads
        /\ DOMAIN plat = FlagNames /\ DOMAIN call = Threads
        /\ refCount \in Int /\ handed \in Int
    BY DEF RefsInv, RefsTypeOK, Threads, Workers
  <1> USE DEF Busy, Onward
  <1>1. ASSUME ProgramExits \/ SupervisorDies \/ Reap \/ IsolateExits PROVE RefsInv'
    <2>1. UNCHANGED <<pc, call, plat, refCount, handed>>
      BY <1>1 DEF ProgramExits, SupervisorDies, Reap, IsolateExits, processFrame,
                  callVars, sessionVars
    <2> QED
      BY <1>0, <2>1, Settle
  <1>2. ASSUME DartReceives \/ UserCloses \/ DriverCloses PROVE RefsInv'
    <2>1. /\ call["owner"] = "none" /\ UNCHANGED <<pc, plat, refCount, handed>>
          /\ call' = call \/ call' = [call EXCEPT !["owner"] = "lifecycle"]
      BY <1>2 DEF DartReceives, UserCloses, DriverCloses, Close, CanRun, At, OwnerCalls,
                  sessionVars
    <2> QED
      BY <1>0, <2>1, Settle
  <1>3. ASSUME CloseFinishes PROVE RefsInv'
    BY <1>0, <1>3, Settle DEF CloseFinishes, callVars
  <1>4. ASSUME UserKills PROVE RefsInv'
    BY <1>0, <1>4, StopStepRefs DEF UserKills
  <1>5. ASSUME UserKillWakes PROVE RefsInv'
    BY <1>0, <1>5, FlagValues, FlagStepRefs DEF UserKillWakes
  <1>6. ASSUME FinalizerAtExit \/ WrapperCollected PROVE RefsInv'
    <2>1. RunFinalizer
      BY <1>6 DEF FinalizerAtExit, WrapperCollected
    <2>2. /\ call["owner"] = "none" /\ UNCHANGED <<pc, plat, refCount, handed>>
          /\ call' = call \/ call' = [call EXCEPT !["owner"] = "abandon"]
      BY <2>1 DEF RunFinalizer, At, Abandon, callVars
    <2> QED
      BY <1>0, <2>2, Settle
  <1> QED
    BY <1>1, <1>2, <1>3, <1>4, <1>5, <1>6

\* Every step of the session keeps the invariant.
LEMMA NextRefs == RefsInv /\ [Next]_vars => RefsInv'
  <1> SUFFICES ASSUME RefsInv, [Next]_vars PROVE RefsInv'
    OBVIOUS
  <1>1. CASE UNCHANGED vars
    <2>1. UNCHANGED <<pc, call, plat, refCount, handed>>
      BY <1>1 DEF vars, callVars, sessionVars
    <2>2. "owner" \in Threads /\ RefsTypeOK
      BY DEF RefsInv, Threads
    <2> QED
      BY <2>1, <2>2, Settle DEF RefsTypeOK
  <1>2. CASE Next
    BY <1>2, BootRefs, ReactorRefs, WaiterRefs, CloserRefs, BeginCloseRefs, OutsideRefs
       DEF Next
  <1> QED
    BY <1>1, <1>2

\* The reference count of a session is always the Dart-owned reference, until
\* it is released, plus one for every thread that still uses the session:
\* pty_session_retain and pty_session_release balance on every path of
\* bootstrap_worker, of the workers and of pty_session_begin_close, whichever
\* faults occur.
THEOREM ReferencesAreAccounted == Spec => []RefsAccounted
  <1>1. RefsInv => RefsAccounted
    BY DEF RefsInv
  <1> QED
    BY <1>1, InitRefs, NextRefs, PTL DEF Spec
=============================================================================
