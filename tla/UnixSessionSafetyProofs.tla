------------------------ MODULE UnixSessionSafetyProofs ------------------------
(***************************************************************************)
(* A closed Unix session leaves no program behind, and no signal goes to a *)
(* process id that was given back.                                         *)
(*                                                                         *)
(* First what a step of a thread's body does, as tables over its labels:   *)
(* where it goes (Edge), the flags it raises (Raises), the lifecycle it    *)
(* stores (Marks), where it stops the program (Kills) and the event it     *)
(* posts (Posts).  Lemma BodySteps reads them off the actions, once; the   *)
(* invariants are then proved about the tables.                            *)
(***************************************************************************)
EXTENDS UnixSessionProofs

\* How every worker ends.
EndEdge(l, n) ==
  \/ l = "claim" /\ n = "markClosed" /\ Claimable
  \/ l = "claim" /\ n = "release" /\ ~Claimable
  \/ l = "markClosed" /\ n = "postClosed"
  \/ l = "postClosed" /\ n = "release"
  \/ l = "release" /\ n = "end"

BootEdge(l, n) ==
  \/ l = "spawn" /\ n \in {"setup", "failed"}
  \/ l = "failed" /\ n = "failedOutput"
  \/ l = "failedOutput" /\ n = "failedMark"
  \/ l = "failedMark" /\ n = "markClosed"
  \/ l = "setup" /\ n \in {"setupFailed", "check"}
  \/ l = "setupFailed" /\ n = "failedMark"
  \/ l = "check" /\ n = "unstarted" /\ (plat.stopping \/ lifecycle = "CLOSING")
  \/ l = "check" /\ n = "reactor" /\ ~(plat.stopping \/ lifecycle = "CLOSING")
  \/ l = "unstarted" /\ n = "unstartedFlags"
  \/ l = "unstartedFlags" /\ n = "unstartedRelease"
  \/ l = "unstartedRelease" /\ n = "unstartedAnswer"
  \/ l = "unstartedAnswer" /\ n = "unstartedMark"
  \/ l = "unstartedMark" /\ n = "unstartedOutput"
  \/ l = "unstartedOutput" /\ n = "postClosed"
  \/ l = "reactor" /\ n \in {"noReactor", "waiter"}
  \/ l = "noReactor" /\ n = "noReactorStop"
  \/ l = "noReactorStop" /\ n = "noReactorRelease"
  \/ l = "noReactorRelease" /\ n = "noReactorFlags"
  \/ l = "noReactorFlags" /\ n = "lateAnswer" /\ plat.closeStarted
  \/ l = "noReactorFlags" /\ n = "noReactorAnswer" /\ ~plat.closeStarted
  \/ l = "noReactorAnswer" /\ n = "noReactorOutput"
  \/ l = "noReactorOutput" /\ n = "markClosed"
  \/ l = "lateAnswer" /\ n = "lateOutput"
  \/ l = "lateOutput" /\ n = "claim"
  \/ l = "waiter" /\ n = "noWaiter" /\ "waiter" \in Faults
  \/ l = "waiter" /\ n = "run"
  \/ l = "noWaiter" /\ n = "noWaiterStop"
  \/ l = "noWaiterStop" /\ n = "noWaiterWake"
  \/ l = "noWaiterWake" /\ n = "noWaiterRelease"
  \/ l = "noWaiterRelease" /\ n = "noWaiterMark"
  \/ l = "noWaiterMark" /\ n = "cancelAnswer"
  \/ l = "run" /\ n = "spawned" /\ lifecycle = "STARTING"
  \/ l = "run" /\ n = "cancelled" /\ lifecycle # "STARTING"
  \/ l = "cancelled" /\ n = "cancelStop"
  \/ l = "cancelStop" /\ n = "cancelWake"
  \/ l = "cancelWake" /\ n = "cancelAnswer"
  \/ l = "cancelAnswer" /\ n = "claim"
  \/ l = "spawned" /\ n = "release"
  \/ EndEdge(l, n)

ReactorEdge(l, n) ==
  \/ l = "top" /\ n = "output" /\ plat.stopping
  \/ l = "top" /\ n = "poll"
  \/ l = "poll" /\ n \in {"drain", "check"}
  \/ l = "drain" /\ n = "check"
  \/ l = "check" /\ n = "output" /\ plat.stopping
  \/ l = "check" /\ n = "work"
  \/ l = "work" /\ n \in {"top", "output"}
  \/ l = "output" /\ n = "input"
  \/ l = "input" /\ n = "done"
  \/ l = "done" /\ n = "claim"
  \/ EndEdge(l, n)

WaiterEdge(l, n) ==
  \/ l = "wait" /\ n = "record" /\ program \in {"exited", "reaped"} /\ report' = "exit"
  \/ l = "wait" /\ n = "stop" /\ supervisor = "dead" /\ report' = "lost"
  \/ l = "stop" /\ n = "record"
  \/ l = "record" /\ n = "unregister"
  \/ l = "unregister" /\ n = "wake"
  \/ l = "wake" /\ n = "post"
  \/ l = "post" /\ n = "done"
  \/ l = "done" /\ n = "claim"
  \/ EndEdge(l, n)

CloserEdge(l, n) ==
  \/ l = "stopping" /\ n = "stop"
  \/ l = "stop" /\ n = "wake"
  \/ l = "wake" /\ n = "done"
  \/ l = "done" /\ n = "claim"
  \/ EndEdge(l, n)

OwnerEdge(l, n) == (l = "idle" /\ n = "wake") \/ (l = "wake" /\ n = "idle")

Edge(t, l, n) ==
  \/ t = "boot" /\ BootEdge(l, n)
  \/ t = "reactor" /\ ReactorEdge(l, n)
  \/ t = "waiter" /\ WaiterEdge(l, n)
  \/ t = "closer" /\ CloserEdge(l, n)
  \/ t = "owner" /\ OwnerEdge(l, n)

\* The flags a step raises, but for "wake".
Reserves == IF plat.closeStarted THEN {} ELSE {"closeStarted", "closeDone"}
BootRaises(l, n) ==
  CASE l = "setup" /\ n = "check" -> {"published"}
    [] l = "setup" /\ n # "check" -> {"released"}
    [] l = "unstartedFlags" ->
         {"stopping", "reactorDone", "waiterDone", "closeDone", "outputClosed", "closedPosted"}
    [] l \in {"unstartedRelease", "noReactorRelease", "noWaiterRelease"} -> {"released"}
    [] l = "noReactorFlags" -> {"stopping", "reactorDone", "waiterDone", "outputClosed"} \cup Reserves
                                 \cup (IF plat.closeStarted THEN {} ELSE {"closedPosted"})
    [] l = "noWaiter" -> {"stopping", "waiterDone"} \cup Reserves
    [] l = "cancelled" -> {"stopping"} \cup Reserves
    [] l = "claim" /\ n = "markClosed" -> {"closedPosted"}
    [] OTHER -> {}
Raises(t, l, n) ==
  CASE t = "boot"                                         -> BootRaises(l, n)
    [] t # "boot" /\ l = "claim" /\ n = "markClosed"      -> {"closedPosted"}
    [] t = "reactor" /\ l = "output"                      -> {"outputClosed"}
    [] t = "reactor" /\ l = "done"                        -> {"reactorDone"}
    [] t = "waiter" /\ l = "record"                       -> {"processExited"}
    [] t = "waiter" /\ l = "unregister"                   -> {"released"}
    [] t = "waiter" /\ l = "done"                         -> {"waiterDone"}
    [] t = "closer" /\ l = "stopping"                     -> {"stopping"}
    [] t = "closer" /\ l = "done"                         -> {"closeDone"}
    [] OTHER                                              -> {}

\* What a step stores in the lifecycle.
Marks(t, l, n) ==
  CASE l = "markClosed" \/ (t = "boot" /\ l = "unstartedMark")              -> "CLOSED"
    [] t = "boot" /\ l \in {"failedMark", "noReactor", "noWaiterMark"}        -> "CLOSING"
    [] t = "boot" /\ l = "run" /\ n = "spawned"                               -> "RUNNING"
    [] OTHER                                                                  -> lifecycle

\* Where the program is stopped, unless its exit is known.
Kills(t, l) ==
  \/ t = "boot" /\ l \in {"unstarted", "noReactorStop", "noWaiterStop", "cancelStop"}
  \/ t \in {"waiter", "closer"} /\ l = "stop"
  \/ t = "owner" /\ l = "idle"
Processes(t, l, n) ==
  IF Kills(t, l) THEN StopProcess
  ELSE /\ UNCHANGED <<supervisor, stray>>
       /\ program' = CASE t = "boot" /\ l = "spawn" /\ n = "setup" -> "running"
                       [] t = "boot" /\ l = "setup" /\ n = "setupFailed" ->
                            IF program = "running" THEN "exited" ELSE program
                       [] OTHER -> program
       /\ report' = report \/ (t = "waiter" /\ l = "wait")

\* The event a step posts.
Posts(t, l, n) ==
  CASE t = "boot" /\ l \in {"failed", "setupFailed", "unstartedAnswer", "noReactorAnswer",
                            "lateAnswer", "cancelAnswer"}               -> "SPAWN_FAILED"
    [] t = "boot" /\ l \in {"failedOutput", "unstartedOutput", "noReactorOutput", "lateOutput"}
                                                                        -> "OUTPUT_CLOSED"
    [] t = "boot" /\ l = "spawned"                                      -> "SPAWNED"
    [] t = "reactor" /\ l = "input"                                     -> "INPUT_CLOSED"
    [] t = "reactor" /\ l = "output" /\ ~plat.outputClosed              -> "OUTPUT_CLOSED"
    [] t = "waiter" /\ l = "post"      -> IF report = "exit" THEN "PROCESS_EXIT" ELSE "ASYNC_ERROR"
    [] t \in Workers /\ l = "postClosed"                                -> "SESSION_CLOSED"
    [] OTHER                                                            -> "none"
Speaks(t, l, n) ==
  /\ UNCHANGED <<portOpen, dart>>
  /\ IF t = "reactor" /\ l = "work"
     THEN \/ UNCHANGED <<log, abandoned, callVars>>
          \/ n = "output" /\ "io" \in Faults /\ PostEvent(t, "ASYNC_ERROR")
          \/ n = "output" /\ (~portOpen \/ abandoned) /\ PostEvent(t, "OUTPUT")
     ELSE IF Posts(t, l, n) = "none" THEN UNCHANGED <<log, abandoned, callVars>>
                                     ELSE PostEvent(t, Posts(t, l, n))

\* The thread a step creates, and with it one more reference.
Creates(t, l, n) ==
  CASE t = "boot" /\ l = "reactor" /\ n = "waiter" -> "reactor"
    [] t = "boot" /\ l = "waiter" /\ n = "run"     -> "waiter"
    [] OTHER                                       -> "none"
First(u) == IF u = "reactor" THEN "top" ELSE "wait"

\* A step of a thread's body.
Body(t, l, n) ==
  /\ t \in Threads /\ At(t, l) /\ Edge(t, l, n)
  /\ DOMAIN pc' = Threads /\ pc'[t] = n
  /\ \A u \in Threads \ {t} : pc'[u] = IF u = Creates(t, l, n) THEN First(u) ELSE pc[u]
  /\ plat' \in [FlagNames -> BOOLEAN]
  /\ \A f \in FlagNames \ {"wake"} : plat'[f] <=> (plat[f] \/ f \in Raises(t, l, n))
  /\ lifecycle' = Marks(t, l, n)
  /\ Processes(t, l, n) /\ Speaks(t, l, n) /\ handed' = handed

-----------------------------------------------------------------------------
(* The inductive invariant                                                 *)

\* Until the waiter is created, nobody but the bootstrap touches the program.
NoWaiterLabels == {"noWaiter", "noWaiterStop", "noWaiterWake", "noWaiterRelease", "noWaiterMark"}
AloneLabels == {"spawn", "setup", "check", "reactor", "waiter",
                "unstarted", "unstartedFlags", "unstartedRelease",
                "noReactor", "noReactorStop", "noReactorRelease",
                "noWaiter", "noWaiterStop", "noWaiterWake", "noWaiterRelease"}
\* The bootstrap has stopped the program.
StoppedLabels == {"unstartedFlags", "unstartedRelease", "noReactorRelease",
                  "noWaiterWake", "noWaiterRelease"}
\* The bootstrap has given the program up, or never had one.
OverLabels == {"failed", "failedOutput", "failedMark", "setupFailed",
               "unstartedAnswer", "unstartedMark", "unstartedOutput",
               "noReactorFlags", "noReactorAnswer", "noReactorOutput"}

\* The supervisor was told to reap the program, or there never was one.
Over == plat.released \/ (program = "none" /\ pc["boot"] # "spawn")

ProgramOK ==
  /\ plat.released \/ plat.processExited => program # "running"
  /\ pc["boot"] = "spawn" => program = "none"
  /\ pc["boot"] \in StoppedLabels => program # "running"

BootOK ==
  /\ pc["boot"] \in AloneLabels => /\ pc["waiter"] = "off"
                                   /\ ~plat.released /\ ~plat.processExited
  /\ pc["boot"] \in OverLabels => Over
  /\ pc["boot"] = "noReactorFlags" => plat.released

WaiterOK ==
  /\ pc["waiter"] \in {"wait", "stop", "record", "unregister"} => ~plat.released
  /\ pc["waiter"] \in {"wait", "stop", "record"} => ~plat.processExited
  /\ pc["waiter"] \in {"record", "unregister"} => program # "running"
  /\ pc["waiter"] \notin {"off", "wait", "stop", "record", "unregister"} => plat.released

\* With a waiter, SESSION_CLOSED is claimed only when the program is over.
ClosedOK ==
  /\ pc["boot"] \notin NoWaiterLabels
  /\ plat.waiterDone => plat.released \/ plat.closedPosted
  /\ \A t \in Threads : pc[t] = "markClosed" \/ call[t] = "mark" => Over
  /\ lifecycle = "CLOSED" => Over

\* Only a released program is reaped, as long as its supervisor lives.
ReapedOK ==
  /\ supervisor = "up" \/ plat.released
  /\ program = "reaped" => plat.released
  /\ ~stray

SafeInv ==
  /\ plat \in [FlagNames -> BOOLEAN]
  /\ ProgramOK /\ BootOK /\ WaiterOK
  /\ "waiter" \notin Faults => ClosedOK
  /\ "supervisor" \notin Faults => ReapedOK

-----------------------------------------------------------------------------
(* What the steps of a body do                                             *)

\* A step of a body that only sets flags.
LEMMA FlagBody ==
  ASSUME RefsInv, NEW t \in Threads, NEW l, NEW n, NEW flags,
         FlagStep(t, l, flags, n), Edge(t, l, n),
         flags \in [FlagNames -> BOOLEAN],
         \A f \in FlagNames \ {"wake"} : flags[f] <=> (plat[f] \/ f \in Raises(t, l, n)),
         Marks(t, l, n) = lifecycle, ~Kills(t, l), Posts(t, l, n) = "none",
         Creates(t, l, n) = "none",
         l # "spawn", l # "setup" \/ n # "setupFailed"
  PROVE  Body(t, l, n)
  <1>1. At(t, l) /\ Go(t, n) /\ plat' = flags
        /\ UNCHANGED <<callVars, sessionVars, processVars, dartVars>>
    BY DEF FlagStep
  <1>2. /\ DOMAIN pc' = Threads /\ pc'[t] = n
        /\ \A u \in Threads \ {t} : pc'[u] = pc[u] /\ u # "none"
    BY <1>1 DEF Go, RefsInv, RefsTypeOK, Threads, Workers
  <1>3. Processes(t, l, n)
    BY <1>1 DEF Processes, processVars
  <1>4. Speaks(t, l, n)
    BY <1>1 DEF Speaks, dartVars, sessionVars, callVars
  <1> QED
    BY <1>1, <1>2, <1>3, <1>4 DEF Body, sessionVars

\* A step of a body that only posts an event.
LEMMA PostBody ==
  ASSUME RefsInv, plat \in [FlagNames -> BOOLEAN],
         NEW t \in Threads, NEW l, NEW n, NEW event,
         PostStep(t, l, event, n), Edge(t, l, n), Raises(t, l, n) = {},
         Marks(t, l, n) = lifecycle, ~Kills(t, l), Creates(t, l, n) = "none",
         l # "spawn", l # "setup",
         \/ ~(t = "reactor" /\ l = "work") /\ Posts(t, l, n) = event /\ event # "none"
         \/ t = "reactor" /\ l = "work" /\ n = "output" /\ event = "ASYNC_ERROR" /\ "io" \in Faults
         \/ t = "reactor" /\ l = "work" /\ n = "output" /\ event = "OUTPUT"
            /\ (~portOpen \/ abandoned)
  PROVE  Body(t, l, n)
  <1>1. At(t, l) /\ Go(t, n) /\ PostEvent(t, event) /\ UNCHANGED <<lifecycle, plat, processVars>>
    BY DEF PostStep
  <1>2. /\ DOMAIN pc' = Threads /\ pc'[t] = n
        /\ \A u \in Threads \ {t} : pc'[u] = pc[u] /\ u # "none"
    BY <1>1 DEF Go, RefsInv, RefsTypeOK, Threads, Workers
  <1>3. Processes(t, l, n)
    BY <1>1 DEF Processes, processVars
  <1>4. UNCHANGED <<portOpen, dart, handed>>
    BY <1>1 DEF PostEvent
  <1>5. Speaks(t, l, n)
    BY <1>1, <1>4 DEF Speaks
  <1> QED
    BY <1>1, <1>2, <1>3, <1>4, <1>5 DEF Body

\* A step of a body that only marks the lifecycle.
LEMMA MarkBody ==
  ASSUME RefsInv, plat \in [FlagNames -> BOOLEAN],
         NEW t \in Threads, NEW l, NEW n, NEW value,
         MarkStep(t, l, value, n), Edge(t, l, n), Raises(t, l, n) = {},
         Marks(t, l, n) = value, ~Kills(t, l), Posts(t, l, n) = "none",
         Creates(t, l, n) = "none", l # "spawn", l # "setup"
  PROVE  Body(t, l, n)
  <1>1. /\ At(t, l) /\ Go(t, n) /\ lifecycle' = value
        /\ UNCHANGED <<callVars, abandoned, refCount, handed, plat, processVars, dartVars>>
    BY DEF MarkStep
  <1>2. /\ DOMAIN pc' = Threads /\ pc'[t] = n
        /\ \A u \in Threads \ {t} : pc'[u] = pc[u] /\ u # "none"
    BY <1>1 DEF Go, RefsInv, RefsTypeOK, Threads, Workers
  <1>3. Processes(t, l, n)
    BY <1>1 DEF Processes, processVars
  <1>4. Speaks(t, l, n)
    BY <1>1 DEF Speaks, dartVars, callVars
  <1> QED
    BY <1>1, <1>2, <1>3, <1>4 DEF Body

\* A step of a body that only stops the program.
LEMMA StopBody ==
  ASSUME RefsInv, plat \in [FlagNames -> BOOLEAN],
         NEW t \in Threads, NEW l, NEW n,
         StopStep(t, l, n), Edge(t, l, n), Raises(t, l, n) = {},
         Marks(t, l, n) = lifecycle, Kills(t, l), Posts(t, l, n) = "none",
         Creates(t, l, n) = "none"
  PROVE  Body(t, l, n)
  <1>1. /\ At(t, l) /\ Go(t, n) /\ StopProcess
        /\ UNCHANGED <<callVars, sessionVars, plat, dartVars>>
    BY DEF StopStep
  <1>2. /\ DOMAIN pc' = Threads /\ pc'[t] = n
        /\ \A u \in Threads \ {t} : pc'[u] = pc[u] /\ u # "none"
    BY <1>1 DEF Go, RefsInv, RefsTypeOK, Threads, Workers
  <1>3. Processes(t, l, n)
    BY <1>1 DEF Processes
  <1>4. Speaks(t, l, n)
    BY <1>1 DEF Speaks, dartVars, sessionVars, callVars
  <1> QED
    BY <1>1, <1>2, <1>3, <1>4 DEF Body, sessionVars

\* How every worker ends.
LEMMA EndingBody ==
  ASSUME RefsInv, plat \in [FlagNames -> BOOLEAN], NEW t \in Workers, Ending(t)
  PROVE  \E l, n : Body(t, l, n)
  <1>0. t \in Threads /\ t # "owner"
    BY DEF Threads, Workers
  <1>1. \A l, n : EndEdge(l, n) => Edge(t, l, n)
    BY DEF Edge, BootEdge, ReactorEdge, WaiterEdge, CloserEdge, Workers
  <1>2. ASSUME FlagStep(t, "claim", Claimed, "markClosed"), Claimable
        PROVE  Body(t, "claim", "markClosed")
    <2>1. Edge(t, "claim", "markClosed")
      BY <1>1, <1>2 DEF EndEdge
    <2>2. Claimed \in [FlagNames -> BOOLEAN]
      BY DEF Claimed, FlagNames
    <2>3. Raises(t, "claim", "markClosed") = {"closedPosted"}
      BY <1>0 DEF Raises, BootRaises
    <2>4. \A f \in FlagNames \ {"wake"} : Claimed[f] <=> (plat[f] \/ f = "closedPosted")
      BY DEF Claimed, FlagNames
    <2> QED
      BY <1>0, <1>2, <2>1, <2>2, <2>3, <2>4, FlagBody DEF Marks, Kills, Posts, Creates
  <1>3. ASSUME FlagStep(t, "claim", plat, "release"), ~Claimable
        PROVE  Body(t, "claim", "release")
    <2>1. Edge(t, "claim", "release")
      BY <1>1, <1>3 DEF EndEdge
    <2>2. Raises(t, "claim", "release") = {}
      BY <1>0 DEF Raises, BootRaises
    <2> QED
      BY <1>0, <1>3, <2>1, <2>2, FlagBody DEF Marks, Kills, Posts, Creates
  <1>4. ASSUME MarkStep(t, "markClosed", "CLOSED", "postClosed")
        PROVE  Body(t, "markClosed", "postClosed")
    <2>1. Edge(t, "markClosed", "postClosed")
      BY <1>1 DEF EndEdge
    <2>2. Raises(t, "markClosed", "postClosed") = {}
      BY DEF Raises, BootRaises
    <2> QED
      BY <1>0, <1>4, <2>1, <2>2, MarkBody DEF Marks, Kills, Posts, Creates
  <1>5. ASSUME PostStep(t, "postClosed", "SESSION_CLOSED", "release")
        PROVE  Body(t, "postClosed", "release")
    <2>1. Edge(t, "postClosed", "release")
      BY <1>1 DEF EndEdge
    <2>2. Raises(t, "postClosed", "release") = {}
      BY DEF Raises, BootRaises
    <2> QED
      BY <1>0, <1>5, <2>1, <2>2, PostBody DEF Marks, Kills, Posts, Creates
  <1>6. ASSUME Finish(t) PROVE Body(t, "release", "end")
    <2>1. Edge(t, "release", "end")
      BY <1>1 DEF EndEdge
    <2>2. Raises(t, "release", "end") = {}
      BY DEF Raises, BootRaises
    <2>3. /\ DOMAIN pc' = Threads /\ pc'[t] = "end"
          /\ \A u \in Threads \ {t} : pc'[u] = pc[u] /\ u # "none"
      BY <1>6 DEF Finish, Go, RefsInv, RefsTypeOK, Threads, Workers
    <2>4. Processes(t, "release", "end")
      BY <1>6 DEF Processes, processVars, Finish, Kills
    <2>5. Speaks(t, "release", "end")
      BY <1>6 DEF Speaks, dartVars, callVars, Finish, Posts
    <2> QED
      BY <1>0, <1>6, <2>1, <2>2, <2>3, <2>4, <2>5 DEF Body, Finish, Creates, Marks
  <1> QED
    BY <1>2, <1>3, <1>4, <1>5, <1>6 DEF Ending, ClaimClosed

\* The values the bootstrap gives the flags.
LEMMA BootFlags ==
  ASSUME plat \in [FlagNames -> BOOLEAN]
  PROVE  /\ Woken \in [FlagNames -> BOOLEAN] /\ Released \in [FlagNames -> BOOLEAN]
         /\ \A f \in FlagNames \ {"wake"} : Woken[f] = plat[f]
         /\ \A f \in FlagNames : Released[f] <=> (plat[f] \/ f = "released")
  BY DEF Woken, Released, FlagNames

\* Reserving the close.
LEMMA ReservedFlags ==
  ASSUME plat \in [FlagNames -> BOOLEAN], NEW done \in [FlagNames -> BOOLEAN],
         done.closeStarted = plat.closeStarted
  PROVE  /\ Reserved(done) \in [FlagNames -> BOOLEAN]
         /\ \A f \in FlagNames : Reserved(done)[f] <=> (done[f] \/ f \in Reserves)
  BY DEF Reserved, Reserves, FlagNames

\* bootstrap_worker
LEMMA BootBody ==
  ASSUME RefsInv, plat \in [FlagNames -> BOOLEAN], Boot
  PROVE  \E l, n : Body("boot", l, n)
  <1>0. "boot" \in Threads /\ "boot" \in Workers
    BY DEF Threads, Workers
  <1>1. \A f \in FlagNames \ {"wake"} : plat[f] \in BOOLEAN
    OBVIOUS
  <1>2. ASSUME BootSpawns PROVE \E l, n : Body("boot", l, n)
    <2>1. /\ DOMAIN pc' = Threads /\ pc'["boot"] = "setup"
          /\ \A u \in Threads \ {"boot"} : pc'[u] = pc[u] /\ u # "none"
      BY <1>2 DEF BootSpawns, Go, RefsInv, RefsTypeOK, Threads, Workers
    <2>2. Processes("boot", "spawn", "setup")
      BY <1>2 DEF Processes, Kills, BootSpawns
    <2>3. Speaks("boot", "spawn", "setup")
      BY <1>2 DEF Speaks, dartVars, callVars, sessionVars, BootSpawns, Posts
    <2>4. Raises("boot", "spawn", "setup") = {} /\ Marks("boot", "spawn", "setup") = lifecycle
      BY DEF Raises, BootRaises, Marks
    <2> QED
      BY <1>0, <1>2, <2>1, <2>2, <2>3, <2>4
         DEF Body, BootSpawns, Edge, BootEdge, Creates, sessionVars
  <1>3. ASSUME BootSpawnFails PROVE \E l, n : Body("boot", l, n)
    <2>1. ASSUME FlagStep("boot", "spawn", plat, "failed") PROVE Body("boot", "spawn", "failed")
      <3>1. /\ DOMAIN pc' = Threads /\ pc'["boot"] = "failed"
            /\ \A u \in Threads \ {"boot"} : pc'[u] = pc[u] /\ u # "none"
        BY <2>1 DEF FlagStep, Go, RefsInv, RefsTypeOK, Threads, Workers
      <3>2. Processes("boot", "spawn", "failed")
        BY <2>1 DEF Processes, Kills, FlagStep, processVars
      <3>3. Speaks("boot", "spawn", "failed")
        BY <2>1 DEF Speaks, dartVars, callVars, sessionVars, FlagStep, Posts
      <3>4. Raises("boot", "spawn", "failed") = {} /\ Marks("boot", "spawn", "failed") = lifecycle
        BY DEF Raises, BootRaises, Marks
      <3> QED
        BY <1>0, <2>1, <3>1, <3>2, <3>3, <3>4
           DEF Body, FlagStep, Edge, BootEdge, Creates, sessionVars
    <2>2. CASE PostStep("boot", "failed", "SPAWN_FAILED", "failedOutput")
      BY <1>0, <2>2, PostBody
         DEF Edge, BootEdge, Raises, BootRaises, Marks, Kills, Posts, Creates
    <2>3. CASE PostStep("boot", "failedOutput", "OUTPUT_CLOSED", "failedMark")
      BY <1>0, <2>3, PostBody
         DEF Edge, BootEdge, Raises, BootRaises, Marks, Kills, Posts, Creates
    <2>4. CASE MarkStep("boot", "failedMark", "CLOSING", "markClosed")
      BY <1>0, <2>4, MarkBody
         DEF Edge, BootEdge, Raises, BootRaises, Marks, Kills, Posts, Creates
    <2> QED
      BY <1>3, <2>1, <2>2, <2>3, <2>4 DEF BootSpawnFails
  <1>4. ASSUME BootSetupFails PROVE \E l, n : Body("boot", l, n)
    <2>1. ASSUME ~PostStep("boot", "setupFailed", "SPAWN_FAILED", "failedMark")
          PROVE  Body("boot", "setup", "setupFailed")
      <3>0. /\ At("boot", "setup") /\ Go("boot", "setupFailed")
            /\ program' = IF program = "running" THEN "exited" ELSE program
            /\ plat' = Released
            /\ UNCHANGED <<callVars, sessionVars, report, supervisor, stray, dartVars>>
        BY <1>4, <2>1 DEF BootSetupFails
      <3>1. /\ DOMAIN pc' = Threads /\ pc'["boot"] = "setupFailed"
            /\ \A u \in Threads \ {"boot"} : pc'[u] = pc[u] /\ u # "none"
        BY <3>0 DEF Go, RefsInv, RefsTypeOK, Threads, Workers
      <3>2. Processes("boot", "setup", "setupFailed")
        BY <3>0 DEF Processes, Kills
      <3>3. Speaks("boot", "setup", "setupFailed")
        BY <3>0 DEF Speaks, dartVars, callVars, sessionVars, Posts
      <3>4. Raises("boot", "setup", "setupFailed") = {"released"}
            /\ Marks("boot", "setup", "setupFailed") = lifecycle
        BY DEF Raises, BootRaises, Marks
      <3> QED
        BY <1>0, <3>0, <3>1, <3>2, <3>3, <3>4, BootFlags
           DEF Body, Edge, BootEdge, Creates, sessionVars
    <2>2. CASE PostStep("boot", "setupFailed", "SPAWN_FAILED", "failedMark")
      BY <1>0, <2>2, PostBody
         DEF Edge, BootEdge, Raises, BootRaises, Marks, Kills, Posts, Creates
    <2> QED
      BY <2>1, <2>2
  <1>5. ASSUME BootPublishes PROVE \E l, n : Body("boot", l, n)
    <2> DEFINE done == [plat EXCEPT !.published = TRUE]
    <2>1. /\ done \in [FlagNames -> BOOLEAN]
          /\ \A f \in FlagNames : done[f] <=> (plat[f] \/ f = "published")
      BY DEF FlagNames
    <2>2. FlagStep("boot", "setup", done, "check")
      BY <1>5 DEF BootPublishes
    <2> HIDE DEF done
    <2> QED
      BY <1>0, <2>1, <2>2, FlagBody
         DEF Edge, BootEdge, Raises, BootRaises, Marks, Kills, Posts, Creates
  <1>6. ASSUME BootChecksClosing PROVE \E l, n : Body("boot", l, n)
    <2>1. CASE plat.stopping \/ lifecycle = "CLOSING"
      BY <1>0, <1>6, <2>1, FlagBody
         DEF BootChecksClosing, Edge, BootEdge, Raises, BootRaises, Marks, Kills, Posts, Creates
    <2>2. CASE ~(plat.stopping \/ lifecycle = "CLOSING")
      BY <1>0, <1>6, <2>2, FlagBody
         DEF BootChecksClosing, Edge, BootEdge, Raises, BootRaises, Marks, Kills, Posts, Creates
    <2> QED
      BY <2>1, <2>2
  <1>7. ASSUME BootFinishesUnstarted PROVE \E l, n : Body("boot", l, n)
    <2>1. CASE StopStep("boot", "unstarted", "unstartedFlags")
      BY <1>0, <2>1, StopBody
         DEF Edge, BootEdge, Raises, BootRaises, Marks, Kills, Posts, Creates
    <2> DEFINE done == [plat EXCEPT !.stopping = TRUE, !.reactorDone = TRUE,
                                    !.waiterDone = TRUE, !.closeDone = TRUE,
                                    !.outputClosed = TRUE, !.closedPosted = TRUE]
    <2>2. CASE FlagStep("boot", "unstartedFlags", done, "unstartedRelease")
      <3>1. /\ done \in [FlagNames -> BOOLEAN]
            /\ \A f \in FlagNames : done[f] <=> (plat[f] \/
                 f \in {"stopping", "reactorDone", "waiterDone", "closeDone", "outputClosed", "closedPosted"})
        BY DEF FlagNames
      <3> HIDE DEF done
      <3> QED
        BY <1>0, <2>2, <3>1, FlagBody
           DEF Edge, BootEdge, Raises, BootRaises, Marks, Kills, Posts, Creates
    <2>3. CASE FlagStep("boot", "unstartedRelease", Released, "unstartedAnswer")
      BY <1>0, <2>3, BootFlags, FlagBody
         DEF Edge, BootEdge, Raises, BootRaises, Marks, Kills, Posts, Creates
    <2>4. CASE PostStep("boot", "unstartedAnswer", "SPAWN_FAILED", "unstartedMark")
      BY <1>0, <2>4, PostBody
         DEF Edge, BootEdge, Raises, BootRaises, Marks, Kills, Posts, Creates
    <2>5. CASE MarkStep("boot", "unstartedMark", "CLOSED", "unstartedOutput")
      BY <1>0, <2>5, MarkBody
         DEF Edge, BootEdge, Raises, BootRaises, Marks, Kills, Posts, Creates
    <2>6. CASE PostStep("boot", "unstartedOutput", "OUTPUT_CLOSED", "postClosed")
      BY <1>0, <2>6, PostBody
         DEF Edge, BootEdge, Raises, BootRaises, Marks, Kills, Posts, Creates
    <2> QED
      BY <1>7, <2>1, <2>2, <2>3, <2>4, <2>5, <2>6 DEF BootFinishesUnstarted
  <1>8. ASSUME BootReactorFails PROVE \E l, n : Body("boot", l, n)
    <2>1. CASE ThreadFails("reactor", "reactor", "noReactor")
      BY <1>0, <2>1, FlagBody
         DEF ThreadFails, Edge, BootEdge, Raises, BootRaises, Marks, Kills, Posts, Creates
    <2>2. CASE MarkStep("boot", "noReactor", "CLOSING", "noReactorStop")
      BY <1>0, <2>2, MarkBody
         DEF Edge, BootEdge, Raises, BootRaises, Marks, Kills, Posts, Creates
    <2>3. CASE StopStep("boot", "noReactorStop", "noReactorRelease")
      BY <1>0, <2>3, StopBody
         DEF Edge, BootEdge, Raises, BootRaises, Marks, Kills, Posts, Creates
    <2>4. CASE FlagStep("boot", "noReactorRelease", Released, "noReactorFlags")
      BY <1>0, <2>4, BootFlags, FlagBody
         DEF Edge, BootEdge, Raises, BootRaises, Marks, Kills, Posts, Creates
    <2> DEFINE done == [plat EXCEPT !.stopping = TRUE, !.reactorDone = TRUE,
                                    !.waiterDone = TRUE, !.outputClosed = TRUE,
                                    !.closedPosted = @ \/ ~plat.closeStarted]
    <2>5. CASE FlagStep("boot", "noReactorFlags", Reserved(done),
                        IF plat.closeStarted THEN "lateAnswer" ELSE "noReactorAnswer")
      <3>1. /\ done \in [FlagNames -> BOOLEAN]
            /\ \A f \in FlagNames : done[f] <=>
                 \/ plat[f]
                 \/ f \in {"stopping", "reactorDone", "waiterDone", "outputClosed"}
                 \/ f = "closedPosted" /\ ~plat.closeStarted
            /\ done.closeStarted = plat.closeStarted
        BY DEF FlagNames
      <3> HIDE DEF done
      <3>2. /\ Reserved(done) \in [FlagNames -> BOOLEAN]
            /\ \A f \in FlagNames : Reserved(done)[f] <=> (done[f] \/ f \in Reserves)
        BY <3>1, ReservedFlags
      <3>3. \A n : \A f \in FlagNames :
              Reserved(done)[f] <=> (plat[f] \/ f \in Raises("boot", "noReactorFlags", n))
        BY <3>1, <3>2 DEF Raises, BootRaises
      <3>4. CASE plat.closeStarted
        BY <1>0, <2>5, <3>2, <3>3, <3>4, FlagBody
           DEF Edge, BootEdge, Marks, Kills, Posts, Creates
      <3>5. CASE ~plat.closeStarted
        BY <1>0, <2>5, <3>2, <3>3, <3>5, FlagBody
           DEF Edge, BootEdge, Marks, Kills, Posts, Creates
      <3> QED
        BY <3>4, <3>5
    <2>6. CASE PostStep("boot", "noReactorAnswer", "SPAWN_FAILED", "noReactorOutput")
      BY <1>0, <2>6, PostBody
         DEF Edge, BootEdge, Raises, BootRaises, Marks, Kills, Posts, Creates
    <2>7. CASE PostStep("boot", "noReactorOutput", "OUTPUT_CLOSED", "markClosed")
      BY <1>0, <2>7, PostBody
         DEF Edge, BootEdge, Raises, BootRaises, Marks, Kills, Posts, Creates
    <2>8. CASE PostStep("boot", "lateAnswer", "SPAWN_FAILED", "lateOutput")
      BY <1>0, <2>8, PostBody
         DEF Edge, BootEdge, Raises, BootRaises, Marks, Kills, Posts, Creates
    <2>9. CASE PostStep("boot", "lateOutput", "OUTPUT_CLOSED", "claim")
      BY <1>0, <2>9, PostBody
         DEF Edge, BootEdge, Raises, BootRaises, Marks, Kills, Posts, Creates
    <2> QED
      BY <1>8, <2>1, <2>2, <2>3, <2>4, <2>5, <2>6, <2>7, <2>8, <2>9 DEF BootReactorFails
  <1>9. ASSUME BootWaiterFails PROVE \E l, n : Body("boot", l, n)
    <2> DEFINE done == [plat EXCEPT !.stopping = TRUE, !.waiterDone = TRUE]
    <2>1. CASE ThreadFails("waiter", "waiter", "noWaiter")
      BY <1>0, <2>1, FlagBody
         DEF ThreadFails, Edge, BootEdge, Raises, BootRaises, Marks, Kills, Posts, Creates
    <2>2. CASE FlagStep("boot", "noWaiter", Reserved(done), "noWaiterStop")
      <3>1. /\ done \in [FlagNames -> BOOLEAN]
            /\ \A f \in FlagNames : done[f] <=> (plat[f] \/ f \in {"stopping", "waiterDone"})
            /\ done.closeStarted = plat.closeStarted
        BY DEF FlagNames
      <3> HIDE DEF done
      <3>2. /\ Reserved(done) \in [FlagNames -> BOOLEAN]
            /\ \A f \in FlagNames : Reserved(done)[f] <=> (done[f] \/ f \in Reserves)
        BY <3>1, ReservedFlags
      <3>3. \A f \in FlagNames :
              Reserved(done)[f] <=> (plat[f] \/ f \in Raises("boot", "noWaiter", "noWaiterStop"))
        BY <3>1, <3>2 DEF Raises, BootRaises
      <3> QED
        BY <1>0, <2>2, <3>2, <3>3, FlagBody DEF Edge, BootEdge, Marks, Kills, Posts, Creates
    <2>3. CASE StopStep("boot", "noWaiterStop", "noWaiterWake")
      BY <1>0, <2>3, StopBody
         DEF Edge, BootEdge, Raises, BootRaises, Marks, Kills, Posts, Creates
    <2>4. CASE FlagStep("boot", "noWaiterWake", Woken, "noWaiterRelease")
      BY <1>0, <2>4, BootFlags, FlagBody
         DEF Edge, BootEdge, Raises, BootRaises, Marks, Kills, Posts, Creates
    <2>5. CASE FlagStep("boot", "noWaiterRelease", Released, "noWaiterMark")
      BY <1>0, <2>5, BootFlags, FlagBody
         DEF Edge, BootEdge, Raises, BootRaises, Marks, Kills, Posts, Creates
    <2>6. CASE MarkStep("boot", "noWaiterMark", "CLOSING", "cancelAnswer")
      BY <1>0, <2>6, MarkBody
         DEF Edge, BootEdge, Raises, BootRaises, Marks, Kills, Posts, Creates
    <2> QED
      BY <1>9, <2>1, <2>2, <2>3, <2>4, <2>5, <2>6 DEF BootWaiterFails
  <1>10. ASSUME BootRuns PROVE \E l, n : Body("boot", l, n)
    BY <1>0, <1>10, MarkBody
       DEF BootRuns, Edge, BootEdge, Raises, BootRaises, Marks, Kills, Posts, Creates
  <1>11. ASSUME BootCancelled PROVE \E l, n : Body("boot", l, n)
    <2> DEFINE done == [plat EXCEPT !.stopping = TRUE]
    <2>1. CASE FlagStep("boot", "run", plat, "cancelled") /\ lifecycle # "STARTING"
      BY <1>0, <2>1, BootFlags, FlagBody
         DEF Edge, BootEdge, Raises, BootRaises, Marks, Kills, Posts, Creates
    <2>2. CASE FlagStep("boot", "cancelled", Reserved(done), "cancelStop")
      <3>1. /\ done \in [FlagNames -> BOOLEAN]
            /\ \A f \in FlagNames : done[f] <=> (plat[f] \/ f \in {"stopping"})
            /\ done.closeStarted = plat.closeStarted
        BY DEF FlagNames
      <3> HIDE DEF done
      <3>2. /\ Reserved(done) \in [FlagNames -> BOOLEAN]
            /\ \A f \in FlagNames : Reserved(done)[f] <=> (done[f] \/ f \in Reserves)
        BY <3>1, ReservedFlags
      <3>3. \A f \in FlagNames :
              Reserved(done)[f] <=> (plat[f] \/ f \in Raises("boot", "cancelled", "cancelStop"))
        BY <3>1, <3>2 DEF Raises, BootRaises
      <3> QED
        BY <1>0, <2>2, <3>2, <3>3, FlagBody DEF Edge, BootEdge, Marks, Kills, Posts, Creates
    <2>3. CASE StopStep("boot", "cancelStop", "cancelWake")
      BY <1>0, <2>3, StopBody
         DEF Edge, BootEdge, Raises, BootRaises, Marks, Kills, Posts, Creates
    <2>4. CASE FlagStep("boot", "cancelWake", Woken, "cancelAnswer")
      BY <1>0, <2>4, BootFlags, FlagBody
         DEF Edge, BootEdge, Raises, BootRaises, Marks, Kills, Posts, Creates
    <2>5. CASE PostStep("boot", "cancelAnswer", "SPAWN_FAILED", "claim")
      BY <1>0, <2>5, PostBody
         DEF Edge, BootEdge, Raises, BootRaises, Marks, Kills, Posts, Creates
    <2> QED
      BY <1>11, <2>1, <2>2, <2>3, <2>4, <2>5 DEF BootCancelled
  <1>12. ASSUME StartThread("reactor", "reactor", "top", "waiter")
        PROVE  \E l, n : Body("boot", l, n)
    <2>1. /\ DOMAIN pc' = Threads /\ pc'["boot"] = "waiter" /\ pc'["reactor"] = "top"
          /\ \A u \in Threads \ {"boot", "reactor"} : pc'[u] = pc[u]
      BY <1>12 DEF StartThread, RefsInv, RefsTypeOK, Threads, Workers
    <2>2. Processes("boot", "reactor", "waiter")
      BY <1>12 DEF Processes, Kills, StartThread, processVars
    <2>3. Speaks("boot", "reactor", "waiter")
      BY <1>12 DEF Speaks, dartVars, callVars, StartThread, Posts
    <2>4. Raises("boot", "reactor", "waiter") = {} /\ Marks("boot", "reactor", "waiter") = lifecycle
          /\ Creates("boot", "reactor", "waiter") = "reactor" /\ First("reactor") = "top"
      BY DEF Raises, BootRaises, Marks, Creates, First
    <2>5. At("boot", "reactor") /\ Edge("boot", "reactor", "waiter") /\ UNCHANGED <<plat, lifecycle, handed>>
      BY <1>12 DEF StartThread, Edge, BootEdge
    <2> QED
      BY <1>0, <2>1, <2>2, <2>3, <2>4, <2>5 DEF Body
  <1>13. ASSUME StartThread("waiter", "waiter", "wait", "run")
        PROVE  \E l, n : Body("boot", l, n)
    <2>1. /\ DOMAIN pc' = Threads /\ pc'["boot"] = "run" /\ pc'["waiter"] = "wait"
          /\ \A u \in Threads \ {"boot", "waiter"} : pc'[u] = pc[u]
      BY <1>13 DEF StartThread, RefsInv, RefsTypeOK, Threads, Workers
    <2>2. Processes("boot", "waiter", "run")
      BY <1>13 DEF Processes, Kills, StartThread, processVars
    <2>3. Speaks("boot", "waiter", "run")
      BY <1>13 DEF Speaks, dartVars, callVars, StartThread, Posts
    <2>4. Raises("boot", "waiter", "run") = {} /\ Marks("boot", "waiter", "run") = lifecycle
          /\ Creates("boot", "waiter", "run") = "waiter" /\ First("waiter") = "wait"
      BY DEF Raises, BootRaises, Marks, Creates, First
    <2>5. At("boot", "waiter") /\ Edge("boot", "waiter", "run") /\ UNCHANGED <<plat, lifecycle, handed>>
      BY <1>13 DEF StartThread, Edge, BootEdge
    <2> QED
      BY <1>0, <2>1, <2>2, <2>3, <2>4, <2>5 DEF Body
  <1>14. ASSUME PostStep("boot", "spawned", "SPAWNED", "release")
        PROVE  \E l, n : Body("boot", l, n)
    BY <1>0, <1>14, PostBody
       DEF Edge, BootEdge, Raises, BootRaises, Marks, Kills, Posts, Creates
  <1>15. ASSUME Ending("boot") PROVE \E l, n : Body("boot", l, n)
    BY <1>0, <1>15, EndingBody
  <1> QED
    BY <1>2, <1>3, <1>4, <1>5, <1>6, <1>7, <1>8, <1>9, <1>10, <1>11, <1>12, <1>13, <1>14, <1>15
       DEF Boot

\* reactor_worker, with the terminal as its environment.
LEMMA ReactorBody ==
  ASSUME RefsInv, plat \in [FlagNames -> BOOLEAN], Reactor \/ ReactorSeesTerminal \/ ReactorLeaves
  PROVE  \E l, n : Body("reactor", l, n)
  <1>0. "reactor" \in Threads /\ "reactor" \in Workers
    BY DEF Threads, Workers
  <1>1. CASE FlagStep("reactor", "top", plat, "output") /\ plat.stopping
    BY <1>0, <1>1, BootFlags, FlagBody
       DEF Edge, ReactorEdge, Raises, Marks, Kills, Posts, Creates
  <1>2. CASE FlagStep("reactor", "top", plat, "poll")
    BY <1>0, <1>2, BootFlags, FlagBody
       DEF Edge, ReactorEdge, Raises, Marks, Kills, Posts, Creates
  <1>3. CASE FlagStep("reactor", "poll", plat, "drain")
    BY <1>0, <1>3, BootFlags, FlagBody
       DEF Edge, ReactorEdge, Raises, Marks, Kills, Posts, Creates
  <1>4. CASE FlagStep("reactor", "drain", [plat EXCEPT !.wake = FALSE], "check")
    <2> DEFINE done == [plat EXCEPT !.wake = FALSE]
    <2>1. done \in [FlagNames -> BOOLEAN] /\ \A f \in FlagNames \ {"wake"} : done[f] <=> plat[f]
      BY DEF FlagNames
    <2>2. FlagStep("reactor", "drain", done, "check")
      BY <1>4
    <2> HIDE DEF done
    <2> QED
      BY <1>0, <2>1, <2>2, FlagBody
         DEF Edge, ReactorEdge, Raises, Marks, Kills, Posts, Creates
  <1>5. CASE FlagStep("reactor", "check", plat, "output") /\ plat.stopping
    BY <1>0, <1>5, BootFlags, FlagBody
       DEF Edge, ReactorEdge, Raises, Marks, Kills, Posts, Creates
  <1>6. CASE FlagStep("reactor", "check", plat, "work")
    BY <1>0, <1>6, BootFlags, FlagBody
       DEF Edge, ReactorEdge, Raises, Marks, Kills, Posts, Creates
  <1>7. CASE FlagStep("reactor", "work", plat, "top")
    BY <1>0, <1>7, BootFlags, FlagBody
       DEF Edge, ReactorEdge, Raises, Marks, Kills, Posts, Creates
  <1>8. CASE FlagStep("reactor", "poll", plat, "check")
    BY <1>0, <1>8, BootFlags, FlagBody
       DEF Edge, ReactorEdge, Raises, Marks, Kills, Posts, Creates
  <1>9. CASE FlagStep("reactor", "work", plat, "output")
    BY <1>0, <1>9, BootFlags, FlagBody
       DEF Edge, ReactorEdge, Raises, Marks, Kills, Posts, Creates
  <1>10. CASE PostStep("reactor", "work", "ASYNC_ERROR", "output") /\ "io" \in Faults
    BY <1>0, <1>10, PostBody
       DEF Edge, ReactorEdge, Raises, Marks, Kills, Posts, Creates
  <1>11. CASE PostStep("reactor", "work", "OUTPUT", "output") /\ (~portOpen \/ abandoned)
    BY <1>0, <1>11, PostBody
       DEF Edge, ReactorEdge, Raises, Marks, Kills, Posts, Creates
  <1>12. CASE /\ At("reactor", "output") /\ Go("reactor", "input")
              /\ plat' = [plat EXCEPT !.outputClosed = TRUE]
              /\ IF plat.outputClosed
                   THEN UNCHANGED <<callVars, abandoned, refCount, handed, dartVars>>
                   ELSE PostEvent("reactor", "OUTPUT_CLOSED")
              /\ UNCHANGED <<lifecycle, processVars>>
    <2>1. /\ DOMAIN pc' = Threads /\ pc'["reactor"] = "input"
          /\ \A u \in Threads \ {"reactor"} : pc'[u] = pc[u] /\ u # "none"
      BY <1>12 DEF Go, RefsInv, RefsTypeOK, Threads, Workers
    <2>2. Processes("reactor", "output", "input")
      BY <1>12 DEF Processes, Kills, processVars
    <2>3. Speaks("reactor", "output", "input") /\ handed' = handed
      <3>1. CASE plat.outputClosed
        BY <1>12, <3>1 DEF Speaks, Posts, callVars, dartVars
      <3>2. CASE ~plat.outputClosed
        BY <1>12, <3>2 DEF Speaks, Posts, PostEvent
      <3> QED
        BY <3>1, <3>2
    <2>4. /\ plat' \in [FlagNames -> BOOLEAN]
          /\ \A f \in FlagNames : plat'[f] <=> (plat[f] \/ f = "outputClosed")
      BY <1>12 DEF FlagNames
    <2>5. /\ Raises("reactor", "output", "input") = {"outputClosed"}
          /\ Marks("reactor", "output", "input") = lifecycle
          /\ Creates("reactor", "output", "input") = "none"
          /\ Edge("reactor", "output", "input")
      BY DEF Raises, Marks, Creates, Edge, ReactorEdge
    <2> QED
      BY <1>0, <1>12, <2>1, <2>2, <2>3, <2>4, <2>5 DEF Body
  <1>13. CASE PostStep("reactor", "input", "INPUT_CLOSED", "done")
    BY <1>0, <1>13, PostBody
       DEF Edge, ReactorEdge, Raises, Marks, Kills, Posts, Creates
  <1>14. CASE FlagStep("reactor", "done", [plat EXCEPT !.reactorDone = TRUE], "claim")
    <2> DEFINE done == [plat EXCEPT !.reactorDone = TRUE]
    <2>1. done \in [FlagNames -> BOOLEAN] /\ \A f \in FlagNames : done[f] <=> (plat[f] \/ f = "reactorDone")
      BY DEF FlagNames
    <2>2. FlagStep("reactor", "done", done, "claim")
      BY <1>14
    <2> HIDE DEF done
    <2> QED
      BY <1>0, <2>1, <2>2, FlagBody
         DEF Edge, ReactorEdge, Raises, Marks, Kills, Posts, Creates
  <1>15. CASE Ending("reactor")
    BY <1>0, <1>15, EndingBody
  <1>16. ASSUME ReactorLoops PROVE \E l, n : Body("reactor", l, n)
    <2>1. CASE FlagStep("reactor", "top", plat, IF plat.stopping THEN "output" ELSE "poll")
      BY <1>1, <1>2, <2>1
    <2>2. CASE FlagStep("reactor", "check", plat, IF plat.stopping THEN "output" ELSE "work")
      BY <1>5, <1>6, <2>2
    <2> QED
      BY <1>3, <1>4, <1>7, <1>16, <2>1, <2>2 DEF ReactorLoops
  <1>17. ASSUME ReactorLeaves \/ ReactorSeesTerminal PROVE \E l, n : Body("reactor", l, n)
    BY <1>8, <1>9, <1>10, <1>11, <1>17 DEF ReactorLeaves, ReactorSeesTerminal
  <1>18. ASSUME ReactorEnds PROVE \E l, n : Body("reactor", l, n)
    BY <1>12, <1>13, <1>14, <1>15, <1>18 DEF ReactorEnds
  <1> QED
    BY <1>16, <1>17, <1>18 DEF Reactor

\* waiter_worker
LEMMA WaiterBody ==
  ASSUME RefsInv, plat \in [FlagNames -> BOOLEAN], Waiter
  PROVE  \E l, n : Body("waiter", l, n)
  <1>0. "waiter" \in Threads /\ "waiter" \in Workers
    BY DEF Threads, Workers
  <1>1. ASSUME WaiterReads PROVE \E l, n : Body("waiter", l, n)
    <2>0. /\ At("waiter", "wait")
          /\ UNCHANGED <<callVars, sessionVars, plat, program, supervisor, stray, dartVars>>
      BY <1>1 DEF WaiterReads
    <2>1. ASSUME NEW n \in {"record", "stop"}, Go("waiter", n), Edge("waiter", "wait", n)
          PROVE  Body("waiter", "wait", n)
      <3>1. /\ DOMAIN pc' = Threads /\ pc'["waiter"] = n
            /\ \A u \in Threads \ {"waiter"} : pc'[u] = pc[u] /\ u # "none"
        BY <2>1 DEF Go, RefsInv, RefsTypeOK, Threads, Workers
      <3>2. Processes("waiter", "wait", n)
        BY <2>0 DEF Processes, Kills
      <3>3. Speaks("waiter", "wait", n)
        BY <2>0 DEF Speaks, dartVars, callVars, sessionVars, Posts
      <3>4. Raises("waiter", "wait", n) = {} /\ Marks("waiter", "wait", n) = lifecycle
            /\ Creates("waiter", "wait", n) = "none"
        BY <2>1 DEF Raises, Marks, Creates
      <3> QED
        BY <1>0, <2>0, <2>1, <3>1, <3>2, <3>3, <3>4 DEF Body, sessionVars
    <2>2. CASE program \in {"exited", "reaped"} /\ report' = "exit" /\ Go("waiter", "record")
      BY <2>1, <2>2 DEF Edge, WaiterEdge
    <2>3. CASE supervisor = "dead" /\ report' = "lost" /\ Go("waiter", "stop")
      BY <2>1, <2>3 DEF Edge, WaiterEdge
    <2> QED
      BY <1>1, <2>2, <2>3 DEF WaiterReads
  <1>2. CASE StopStep("waiter", "stop", "record")
    BY <1>0, <1>2, StopBody
       DEF Edge, WaiterEdge, Raises, Marks, Kills, Posts, Creates
  <1>3. CASE FlagStep("waiter", "record", [plat EXCEPT !.processExited = TRUE], "unregister")
    <2> DEFINE done == [plat EXCEPT !.processExited = TRUE]
    <2>1. done \in [FlagNames -> BOOLEAN] /\ \A f \in FlagNames : done[f] <=> (plat[f] \/ f = "processExited")
      BY DEF FlagNames
    <2>2. FlagStep("waiter", "record", done, "unregister")
      BY <1>3
    <2> HIDE DEF done
    <2> QED
      BY <1>0, <2>1, <2>2, FlagBody
         DEF Edge, WaiterEdge, Raises, Marks, Kills, Posts, Creates
  <1>4. CASE FlagStep("waiter", "unregister", Released, "wake")
    BY <1>0, <1>4, BootFlags, FlagBody
       DEF Edge, WaiterEdge, Raises, Marks, Kills, Posts, Creates
  <1>5. CASE FlagStep("waiter", "wake", Woken, "post")
    BY <1>0, <1>5, BootFlags, FlagBody
       DEF Edge, WaiterEdge, Raises, Marks, Kills, Posts, Creates
  <1>6. CASE PostStep("waiter", "post", IF report = "exit" THEN "PROCESS_EXIT" ELSE "ASYNC_ERROR", "done")
    BY <1>0, <1>6, PostBody
       DEF Edge, WaiterEdge, Raises, Marks, Kills, Posts, Creates
  <1>7. CASE FlagStep("waiter", "done", [plat EXCEPT !.waiterDone = TRUE], "claim")
    <2> DEFINE done == [plat EXCEPT !.waiterDone = TRUE]
    <2>1. done \in [FlagNames -> BOOLEAN] /\ \A f \in FlagNames : done[f] <=> (plat[f] \/ f = "waiterDone")
      BY DEF FlagNames
    <2>2. FlagStep("waiter", "done", done, "claim")
      BY <1>7
    <2> HIDE DEF done
    <2> QED
      BY <1>0, <2>1, <2>2, FlagBody
         DEF Edge, WaiterEdge, Raises, Marks, Kills, Posts, Creates
  <1>8. CASE Ending("waiter")
    BY <1>0, <1>8, EndingBody
  <1> QED
    BY <1>0, <1>1, <1>2, <1>3, <1>4, <1>5, <1>6, <1>7, <1>8
       DEF Waiter, WaiterRecords, WaiterEnds

\* close_worker
LEMMA CloserBody ==
  ASSUME RefsInv, plat \in [FlagNames -> BOOLEAN], Closer
  PROVE  \E l, n : Body("closer", l, n)
  <1>0. "closer" \in Threads /\ "closer" \in Workers
    BY DEF Threads, Workers
  <1>1. CASE FlagStep("closer", "stopping", [plat EXCEPT !.stopping = TRUE], "stop")
    <2> DEFINE done == [plat EXCEPT !.stopping = TRUE]
    <2>1. done \in [FlagNames -> BOOLEAN] /\ \A f \in FlagNames : done[f] <=> (plat[f] \/ f = "stopping")
      BY DEF FlagNames
    <2>2. FlagStep("closer", "stopping", done, "stop")
      BY <1>1
    <2> HIDE DEF done
    <2> QED
      BY <1>0, <2>1, <2>2, FlagBody
         DEF Edge, CloserEdge, Raises, Marks, Kills, Posts, Creates
  <1>2. CASE StopStep("closer", "stop", "wake")
    BY <1>0, <1>2, StopBody
       DEF Edge, CloserEdge, Raises, Marks, Kills, Posts, Creates
  <1>3. CASE FlagStep("closer", "wake", Woken, "done")
    BY <1>0, <1>3, BootFlags, FlagBody
       DEF Edge, CloserEdge, Raises, Marks, Kills, Posts, Creates
  <1>4. CASE FlagStep("closer", "done", [plat EXCEPT !.closeDone = TRUE], "claim")
    <2> DEFINE done == [plat EXCEPT !.closeDone = TRUE]
    <2>1. done \in [FlagNames -> BOOLEAN] /\ \A f \in FlagNames : done[f] <=> (plat[f] \/ f = "closeDone")
      BY DEF FlagNames
    <2>2. FlagStep("closer", "done", done, "claim")
      BY <1>4
    <2> HIDE DEF done
    <2> QED
      BY <1>0, <2>1, <2>2, FlagBody
         DEF Edge, CloserEdge, Raises, Marks, Kills, Posts, Creates
  <1>5. CASE Ending("closer")
    BY <1>0, <1>5, EndingBody
  <1> QED
    BY <1>0, <1>1, <1>2, <1>3, <1>4, <1>5
       DEF Closer

\* pty_session_kill and pty_session_send_signal
LEMMA OwnerBody ==
  ASSUME RefsInv, plat \in [FlagNames -> BOOLEAN], UserKills \/ UserKillWakes
  PROVE  \E l, n : Body("owner", l, n)
  <1>0. "owner" \in Threads
    BY DEF Threads, Workers
  <1>1. CASE StopStep("owner", "idle", "wake")
    BY <1>0, <1>1, StopBody
       DEF Edge, OwnerEdge, Raises, Marks, Kills, Posts, Creates
  <1>2. CASE FlagStep("owner", "wake", Woken, "idle")
    BY <1>0, <1>2, BootFlags, FlagBody
       DEF Edge, OwnerEdge, Raises, Marks, Kills, Posts, Creates
  <1> QED
    BY <1>0, <1>1, <1>2
       DEF UserKills, UserKillWakes

\* Every step of a body, of whichever thread.
BodyStep ==
  \/ Boot \/ Reactor \/ ReactorSeesTerminal \/ ReactorLeaves \/ Waiter \/ Closer
  \/ UserKills \/ UserKillWakes

\* What the actions of the bodies do is what the tables say.
LEMMA BodySteps ==
  ASSUME RefsInv, plat \in [FlagNames -> BOOLEAN], BodyStep
  PROVE  \E t, l, n : Body(t, l, n)
  <1>1. CASE Boot
    BY <1>1, BootBody
  <1>2. CASE Reactor \/ ReactorSeesTerminal \/ ReactorLeaves
    BY <1>2, ReactorBody
  <1>3. CASE Waiter
    BY <1>3, WaiterBody
  <1>4. CASE Closer
    BY <1>4, CloserBody
  <1>5. CASE UserKills \/ UserKillWakes
    BY <1>5, OwnerBody
  <1> QED
    BY <1>1, <1>2, <1>3, <1>4, <1>5 DEF BodyStep

-----------------------------------------------------------------------------
(* The invariant is kept                                                   *)

\* A session that starts has no program, and nobody looks at it yet.
LEMMA InitSafe == Init => SafeInv
  <1> SUFFICES ASSUME Init PROVE SafeInv
    OBVIOUS
  <1>1. /\ pc["boot"] = "spawn" /\ pc["waiter"] = "off"
        /\ \A t \in Threads : pc[t] # "markClosed" /\ call[t] # "mark"
    BY DEF Init, Threads, Workers
  <1>2. plat \in [FlagNames -> BOOLEAN]
    <2>1. plat = [published |-> FALSE, stopping |-> FALSE, wake |-> FALSE,
                  reactorDone |-> FALSE, waiterDone |-> FALSE,
                  closeStarted |-> FALSE, closeDone |-> FALSE,
                  outputClosed |-> FALSE, closedPosted |-> FALSE,
                  processExited |-> FALSE, released |-> FALSE]
      BY DEF Init
    <2>2. DOMAIN plat = FlagNames
      BY <2>1 DEF FlagNames
    <2>3. \A f \in FlagNames : plat[f] = FALSE
      BY <2>1 DEF FlagNames
    <2>4. plat = [f \in DOMAIN plat |-> plat[f]]
      BY <2>1
    <2>5. plat = [f \in FlagNames |-> plat[f]]
      BY <2>2, <2>4
    <2> QED
      BY <2>3, <2>5
  <1>3. ProgramOK /\ BootOK /\ WaiterOK
    BY <1>1 DEF Init, ProgramOK, BootOK, WaiterOK, StoppedLabels, AloneLabels, OverLabels
  <1>4. ClosedOK /\ ReapedOK
    BY <1>1 DEF Init, ClosedOK, ReapedOK, NoWaiterLabels
  <1> QED
    BY <1>2, <1>3, <1>4 DEF SafeInv

\* What a body step does to the threads and flags the invariant is about.
LEMMA BodyMoves ==
  ASSUME NEW t, NEW l, NEW n, Body(t, l, n)
  PROVE  /\ t \in Threads /\ pc[t] = l /\ pc'[t] = n
         /\ t # "boot" => pc'["boot"] = pc["boot"]
         /\ t \notin {"boot", "waiter"} => pc'["waiter"] = pc["waiter"]
         /\ t = "boot" => pc'["waiter"] = IF l = "waiter" /\ n = "run" THEN "wait" ELSE pc["waiter"]
         /\ \A u \in Threads \ {t} : pc'[u] = "markClosed" => pc[u] = "markClosed"
  <1>1. /\ t \in Threads /\ pc[t] = l /\ pc'[t] = n
        /\ \A u \in Threads \ {t} : pc'[u] = IF u = Creates(t, l, n) THEN First(u) ELSE pc[u]
    BY DEF Body, At
  <1>2. "boot" \in Threads /\ "waiter" \in Threads
    BY DEF Threads, Workers
  <1>3. \A u : First(u) # "markClosed"
    BY DEF First
  <1>4. CASE t # "boot"
    BY <1>1, <1>2, <1>3, <1>4 DEF Creates, Threads, Workers
  <1>5. CASE t = "boot"
    BY <1>1, <1>2, <1>3, <1>5 DEF Creates, First
  <1> QED
    BY <1>4, <1>5

\* What it does to the program and to what is recorded of it.
LEMMA BodyActs ==
  ASSUME ProgramOK, plat \in [FlagNames -> BOOLEAN], NEW t, NEW l, NEW n, Body(t, l, n)
  PROVE  /\ Kills(t, l) => program' # "running"
         /\ program' = "running" => program = "running" \/ (t = "boot" /\ l = "spawn" /\ n = "setup")
         /\ program' = "none" <=> program = "none" /\ ~(t = "boot" /\ l = "spawn" /\ n = "setup")
         /\ program' = "reaped" => program = "reaped"
         /\ t = "boot" /\ l = "setup" /\ n # "check" => program' # "running"
         /\ plat'.released <=>
              \/ plat.released
              \/ t = "boot" /\ l \in {"unstartedRelease", "noReactorRelease", "noWaiterRelease"}
              \/ t = "boot" /\ l = "setup" /\ n # "check"
              \/ t = "waiter" /\ l = "unregister"
         /\ plat'.processExited <=> plat.processExited \/ (t = "waiter" /\ l = "record")
  <1>1. Processes(t, l, n) /\ Edge(t, l, n)
    BY DEF Body
  <1>2. /\ Kills(t, l) => program' # "running"
        /\ program' = "running" => program = "running" \/ (t = "boot" /\ l = "spawn" /\ n = "setup")
        /\ program' = "none" <=> program = "none" /\ ~(t = "boot" /\ l = "spawn" /\ n = "setup")
        /\ program' = "reaped" => program = "reaped"
        /\ t = "boot" /\ l = "setup" /\ n # "check" => program' # "running"
    <2>1. CASE Kills(t, l)
      BY <1>1, <2>1 DEF Processes, StopProcess, Kills, ProgramOK
    <2>2. CASE ~Kills(t, l)
      BY <1>1, <2>2 DEF Processes, Edge, BootEdge, EndEdge
    <2> QED
      BY <2>1, <2>2
  <1>3. /\ plat'.released <=> (plat.released \/ "released" \in Raises(t, l, n))
        /\ plat'.processExited <=> (plat.processExited \/ "processExited" \in Raises(t, l, n))
    BY DEF Body, FlagNames
  <1>4. "released" \in Raises(t, l, n) <=>
              \/ t = "boot" /\ l \in {"unstartedRelease", "noReactorRelease", "noWaiterRelease"}
              \/ t = "boot" /\ l = "setup" /\ n # "check"
              \/ t = "waiter" /\ l = "unregister"
    BY DEF Raises, BootRaises, Reserves
  <1>5. "processExited" \in Raises(t, l, n) <=> t = "waiter" /\ l = "record"
    BY DEF Raises, BootRaises, Reserves
  <1> QED
    BY <1>2, <1>3, <1>4, <1>5

\* A body step keeps the invariant.
LEMMA BodyKeeps ==
  ASSUME RefsInv, SafeInv, NEW t, NEW l, NEW n, Body(t, l, n)
  PROVE  SafeInv'
  <1>0. plat \in [FlagNames -> BOOLEAN] /\ ProgramOK /\ BootOK /\ WaiterOK
    BY DEF SafeInv
  <1>1. /\ t \in Threads /\ pc[t] = l /\ pc'[t] = n
        /\ t # "boot" => pc'["boot"] = pc["boot"]
        /\ t \notin {"boot", "waiter"} => pc'["waiter"] = pc["waiter"]
        /\ t = "boot" => pc'["waiter"] = IF l = "waiter" /\ n = "run" THEN "wait" ELSE pc["waiter"]
        /\ \A u \in Threads \ {t} : pc'[u] = "markClosed" => pc[u] = "markClosed"
    BY BodyMoves
  <1>2. /\ Kills(t, l) => program' # "running"
        /\ program' = "running" => program = "running" \/ (t = "boot" /\ l = "spawn" /\ n = "setup")
        /\ program' = "none" <=> program = "none" /\ ~(t = "boot" /\ l = "spawn" /\ n = "setup")
        /\ program' = "reaped" => program = "reaped"
        /\ t = "boot" /\ l = "setup" /\ n # "check" => program' # "running"
    BY <1>0, BodyActs
  <1>3. plat'.released <=>
              \/ plat.released
              \/ t = "boot" /\ l \in {"unstartedRelease", "noReactorRelease", "noWaiterRelease"}
              \/ t = "boot" /\ l = "setup" /\ n # "check"
              \/ t = "waiter" /\ l = "unregister"
    BY <1>0, BodyActs
  <1>4. plat'.processExited <=> plat.processExited \/ (t = "waiter" /\ l = "record")
    BY <1>0, BodyActs
  <1>5. /\ t = "boot" => BootEdge(l, n)
        /\ t = "waiter" => WaiterEdge(l, n)
    BY DEF Body, Edge
  <1>6. t = "waiter" => pc["boot"] \notin AloneLabels
    BY <1>0, <1>1, <1>5 DEF WaiterEdge, EndEdge, BootOK
  <1>7. Over => Over'
    BY <1>1, <1>2, <1>3, <1>5 DEF Over, BootEdge, EndEdge
  <1>8. ProgramOK'
    <2>1. plat'.released \/ plat'.processExited => program' # "running"
      BY <1>0, <1>1, <1>2, <1>3, <1>4
         DEF ProgramOK, BootOK, WaiterOK, AloneLabels, StoppedLabels
    <2>2. pc'["boot"] = "spawn" => program' = "none"
      BY <1>0, <1>1, <1>2, <1>5 DEF ProgramOK, BootEdge, EndEdge
    <2>3. pc'["boot"] \in StoppedLabels => program' # "running"
      <3>1. CASE t = "boot"
        BY <1>0, <1>1, <1>2, <1>5, <3>1 DEF ProgramOK, BootEdge, EndEdge, StoppedLabels, Kills
      <3>2. CASE t # "boot"
        BY <1>0, <1>1, <1>2, <3>2 DEF ProgramOK
      <3> QED
        BY <3>1, <3>2
    <2> QED
      BY <2>1, <2>2, <2>3 DEF ProgramOK
  <1>9. BootOK'
    <2>1. CASE t = "boot"
      <3>1. n \in AloneLabels => /\ l \in AloneLabels
                                 /\ pc'["waiter"] = pc["waiter"] /\ ~plat'.released
        BY <1>0, <1>1, <1>3, <1>5, <2>1 DEF BootOK, BootEdge, EndEdge, AloneLabels
      <3>2. n \in OverLabels => Over'
        BY <1>0, <1>1, <1>2, <1>3, <1>5, <1>7, <2>1
           DEF BootOK, ProgramOK, BootEdge, EndEdge, OverLabels, Over
      <3>3. n = "noReactorFlags" => plat'.released
        BY <1>3, <1>5, <2>1 DEF BootEdge, EndEdge
      <3> QED
        BY <1>0, <1>1, <1>4, <2>1, <3>1, <3>2, <3>3 DEF BootOK
    <2>2. CASE t # "boot"
      BY <1>0, <1>1, <1>3, <1>4, <1>6, <1>7, <2>2 DEF BootOK
    <2> QED
      BY <2>1, <2>2
  <1>10. WaiterOK'
    <2>1. CASE t = "waiter"
      BY <1>0, <1>1, <1>2, <1>3, <1>4, <1>5, <2>1 DEF WaiterOK, WaiterEdge, EndEdge, Kills
    <2>2. CASE t = "boot" /\ pc["waiter"] = "off"
      BY <1>0, <1>1, <1>3, <1>4, <2>2 DEF WaiterOK, BootOK, AloneLabels
    <2>3. CASE t = "boot" /\ pc["waiter"] # "off"
      BY <1>0, <1>1, <1>2, <1>3, <1>4, <2>3 DEF WaiterOK, BootOK, AloneLabels
    <2>4. CASE t \notin {"boot", "waiter"}
      BY <1>0, <1>1, <1>2, <1>3, <1>4, <2>4 DEF WaiterOK
    <2> QED
      BY <2>1, <2>2, <2>3, <2>4
  <1>11. ASSUME "waiter" \notin Faults PROVE ClosedOK'
    <2>0. ClosedOK
      BY <1>11 DEF SafeInv
    <2>1. pc'["boot"] \notin NoWaiterLabels
      BY <1>1, <1>5, <1>11, <2>0 DEF ClosedOK, NoWaiterLabels, BootEdge, EndEdge
    <2>2. plat'.waiterDone => plat'.released \/ plat'.closedPosted
      <3>1. /\ plat'.waiterDone <=> (plat.waiterDone \/ "waiterDone" \in Raises(t, l, n))
            /\ plat'.closedPosted <=> (plat.closedPosted \/ "closedPosted" \in Raises(t, l, n))
        BY DEF Body, FlagNames
      <3>2. "waiterDone" \in Raises(t, l, n) =>
              \/ t = "boot" /\ l = "unstartedFlags" /\ "closedPosted" \in Raises(t, l, n)
              \/ t = "boot" /\ l \in {"noReactorFlags", "noWaiter"}
              \/ t = "waiter" /\ l = "done"
        BY DEF Raises, BootRaises, Reserves
      <3> QED
        BY <1>0, <1>1, <1>3, <2>0, <3>1, <3>2 DEF ClosedOK, NoWaiterLabels, BootOK, WaiterOK
    <2>3. ASSUME NEW u \in Threads, call'[u] = "mark" PROVE call[u] = "mark"
      BY <2>3 DEF Body, Speaks, PostEvent, Abandon, callVars, RefsInv, RefsTypeOK
    <2>4. n = "markClosed" => Over'
      <3>1. n = "markClosed" =>
              \/ l = "claim" /\ Claimable
              \/ t = "boot" /\ l \in {"failedMark", "noReactorOutput"}
        BY DEF Body, Edge, BootEdge, ReactorEdge, WaiterEdge, CloserEdge, OwnerEdge, EndEdge
      <3>2. Claimable => Over
        BY <2>0 DEF Claimable, AllDone, ClosedOK, Over
      <3> QED
        BY <1>0, <1>1, <1>7, <3>1, <3>2 DEF BootOK, OverLabels
    <2>5. \A u \in Threads : pc'[u] = "markClosed" \/ call'[u] = "mark" => Over'
      BY <1>1, <1>7, <2>0, <2>3, <2>4 DEF ClosedOK
    <2>6. lifecycle' = "CLOSED" => Over'
      BY <1>0, <1>1, <1>7, <2>0 DEF Body, Marks, ClosedOK, BootOK, OverLabels
    <2> QED
      BY <2>1, <2>2, <2>5, <2>6 DEF ClosedOK
  <1>12. ASSUME "supervisor" \notin Faults PROVE ReapedOK'
    <2>1. ReapedOK
      BY <1>12 DEF SafeInv
    <2>2. UNCHANGED supervisor /\ (stray' => stray \/ (program = "reaped" /\ ~plat.released))
      BY <2>1 DEF Body, Processes, StopProcess, ReapedOK
    <2> QED
      BY <1>2, <1>3, <2>1, <2>2 DEF ReapedOK
  <1>13. plat' \in [FlagNames -> BOOLEAN]
    BY DEF Body
  <1> QED
    BY <1>8, <1>9, <1>10, <1>11, <1>12, <1>13 DEF SafeInv

\* What pty_session_abandon and pty_session_begin_close leave alone, and what
\* they do to the rest.
LEMMA CloseActs ==
  ASSUME RefsInv, ProgramOK, plat \in [FlagNames -> BOOLEAN],
         NEW t \in Threads, BeginClose(t)
  PROVE  /\ plat' \in [FlagNames -> BOOLEAN]
         /\ plat'.released = plat.released /\ plat'.processExited = plat.processExited
         /\ plat'.waiterDone = plat.waiterDone
         /\ plat.closedPosted => plat'.closedPosted
         /\ \A u \in Threads : u # "closer" => pc'[u] = pc[u]
         /\ pc'["closer"] # pc["closer"] => pc'["closer"] = "stopping"
         /\ program' = "running" => program = "running"
         /\ program' = "none" <=> program = "none"
         /\ program' = "reaped" => program = "reaped"
         /\ supervisor' = supervisor
         /\ stray' => stray \/ (program = "reaped" /\ ~plat.released)
         /\ \A u \in Threads : call'[u] = "mark" => call[u] = "mark" \/ Claimable
         /\ lifecycle' = "CLOSED" => lifecycle = "CLOSED" \/ call[t] = "mark"
  <1>0. /\ DOMAIN pc = Threads /\ DOMAIN call = Threads /\ "closer" \in Threads
    BY DEF RefsInv, RefsTypeOK, Threads, Workers
  <1>1. ASSUME UNCHANGED plat
        PROVE  /\ plat' \in [FlagNames -> BOOLEAN]
               /\ plat'.released = plat.released /\ plat'.processExited = plat.processExited
               /\ plat'.waiterDone = plat.waiterDone
               /\ plat.closedPosted => plat'.closedPosted
    BY <1>1
  <1>2. ASSUME UNCHANGED pc
        PROVE  /\ \A u \in Threads : u # "closer" => pc'[u] = pc[u]
               /\ pc'["closer"] # pc["closer"] => pc'["closer"] = "stopping"
    BY <1>2
  <1>3. ASSUME UNCHANGED <<program, supervisor, stray>>
        PROVE  /\ program' = "running" => program = "running"
               /\ program' = "none" <=> program = "none"
               /\ program' = "reaped" => program = "reaped"
               /\ supervisor' = supervisor
               /\ stray' => stray \/ (program = "reaped" /\ ~plat.released)
    BY <1>3
  <1>4. ASSUME NEW label, label # "mark", call' = [call EXCEPT ![t] = label]
        PROVE  \A u \in Threads : call'[u] = "mark" => call[u] = "mark" \/ Claimable
    BY <1>0, <1>4
  <1>5. Return(t) => UNCHANGED pc /\ call' = [call EXCEPT ![t] = "none"]
    BY DEF Return
  <1>6. CASE MarkAbandoned(t)
    <2>1. UNCHANGED <<pc, plat, program, supervisor, stray, lifecycle>>
      BY <1>6 DEF MarkAbandoned, processVars
    <2>2. \E label : label # "mark" /\ call' = [call EXCEPT ![t] = label]
      <3> DEFINE label == IF abandoned THEN "none" ELSE "lifecycle"
      <3>1. label # "mark" /\ call' = [call EXCEPT ![t] = label]
        BY <1>6 DEF MarkAbandoned
      <3> HIDE DEF label
      <3> QED
        BY <3>1
    <2> QED
      BY <1>1, <1>2, <1>3, <1>4, <2>1, <2>2
  <1>7. CASE CloseLifecycle(t)
    <2>1. UNCHANGED <<plat, program, supervisor, stray>>
      BY <1>7 DEF CloseLifecycle, closeFrame, processVars
    <2>2. /\ UNCHANGED pc
          /\ \E label : label # "mark" /\ call' = [call EXCEPT ![t] = label]
      BY <1>5, <1>7 DEF CloseLifecycle, Inside
    <2>3. lifecycle' = "CLOSED" => lifecycle = "CLOSED"
      BY <1>7 DEF CloseLifecycle, ClosingFrom
    <2> QED
      BY <1>1, <1>2, <1>3, <1>4, <2>1, <2>2, <2>3
  <1>8. CASE CloseClaim(t)
    <2>1. UNCHANGED <<program, supervisor, stray, lifecycle>>
      BY <1>8 DEF CloseClaim, closeFrame, processVars
    <2>2. /\ UNCHANGED pc
          /\ \E label : label # "mark" /\ call' = [call EXCEPT ![t] = label]
      BY <1>5, <1>8 DEF CloseClaim, Inside
    <2>3. plat' = plat \/ plat' = [plat EXCEPT !.closeStarted = TRUE]
      BY <1>8 DEF CloseClaim
    <2>4. /\ plat' \in [FlagNames -> BOOLEAN]
          /\ plat'.released = plat.released /\ plat'.processExited = plat.processExited
          /\ plat'.waiterDone = plat.waiterDone
          /\ plat.closedPosted => plat'.closedPosted
      <3>1. CASE plat' = plat
        BY <3>1
      <3>2. CASE plat' = [plat EXCEPT !.closeStarted = TRUE]
        BY <3>2 DEF FlagNames
      <3> QED
        BY <2>3, <3>1, <3>2
    <2> QED
      BY <1>2, <1>3, <1>4, <2>1, <2>2, <2>4
  <1>9. CASE CloseCreate(t)
    <2>1. UNCHANGED <<plat, program, supervisor, stray, lifecycle>>
      BY <1>9 DEF CloseCreate, closeFrame, processVars
    <2>2. /\ pc' = [pc EXCEPT !["closer"] = "stopping"]
          /\ call' = [call EXCEPT ![t] = "unretain"]
      BY <1>9 DEF CloseCreate
    <2>3. /\ \A u \in Threads : u # "closer" => pc'[u] = pc[u]
          /\ pc'["closer"] = "stopping"
      BY <1>0, <2>2
    <2> QED
      BY <1>1, <1>3, <1>4, <2>1, <2>2, <2>3
  <1>10. CASE CloseUnretain(t)
    <2>1. /\ UNCHANGED <<pc, plat, program, supervisor, stray, lifecycle>>
          /\ call' = [call EXCEPT ![t] = "none"]
      BY <1>10 DEF CloseUnretain, closeFrame, processVars
    <2> QED
      BY <1>1, <1>2, <1>3, <1>4, <2>1
  <1>11. CASE CloseCreateFails(t)
    <2>1. /\ UNCHANGED <<pc, program, supervisor, stray, lifecycle>>
          /\ call' = [call EXCEPT ![t] = "stop"]
          /\ plat' = [plat EXCEPT !.stopping = TRUE, !.closeDone = TRUE]
      BY <1>11 DEF CloseCreateFails, Inside, processVars, sessionVars
    <2>2. /\ plat' \in [FlagNames -> BOOLEAN]
          /\ plat'.released = plat.released /\ plat'.processExited = plat.processExited
          /\ plat'.waiterDone = plat.waiterDone
          /\ plat.closedPosted => plat'.closedPosted
      BY <2>1 DEF FlagNames
    <2> QED
      BY <1>2, <1>3, <1>4, <2>1, <2>2
  <1>12. CASE CloseStop(t)
    <2>1. /\ UNCHANGED <<pc, plat, lifecycle>> /\ StopProcess
          /\ call' = [call EXCEPT ![t] = "wake"]
      BY <1>12 DEF CloseStop, Inside, sessionVars
    <2>2. /\ program' = "running" => program = "running"
          /\ program' = "none" <=> program = "none"
          /\ program' = "reaped" => program = "reaped"
          /\ supervisor' = supervisor
          /\ stray' => stray \/ (program = "reaped" /\ ~plat.released)
      BY <2>1 DEF StopProcess
    <2> QED
      BY <1>1, <1>2, <1>4, <2>1, <2>2
  <1>13. CASE CloseWake(t)
    <2>1. /\ UNCHANGED <<pc, program, supervisor, stray, lifecycle>>
          /\ call' = [call EXCEPT ![t] = "maybe"] /\ plat' = Woken
      BY <1>13 DEF CloseWake, Inside, processVars, sessionVars
    <2>2. /\ plat' \in [FlagNames -> BOOLEAN]
          /\ plat'.released = plat.released /\ plat'.processExited = plat.processExited
          /\ plat'.waiterDone = plat.waiterDone
          /\ plat.closedPosted => plat'.closedPosted
      BY <2>1 DEF Woken, FlagNames
    <2> QED
      BY <1>2, <1>3, <1>4, <2>1, <2>2
  <1>14. CASE CloseMaybe(t)
    <2>1. UNCHANGED <<program, supervisor, stray, lifecycle>>
      BY <1>14 DEF CloseMaybe, closeFrame, processVars
    <2>2. CASE Claimable
      <3>1. UNCHANGED pc /\ plat' = Claimed
        BY <1>14, <2>2 DEF CloseMaybe, Inside
      <3>2. /\ plat' \in [FlagNames -> BOOLEAN]
            /\ plat'.released = plat.released /\ plat'.processExited = plat.processExited
            /\ plat'.waiterDone = plat.waiterDone
            /\ plat.closedPosted => plat'.closedPosted
        BY <3>1 DEF Claimed, FlagNames
      <3> QED
        BY <1>2, <1>3, <2>1, <2>2, <3>1, <3>2
    <2>3. CASE ~Claimable
      <3>1. UNCHANGED <<pc, plat>> /\ call' = [call EXCEPT ![t] = "none"]
        BY <1>5, <1>14, <2>3 DEF CloseMaybe
      <3> QED
        BY <1>1, <1>2, <1>3, <1>4, <2>1, <3>1
    <2> QED
      BY <2>2, <2>3
  <1>15. CASE CloseMark(t)
    <2>1. /\ UNCHANGED <<pc, plat, program, supervisor, stray>> /\ call[t] = "mark"
          /\ call' = [call EXCEPT ![t] = "post"]
      BY <1>15 DEF CloseMark, Inside, In, processVars
    <2> QED
      BY <1>1, <1>2, <1>3, <1>4, <2>1
  <1>16. CASE ClosePost(t)
    <2>1. UNCHANGED <<plat, program, supervisor, stray, lifecycle>>
      BY <1>16 DEF ClosePost, processVars
    <2>2. /\ UNCHANGED pc
          /\ \E label : label # "mark" /\ call' = [call EXCEPT ![t] = label]
      BY <1>5, <1>16 DEF ClosePost, Abandon
    <2> QED
      BY <1>1, <1>2, <1>3, <1>4, <2>1, <2>2
  <1> QED
    BY <1>6, <1>7, <1>8, <1>9, <1>10, <1>11, <1>12, <1>13, <1>14, <1>15, <1>16
       DEF BeginClose

\* A step inside pty_session_abandon or pty_session_begin_close keeps the
\* invariant.
LEMMA CloseKeeps ==
  ASSUME RefsInv, SafeInv, NEW t \in Threads, BeginClose(t)
  PROVE  SafeInv'
  <1>0. plat \in [FlagNames -> BOOLEAN] /\ ProgramOK /\ BootOK /\ WaiterOK
    BY DEF SafeInv
  <1>1. /\ plat' \in [FlagNames -> BOOLEAN]
        /\ plat'.released = plat.released /\ plat'.processExited = plat.processExited
        /\ plat'.waiterDone = plat.waiterDone
        /\ plat.closedPosted => plat'.closedPosted
    BY <1>0, CloseActs
  <1>2. /\ pc'["boot"] = pc["boot"] /\ pc'["waiter"] = pc["waiter"]
        /\ \A u \in Threads : pc'[u] = "markClosed" => pc[u] = "markClosed"
    BY <1>0, CloseActs DEF Threads, Workers
  <1>3. /\ program' = "running" => program = "running"
        /\ program' = "none" <=> program = "none"
        /\ program' = "reaped" => program = "reaped"
        /\ supervisor' = supervisor
        /\ stray' => stray \/ (program = "reaped" /\ ~plat.released)
    BY <1>0, CloseActs
  <1>4. /\ \A u \in Threads : call'[u] = "mark" => call[u] = "mark" \/ Claimable
        /\ lifecycle' = "CLOSED" => lifecycle = "CLOSED" \/ call[t] = "mark"
    BY <1>0, CloseActs
  <1>5. Over' = Over
    BY <1>1, <1>2, <1>3 DEF Over
  <1>6. ProgramOK' /\ BootOK' /\ WaiterOK'
    BY <1>0, <1>1, <1>2, <1>3, <1>5 DEF ProgramOK, BootOK, WaiterOK
  <1>7. ASSUME "waiter" \notin Faults PROVE ClosedOK'
    <2>1. ClosedOK
      BY <1>7 DEF SafeInv
    <2>2. Claimable => Over
      BY <2>1 DEF Claimable, AllDone, ClosedOK, Over
    <2> QED
      BY <1>1, <1>2, <1>4, <1>5, <2>1, <2>2 DEF ClosedOK
  <1>8. "supervisor" \notin Faults => ReapedOK'
    BY <1>1, <1>3 DEF SafeInv, ReapedOK
  <1> QED
    BY <1>1, <1>6, <1>7, <1>8 DEF SafeInv

\* The steps of the program, its supervisor and the isolate.
OutsideStep ==
  \/ ProgramExits \/ SupervisorDies \/ Reap
  \/ DartReceives \/ UserCloses \/ DriverCloses \/ CloseFinishes
  \/ IsolateExits \/ FinalizerAtExit \/ WrapperCollected

\* They keep the invariant: a program is reaped once its supervisor was told
\* to, or has died.
LEMMA OutsideKeeps ==
  ASSUME RefsInv, SafeInv, OutsideStep
  PROVE  SafeInv'
  <1>0. plat \in [FlagNames -> BOOLEAN] /\ ProgramOK /\ BootOK /\ WaiterOK /\ DOMAIN call = Threads
    BY DEF SafeInv, RefsInv, RefsTypeOK
  <1>1. /\ UNCHANGED <<pc, plat, lifecycle>>
        /\ \A u \in Threads : call'[u] = "mark" => call[u] = "mark"
        /\ UNCHANGED stray
    BY <1>0 DEF OutsideStep, ProgramExits, SupervisorDies, Reap, DartReceives, UserCloses,
                DriverCloses, CloseFinishes, IsolateExits, FinalizerAtExit, WrapperCollected,
                Close, RunFinalizer, Abandon, OwnerCalls, processFrame, callVars, sessionVars,
                processVars
  <1>2. /\ program' = "running" => program = "running"
        /\ program' = "none" <=> program = "none"
        /\ program' = "reaped" => program = "reaped" \/ supervisor = "dead" \/ plat.released
        /\ supervisor' # "up" => supervisor # "up" \/ "supervisor" \in Faults
                                  \/ supervisor = "dead" \/ plat.released
    BY DEF OutsideStep, ProgramExits, SupervisorDies, Reap, DartReceives, UserCloses,
           DriverCloses, CloseFinishes, IsolateExits, FinalizerAtExit, WrapperCollected,
           Close, RunFinalizer, Abandon, OwnerCalls, processFrame, callVars, sessionVars,
           processVars
  <1>3. Over' = Over
    BY <1>1, <1>2 DEF Over
  <1>4. ProgramOK' /\ BootOK' /\ WaiterOK'
    BY <1>0, <1>1, <1>2, <1>3 DEF ProgramOK, BootOK, WaiterOK
  <1>5. "waiter" \notin Faults => ClosedOK'
    BY <1>1, <1>3 DEF SafeInv, ClosedOK
  <1>6. "supervisor" \notin Faults => ReapedOK'
    BY <1>1, <1>2 DEF SafeInv, ReapedOK
  <1> QED
    BY <1>0, <1>1, <1>4, <1>5, <1>6 DEF SafeInv

\* Every step of the session keeps the invariant.
LEMMA NextSafe == RefsInv /\ SafeInv /\ [Next]_vars => SafeInv'
  <1> SUFFICES ASSUME RefsInv, SafeInv, [Next]_vars PROVE SafeInv'
    OBVIOUS
  <1>1. CASE UNCHANGED vars
    BY <1>1 DEF vars, callVars, sessionVars, processVars, SafeInv, ProgramOK, BootOK, WaiterOK,
                ClosedOK, ReapedOK, Over
  <1>2. CASE BodyStep
    <2>1. plat \in [FlagNames -> BOOLEAN]
      BY DEF SafeInv
    <2> QED
      BY <1>2, <2>1, BodySteps, BodyKeeps
  <1>3. ASSUME NEW t \in Threads, BeginClose(t) PROVE SafeInv'
    BY <1>3, CloseKeeps
  <1>4. CASE OutsideStep
    BY <1>4, OutsideKeeps
  <1> QED
    BY <1>1, <1>2, <1>3, <1>4 DEF Next, BodyStep, OutsideStep

\* A session that is closed left nothing behind -- the bootstrap, the waiter and
\* the close threads mark it CLOSED only once the program is dead and its
\* supervisor was told to reap it -- as long as the waiter thread could be
\* created, whatever else fails.
THEOREM ClosedLeavesNothing ==
  ASSUME "waiter" \notin Faults
  PROVE  Spec => []ClosedMeansOver
  <1>1. SafeInv => ClosedMeansOver
    BY DEF SafeInv, ClosedOK, ProgramOK, ClosedMeansOver, Over
  <1> QED
    BY <1>1, InitRefs, NextRefs, InitSafe, NextSafe, PTL DEF Spec

\* pty_session_kill and every stop_process of a thread signal a pid that is
\* still the program's, as long as the supervisor does not die before it is told
\* to reap: the release and the signal are ordered by the platform mutex.
THEOREM SignalsHitTheProgram ==
  ASSUME "supervisor" \notin Faults
  PROVE  Spec => []NoStraySignal
  <1>1. SafeInv => NoStraySignal
    BY DEF SafeInv, ReapedOK, NoStraySignal
  <1> QED
    BY <1>1, InitRefs, NextRefs, InitSafe, NextSafe, PTL DEF Spec
=============================================================================
