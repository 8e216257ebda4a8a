----------------------- MODULE UnixSessionContractProofs -----------------------
(***************************************************************************)
(* A Unix session keeps SessionContract, as long as its waiter thread can  *)
(* be created: the isolate is told everything at most once, truly and in   *)
(* an order it can rely on, and the session is freed when it is over.      *)
(* Undisturbed by errors, it is freed only when its last worker is through *)
(* with it, and its state keeps its types.                                 *)
(*                                                                         *)
(* The tables of UnixSessionSafetyProofs say what the bodies do; Inner     *)
(* does the same for pty_session_abandon and begin_close, DartStep for the *)
(* isolate.  IInv is proved inductive over them, one conjunct per lemma;   *)
(* the Maps lemmas then turn each step into one of the contract.           *)
(***************************************************************************)
EXTENDS UnixSessionSafetyProofs, FiniteSetTheorems, SequenceTheorems

Listening == portOpen /\ ~abandoned
Told(event) == \E i \in 1 .. Len(log) : log[i] = event

-----------------------------------------------------------------------------
(* The threads                                                             *)

FailedLabels == {"failed", "failedOutput", "failedMark", "setupFailed"}
UnstartedLabels == {"unstarted", "unstartedFlags", "unstartedRelease", "unstartedAnswer",
                    "unstartedMark", "unstartedOutput"}
LateLabels == {"lateAnswer", "lateOutput"}
NoReactorLabels == {"noReactor", "noReactorStop", "noReactorRelease", "noReactorFlags",
                    "noReactorAnswer", "noReactorOutput"}
CancelLabels == {"cancelled", "cancelStop", "cancelWake", "cancelAnswer"}
EndLabels == {"claim", "markClosed", "postClosed", "release", "end"}
BootGone == {"release", "end"}

\* The bootstrap has not answered Pty.spawn yet.
UnansweredLabels ==
  BeforeWaiter \cup CancelLabels \cup {"failed", "setupFailed", "run", "spawned", "lateAnswer"}
    \cup (UnstartedLabels \ {"unstartedMark", "unstartedOutput"})
    \cup (NoReactorLabels \ {"noReactorOutput"})

\* While the bootstrap is alone there is neither a reactor nor a waiter, and
\* reactor_done is set late.
LoneLabels == BeforeReactor \cup FailedLabels \cup UnstartedLabels \cup LateLabels
                \cup NoReactorLabels
FlaglessLabels == BeforeReactor \cup FailedLabels \cup {"unstarted", "unstartedFlags"}
                    \cup {"noReactor", "noReactorStop", "noReactorRelease", "noReactorFlags"}

WorkersOK ==
  /\ pc["boot"] # "off"
  /\ pc["boot"] \in LoneLabels => pc["reactor"] = "off" /\ pc["waiter"] = "off"
  /\ pc["boot"] \notin AloneLabels => pc["waiter"] # "off" \/ Over
  /\ plat.reactorDone => /\ pc["reactor"] \in EndLabels \cup {"off"}
                         /\ pc["boot"] \notin FlaglessLabels
  /\ plat.waiterDone => /\ pc["waiter"] \in EndLabels \cup {"off"}
                        /\ pc["boot"] \notin FlaglessLabels \cup {"waiter"}
  /\ pc["boot"] \in {"setup", "check", "reactor", "waiter", "run", "spawned"} => program # "none"
  /\ pc["boot"] \in {"cancelWake", "cancelAnswer"} => program # "running"
  /\ report = "exit" => program \in {"exited", "reaped"}
  /\ pc["owner"] \in {"idle", "wake"}

\* A session that is not published cannot be closed by anybody.
UnpublishedOK ==
  /\ pc["boot"] \in {"spawn", "setup"} \cup FailedLabels => ~plat.published
  /\ ~plat.published =>
       /\ pc["boot"] \in {"spawn", "setup", "markClosed", "postClosed"} \cup FailedLabels \cup BootGone
       /\ pc["reactor"] = "off" /\ pc["waiter"] = "off" /\ pc["closer"] = "off"
       /\ \A t \in Threads : call[t] \in {"none", "abandon", "lifecycle"}
       /\ ~plat.closedPosted /\ ~plat.reactorDone

-----------------------------------------------------------------------------
(* The close                                                               *)

\* A thread that is to post SESSION_CLOSED.
Closes(t) ==
  \/ pc[t] \in {"markClosed", "postClosed"}
  \/ call[t] \in {"mark", "post"}
  \/ t = "boot" /\ pc[t] \in {"noReactorAnswer", "noReactorOutput"}

\* Nobody starts a close worker any more.
Shut ==
  /\ plat.closeStarted \/ (~plat.published /\ pc["boot"] \in BootGone)
  /\ \A t \in Threads : call[t] # "create"

ClaimOK ==
  /\ \A t \in Threads : pc[t] = "postClosed" \/ call[t] = "post" => Over
  /\ Told("SESSION_CLOSED") \/ dart.closed => Shut /\ Over
  /\ Listening =>
       /\ pc["boot"] \notin UnstartedLabels \cup LateLabels
       /\ plat.closeDone => plat.closeStarted /\ \A t \in Threads : call[t] # "create"
       /\ plat.closedPosted => plat.reactorDone /\ plat.waiterDone /\ plat.closeDone
       /\ \A t \in Threads : Closes(t) => plat.closedPosted \/ (t = "boot" /\ ~plat.published)
       /\ \A t, u \in Threads : Closes(t) /\ Closes(u) => t = u
       /\ Told("SESSION_CLOSED") =>
            /\ plat.closedPosted \/ (~plat.published /\ pc["boot"] \in BootGone)
            /\ \A t \in Threads : ~Closes(t)

-----------------------------------------------------------------------------
(* What the isolate was told                                               *)

\* Before the bootstrap answers, the isolate does nothing but listen -- unless an
\* error reached it.
Calm ==
  /\ \A t \in Threads : call[t] = "none"
  /\ pc["closer"] = "off" /\ pc["boot"] \notin CancelLabels
  /\ pc["boot"] \notin NoReactorLabels \cup {"spawned"} => lifecycle = "STARTING"
  /\ pc["boot"] # "noReactorAnswer" =>
       ~plat.closeStarted /\ ~plat.closeDone /\ ~plat.stopping
  /\ dart.spawn = "pending" /\ ~dart.fatal /\ ~dart.closing

ToldOK ==
  /\ log \in Seq(Events)
  /\ Listening =>
       /\ pc["boot"] \in UnansweredLabels =>
            /\ ~Told("SPAWNED") /\ ~Told("SPAWN_FAILED")
            /\ ~Told("ASYNC_ERROR") => Calm
       /\ Told("ASYNC_ERROR") => pc["reactor"] # "off" \/ pc["waiter"] # "off"
       /\ Told("OUTPUT_CLOSED") =>
            /\ pc["reactor"] \notin {"top", "poll", "drain", "check", "work", "output"}
            /\ pc["boot"] \notin BeforeReactor \cup {"failed", "failedOutput", "setupFailed"}
                                   \cup NoReactorLabels
       /\ Told("INPUT_CLOSED") =>
            pc["reactor"] \notin {"off", "top", "poll", "drain", "check", "work", "output", "input"}
       /\ Told("PROCESS_EXIT") =>
            pc["waiter"] \notin {"off", "wait", "stop", "record", "unregister", "wake", "post"}

-----------------------------------------------------------------------------
(* The Dart-owned reference                                                *)

InCall(t) == call[t] \notin {"none", "abandon"}
GivenUp == abandoned /\ abandoning = {}

DartType == [seen : Nat, spawn : {"pending", "ok", "failed"}, fatal : BOOLEAN,
             closing : BOOLEAN, closed : BOOLEAN, gone : BOOLEAN,
             finalizer : {"attached", "detached", "ran"}]

HandedOK ==
  /\ dart \in DartType /\ portOpen \in BOOLEAN /\ abandoned \in BOOLEAN
  /\ handed = (IF dart.finalizer = "detached" THEN 1 ELSE 0) + (IF GivenUp THEN 1 ELSE 0)
  /\ abandoning \subseteq Threads
  /\ \A t \in abandoning : abandoned /\ InCall(t)
  /\ \A t, u \in abandoning : t = u
  /\ dart.finalizer = "detached" => dart.closed
  /\ portOpen <=> ~dart.gone /\ ~dart.closed
  /\ \A t \in Threads : t # "owner" /\ InCall(t) => t \in abandoning
  /\ dart.gone /\ InCall("owner") => "owner" \in abandoning
  /\ \A t \in Threads : abandoned \/ call[t] = "abandon" =>
       dart.gone \/ dart.closed \/ dart.spawn = "ok"
  /\ GivenUp /\ ~dart.gone /\ ~dart.closed =>
       \/ plat.closeStarted /\ call["owner"] # "create"
       \/ lifecycle = "CLOSED" /\ call["owner"] \notin {"claim", "create"}
  /\ GivenUp => \A t \in Threads : call[t] # "create"
  /\ dart.spawn = "ok" \/ Told("SPAWNED") =>
       /\ pc["boot"] \in BootGone /\ plat.published /\ lifecycle # "STARTING"
       /\ plat.closeDone => plat.closeStarted
  /\ pc["boot"] = "spawned" => lifecycle # "STARTING"
  /\ \A t \in Threads : t # "owner" /\ call[t] # "none" => dart.gone \/ dart.closed
  /\ \A t \in Threads : call[t] \notin {"none", "abandon", "lifecycle", "claim"} => plat.closeStarted

IInv == RefsInv /\ SafeInv /\ WorkersOK /\ UnpublishedOK /\ ClaimOK /\ ToldOK /\ HandedOK

-----------------------------------------------------------------------------
(* The steps of the bodies                                                 *)

\* What a body step does to the threads.
LEMMA BodyThreads ==
  ASSUME NEW t, NEW l, NEW n, Body(t, l, n)
  PROVE  /\ t \in Threads /\ pc[t] = l /\ pc'[t] = n /\ call[t] = "none"
         /\ t = "boot" => BootEdge(l, n)
         /\ t = "reactor" => ReactorEdge(l, n)
         /\ t = "waiter" => WaiterEdge(l, n)
         /\ t = "closer" => CloserEdge(l, n)
         /\ t = "owner" => OwnerEdge(l, n)
         /\ t # "boot" => \A u \in Threads \ {t} : pc'[u] = pc[u]
         /\ t = "boot" =>
              /\ pc'["reactor"] = IF l = "reactor" /\ n = "waiter" THEN "top" ELSE pc["reactor"]
              /\ pc'["waiter"] = IF l = "waiter" /\ n = "run" THEN "wait" ELSE pc["waiter"]
              /\ pc'["closer"] = pc["closer"] /\ pc'["owner"] = pc["owner"]
  <1>1. /\ t \in Threads /\ pc[t] = l /\ pc'[t] = n /\ call[t] = "none" /\ Edge(t, l, n)
        /\ \A u \in Threads \ {t} : pc'[u] = IF u = Creates(t, l, n) THEN First(u) ELSE pc[u]
    BY DEF Body, At
  <1>2. {"boot", "reactor", "waiter", "closer", "owner"} \subseteq Threads /\ "none" \notin Threads
    BY DEF Threads, Workers
  <1>3. CASE t # "boot"
    <2>1. Creates(t, l, n) = "none"
      BY <1>3 DEF Creates
    <2> QED
      BY <1>1, <1>2, <1>3, <2>1 DEF Edge
  <1>4. CASE t = "boot"
    BY <1>1, <1>2, <1>4 DEF Creates, First, Edge
  <1> QED
    BY <1>3, <1>4

\* The event a step posts when the isolate listens: what the reactor reads when
\* its terminal fails, otherwise the one of its label.
Says(t, l, n, event) ==
  IF t = "reactor" /\ l = "work" THEN n = "output" /\ event = "ASYNC_ERROR"
                                 ELSE event = Posts(t, l, n) /\ event # "none"

\* What a body step tells the isolate, and what a post that fails begins.
LEMMA BodySays ==
  ASSUME NEW t, NEW l, NEW n, Body(t, l, n), portOpen \in BOOLEAN, abandoned \in BOOLEAN
  PROVE  /\ UNCHANGED <<portOpen, dart, abandoned, abandoning, handed>>
         /\ call' = call \/ (~Listening /\ ~portOpen /\ call' = [call EXCEPT ![t] = "abandon"])
         /\ log' = log \/ (Listening /\ \E e : Says(t, l, n, e) /\ log' = Append(log, e))
  <1>1. /\ Speaks(t, l, n) /\ handed' = handed
    BY DEF Body
  <1>2. ASSUME NEW e, PostEvent(t, e)
        PROVE  /\ UNCHANGED <<abandoned, abandoning>>
               /\ call' = call \/ (~Listening /\ ~portOpen /\ call' = [call EXCEPT ![t] = "abandon"])
               /\ log' = log \/ (Listening /\ log' = Append(log, e))
    BY <1>2 DEF PostEvent, Abandon, callVars, Listening
  <1>3. UNCHANGED <<portOpen, dart>>
    BY <1>1 DEF Speaks
  <1>4. CASE UNCHANGED <<log, abandoned, callVars>>
    BY <1>1, <1>3, <1>4 DEF callVars
  <1>5. CASE t = "reactor" /\ l = "work" /\ ~UNCHANGED <<log, abandoned, callVars>>
    <2>1. CASE n = "output" /\ PostEvent(t, "ASYNC_ERROR")
      BY <1>1, <1>2, <1>3, <1>5, <2>1 DEF Says
    <2>2. CASE (~portOpen \/ abandoned) /\ PostEvent(t, "OUTPUT")
      BY <1>1, <1>2, <1>3, <2>2 DEF Listening
    <2> QED
      BY <1>1, <1>5, <2>1, <2>2 DEF Speaks
  <1>6. CASE ~(t = "reactor" /\ l = "work") /\ ~UNCHANGED <<log, abandoned, callVars>>
    <2>1. PostEvent(t, Posts(t, l, n)) /\ Posts(t, l, n) # "none"
      BY <1>1, <1>6 DEF Speaks
    <2> QED
      BY <1>1, <1>2, <1>3, <1>6, <2>1 DEF Says
  <1> QED
    BY <1>4, <1>5, <1>6

\* The log after one more event.
LEMMA LogGrows ==
  ASSUME log \in Seq(Events), NEW e \in Events, log' = Append(log, e)
  PROVE  /\ log' \in Seq(Events)
         /\ \A x : Told(x)' <=> Told(x) \/ x = e
  <1>1. /\ Len(log) \in Nat /\ log' \in Seq(Events) /\ Len(log') = Len(log) + 1
        /\ \A i \in 1 .. Len(log) : log'[i] = log[i]
        /\ log'[Len(log) + 1] = e
    BY AppendProperties
  <1>2. ASSUME NEW x PROVE Told(x)' <=> Told(x) \/ x = e
    <2>1. ASSUME NEW i \in 1 .. Len(log'), log'[i] = x PROVE Told(x) \/ x = e
      BY <1>1, <2>1 DEF Told
    <2>2. ASSUME NEW i \in 1 .. Len(log), log[i] = x PROVE Told(x)'
      <3>1. i \in 1 .. Len(log') /\ log'[i] = x
        BY <1>1, <2>2
      <3> QED
        BY <3>1 DEF Told
    <2>3. Len(log) + 1 \in 1 .. Len(log')
      BY <1>1
    <2> QED
      BY <1>1, <2>1, <2>2, <2>3 DEF Told
  <1> QED
    BY <1>1, <1>2

\* The flags a body step raises.
LEMMA BodyFlags ==
  ASSUME NEW t, NEW l, NEW n, Body(t, l, n)
  PROVE  /\ plat' \in [FlagNames -> BOOLEAN]
         /\ plat'.published <=> plat.published \/ (t = "boot" /\ l = "setup" /\ n = "check")
         /\ plat'.stopping <=>
              \/ plat.stopping
              \/ t = "boot" /\ l \in {"unstartedFlags", "noReactorFlags", "noWaiter", "cancelled"}
              \/ t = "closer" /\ l = "stopping"
         /\ plat'.reactorDone <=>
              \/ plat.reactorDone
              \/ t = "boot" /\ l \in {"unstartedFlags", "noReactorFlags"}
              \/ t = "reactor" /\ l = "done"
         /\ plat'.waiterDone <=>
              \/ plat.waiterDone
              \/ t = "boot" /\ l \in {"unstartedFlags", "noReactorFlags", "noWaiter"}
              \/ t = "waiter" /\ l = "done"
         /\ plat'.closeStarted <=>
              \/ plat.closeStarted
              \/ t = "boot" /\ l \in {"noReactorFlags", "noWaiter", "cancelled"}
         /\ plat'.closeDone <=>
              \/ plat.closeDone
              \/ t = "boot" /\ l = "unstartedFlags"
              \/ t = "boot" /\ l \in {"noReactorFlags", "noWaiter", "cancelled"} /\ ~plat.closeStarted
              \/ t = "closer" /\ l = "done"
         /\ plat'.closedPosted <=>
              \/ plat.closedPosted
              \/ t = "boot" /\ l = "unstartedFlags"
              \/ t = "boot" /\ l = "noReactorFlags" /\ ~plat.closeStarted
              \/ l = "claim" /\ n = "markClosed"
  <1>1. /\ plat' \in [FlagNames -> BOOLEAN]
        /\ \A f \in FlagNames \ {"wake"} : plat'[f] <=> (plat[f] \/ f \in Raises(t, l, n))
    BY DEF Body
  <1>2. /\ plat'.published <=> plat.published \/ "published" \in Raises(t, l, n)
        /\ plat'.stopping <=> plat.stopping \/ "stopping" \in Raises(t, l, n)
        /\ plat'.reactorDone <=> plat.reactorDone \/ "reactorDone" \in Raises(t, l, n)
        /\ plat'.waiterDone <=> plat.waiterDone \/ "waiterDone" \in Raises(t, l, n)
        /\ plat'.closeStarted <=> plat.closeStarted \/ "closeStarted" \in Raises(t, l, n)
        /\ plat'.closeDone <=> plat.closeDone \/ "closeDone" \in Raises(t, l, n)
        /\ plat'.closedPosted <=> plat.closedPosted \/ "closedPosted" \in Raises(t, l, n)
    BY <1>1 DEF FlagNames
  <1>3. CASE t = "boot"
    BY <1>1, <1>2, <1>3 DEF Raises, BootRaises, Reserves
  <1>4. CASE t # "boot"
    BY <1>1, <1>2, <1>4 DEF Raises
  <1> QED
    BY <1>3, <1>4

\* What it does to the program.
LEMMA BodyProgram ==
  ASSUME SafeInv, NEW t, NEW l, NEW n, Body(t, l, n)
  PROVE  /\ Kills(t, l) => program' # "running"
         /\ program' = "running" => program = "running" \/ (t = "boot" /\ l = "spawn" /\ n = "setup")
         /\ program' = "none" <=> program = "none" /\ ~(t = "boot" /\ l = "spawn" /\ n = "setup")
         /\ program \in {"exited", "reaped"} => program' = program \/ (t = "boot" /\ l = "spawn")
         /\ report' = report \/ (t = "waiter" /\ l = "wait")
         /\ t = "boot" /\ l = "spawn" /\ n = "setup" => program' = "running"
         /\ plat.released => plat'.released
         /\ Over => Over'
  <1>0. ProgramOK /\ plat \in [FlagNames -> BOOLEAN]
    BY DEF SafeInv
  <1>1. Processes(t, l, n)
    BY DEF Body
  <1>2. /\ program \in {"exited", "reaped"} => program' = program \/ (t = "boot" /\ l = "spawn")
        /\ report' = report \/ (t = "waiter" /\ l = "wait")
        /\ t = "boot" /\ l = "spawn" /\ n = "setup" => program' = "running"
    BY <1>1 DEF Processes, StopProcess, Kills
  <1>3. /\ Kills(t, l) => program' # "running"
        /\ program' = "running" => program = "running" \/ (t = "boot" /\ l = "spawn" /\ n = "setup")
        /\ program' = "none" <=> program = "none" /\ ~(t = "boot" /\ l = "spawn" /\ n = "setup")
        /\ plat.released => plat'.released
    BY <1>0, BodyActs
  <1>4. Over => Over'
    <2>1. pc["boot"] # "spawn" => pc'["boot"] # "spawn"
      <3>1. CASE t = "boot"
        <4>1. BootEdge(l, n) /\ pc'["boot"] = n
          BY <3>1, BodyThreads
        <4>2. n # "spawn"
          BY <4>1 DEF BootEdge, EndEdge
        <4> QED
          BY <4>1, <4>2
      <3>2. CASE t # "boot"
        BY <3>2, BodyThreads DEF Threads, Workers
      <3> QED
        BY <3>1, <3>2
    <2>2. t = "boot" => pc["boot"] = l
      BY BodyThreads
    <2> QED
      BY <1>3, <2>1, <2>2 DEF Over
  <1> QED
    BY <1>2, <1>3, <1>4

\* The threads stay as the invariant says.
LEMMA BodyWorkers ==
  ASSUME RefsInv, SafeInv, WorkersOK, "waiter" \notin Faults,
         NEW t, NEW l, NEW n, Body(t, l, n)
  PROVE  WorkersOK'
  <1>1. /\ t \in Threads /\ pc[t] = l /\ pc'[t] = n
        /\ t = "boot" => BootEdge(l, n)
        /\ t = "reactor" => ReactorEdge(l, n)
        /\ t = "waiter" => WaiterEdge(l, n)
        /\ t = "owner" => OwnerEdge(l, n)
        /\ t # "boot" => \A u \in {"boot", "reactor", "waiter", "owner"} \ {t} : pc'[u] = pc[u]
        /\ t = "boot" =>
              /\ pc'["reactor"] = IF l = "reactor" /\ n = "waiter" THEN "top" ELSE pc["reactor"]
              /\ pc'["waiter"] = IF l = "waiter" /\ n = "run" THEN "wait" ELSE pc["waiter"]
              /\ pc'["owner"] = pc["owner"]
    BY BodyThreads DEF Threads, Workers
  <1>2. /\ Kills(t, l) => program' # "running"
        /\ program' = "running" => program = "running" \/ (t = "boot" /\ l = "spawn" /\ n = "setup")
        /\ program' = "none" <=> program = "none" /\ ~(t = "boot" /\ l = "spawn" /\ n = "setup")
        /\ program \in {"exited", "reaped"} => program' = program \/ (t = "boot" /\ l = "spawn")
        /\ report' = report \/ (t = "waiter" /\ l = "wait")
        /\ t = "boot" /\ l = "spawn" /\ n = "setup" => program' = "running"
        /\ plat.released => plat'.released
        /\ Over => Over'
    BY BodyProgram
  <1>3. /\ plat'.reactorDone <=>
              \/ plat.reactorDone
              \/ t = "boot" /\ l \in {"unstartedFlags", "noReactorFlags"}
              \/ t = "reactor" /\ l = "done"
        /\ plat'.waiterDone <=>
              \/ plat.waiterDone
              \/ t = "boot" /\ l \in {"unstartedFlags", "noReactorFlags", "noWaiter"}
              \/ t = "waiter" /\ l = "done"
    BY BodyFlags
  <1>4. /\ pc["boot"] \in BeforeReactor => pc["reactor"] = "off"
        /\ pc["boot"] \in BeforeWaiter => pc["waiter"] = "off"
    BY DEF RefsInv, StartsOnce
  <1>5. /\ pc["boot"] \notin NoWaiterLabels
        /\ pc["boot"] = "spawn" => program = "none"
    BY DEF SafeInv, ClosedOK, ProgramOK
  <1>6. t = "boot" => n \notin NoWaiterLabels
    BY <1>1, <1>5 DEF BootEdge, EndEdge, NoWaiterLabels
  <1>7. pc'["boot"] # "off"
    BY <1>1 DEF WorkersOK, BootEdge, EndEdge
  <1>8. pc'["boot"] \in LoneLabels => pc'["reactor"] = "off" /\ pc'["waiter"] = "off"
    <2>1. CASE t = "boot"
      <3>1. n \in LoneLabels => l \in LoneLabels /\ n # "waiter" /\ n # "run"
        BY <1>1, <2>1 DEF BootEdge, EndEdge, LoneLabels, BeforeReactor, FailedLabels,
                          UnstartedLabels, LateLabels, NoReactorLabels
      <3> QED
        BY <1>1, <2>1, <3>1 DEF WorkersOK
    <2>2. CASE t # "boot"
      BY <1>1, <2>2 DEF WorkersOK, ReactorEdge, WaiterEdge, EndEdge
    <2> QED
      BY <2>1, <2>2
  <1>9. pc'["boot"] \notin AloneLabels => pc'["waiter"] # "off" \/ Over'
    <2>1. CASE t = "boot"
      <3>1. CASE l \in AloneLabels /\ n \notin AloneLabels
        <4>1. \/ l = "spawn" /\ n = "failed"
              \/ l = "setup" /\ n # "check"
              \/ l \in {"unstartedRelease", "noReactorRelease"}
              \/ l = "waiter" /\ n = "run"
              \/ l = "noWaiterRelease"
          BY <1>1, <2>1, <3>1 DEF BootEdge, EndEdge, AloneLabels
        <4>2. l # "noWaiterRelease"
          BY <1>1, <1>5, <2>1 DEF NoWaiterLabels
        <4>3. plat'.released <=>
                \/ plat.released
                \/ t = "boot" /\ l \in {"unstartedRelease", "noReactorRelease", "noWaiterRelease"}
                \/ t = "boot" /\ l = "setup" /\ n # "check"
                \/ t = "waiter" /\ l = "unregister"
          BY BodyActs DEF SafeInv
        <4> QED
          BY <1>1, <1>2, <1>5, <2>1, <4>1, <4>2, <4>3 DEF Over
      <3>2. CASE l \notin AloneLabels
        BY <1>1, <1>2, <2>1, <3>2 DEF WorkersOK
      <3> QED
        BY <1>1, <2>1, <3>1, <3>2
    <2>2. CASE t # "boot"
      BY <1>1, <1>2, <2>2 DEF WorkersOK, WaiterEdge, EndEdge
    <2> QED
      BY <2>1, <2>2
  <1>10. plat'.reactorDone => /\ pc'["reactor"] \in EndLabels \cup {"off"}
                              /\ pc'["boot"] \notin FlaglessLabels
    <2>1. CASE t = "boot"
      <3>1. l \notin FlaglessLabels => n \notin FlaglessLabels
        BY <1>1, <2>1 DEF BootEdge, EndEdge, FlaglessLabels, BeforeReactor, FailedLabels
      <3>2. l \in {"unstartedFlags", "noReactorFlags"} =>
              /\ n \notin FlaglessLabels /\ pc["reactor"] = "off" /\ n # "waiter"
        BY <1>1, <2>1 DEF BootEdge, EndEdge, FlaglessLabels, BeforeReactor, FailedLabels,
                          WorkersOK, LoneLabels, UnstartedLabels, NoReactorLabels
      <3>3. l = "reactor" => l \in FlaglessLabels
        BY DEF FlaglessLabels, BeforeReactor
      <3> QED
        BY <1>1, <1>3, <2>1, <3>1, <3>2, <3>3 DEF WorkersOK
    <2>2. CASE t = "reactor"
      <3>1. pc["boot"] \notin LoneLabels
        BY <1>1, <2>2 DEF WorkersOK, ReactorEdge, EndEdge
      <3>2. pc["boot"] \notin FlaglessLabels
        BY <3>1 DEF LoneLabels, FlaglessLabels, UnstartedLabels, NoReactorLabels
      <3>3. l \in EndLabels \/ l = "done" => n \in EndLabels
        BY <1>1, <2>2 DEF ReactorEdge, EndEdge, EndLabels
      <3> QED
        BY <1>1, <1>3, <2>2, <3>2, <3>3 DEF WorkersOK, ReactorEdge, EndEdge
    <2>3. CASE t \notin {"boot", "reactor"}
      BY <1>1, <1>3, <2>3 DEF WorkersOK
    <2> QED
      BY <2>1, <2>2, <2>3
  <1>11. plat'.waiterDone => /\ pc'["waiter"] \in EndLabels \cup {"off"}
                             /\ pc'["boot"] \notin FlaglessLabels \cup {"waiter"}
    <2>1. CASE t = "boot"
      <3>1. l \notin FlaglessLabels \cup {"waiter"} => n \notin FlaglessLabels \cup {"waiter"}
        BY <1>1, <2>1 DEF BootEdge, EndEdge, FlaglessLabels, BeforeReactor, FailedLabels
      <3>2. l \in {"unstartedFlags", "noReactorFlags"} =>
              /\ n \notin FlaglessLabels \cup {"waiter"} /\ pc["waiter"] = "off" /\ n # "run"
        BY <1>1, <2>1 DEF BootEdge, EndEdge, FlaglessLabels, BeforeReactor, FailedLabels,
                          WorkersOK, LoneLabels, UnstartedLabels, NoReactorLabels
      <3>3. l # "noWaiter"
        BY <1>1, <1>5, <2>1 DEF NoWaiterLabels
      <3> QED
        BY <1>1, <1>3, <2>1, <3>1, <3>2, <3>3 DEF WorkersOK
    <2>2. CASE t = "waiter"
      <3>1. pc["boot"] \notin LoneLabels /\ pc["boot"] # "waiter"
        BY <1>1, <1>4, <2>2 DEF WorkersOK, WaiterEdge, EndEdge, BeforeWaiter
      <3>2. pc["boot"] \notin FlaglessLabels \cup {"waiter"}
        BY <3>1 DEF LoneLabels, FlaglessLabels, UnstartedLabels, NoReactorLabels
      <3>3. l \in EndLabels \/ l = "done" => n \in EndLabels
        BY <1>1, <2>2 DEF WaiterEdge, EndEdge, EndLabels
      <3> QED
        BY <1>1, <1>3, <2>2, <3>2, <3>3 DEF WorkersOK, WaiterEdge, EndEdge
    <2>3. CASE t \notin {"boot", "waiter"}
      BY <1>1, <1>3, <2>3 DEF WorkersOK
    <2> QED
      BY <2>1, <2>2, <2>3
  <1>12. pc'["boot"] \in {"setup", "check", "reactor", "waiter", "run", "spawned"} => program' # "none"
    BY <1>1, <1>2 DEF WorkersOK, BootEdge, EndEdge
  <1>13. pc'["boot"] \in {"cancelWake", "cancelAnswer"} => program' # "running"
    BY <1>1, <1>2, <1>5 DEF WorkersOK, BootEdge, EndEdge, Kills, NoWaiterLabels
  <1>14. report' = "exit" => program' \in {"exited", "reaped"}
    <2>1. report = "exit" => program \in {"exited", "reaped"} /\ pc["boot"] # "spawn"
      BY <1>5 DEF WorkersOK
    <2>2. t = "waiter" /\ l = "wait" /\ report' = "exit" => program \in {"exited", "reaped"}
      BY <1>1 DEF WaiterEdge, EndEdge
    <2> QED
      BY <1>1, <1>2, <2>1, <2>2
  <1>15. pc'["owner"] \in {"idle", "wake"}
    BY <1>1 DEF WorkersOK, OwnerEdge
  <1> QED
    BY <1>7, <1>8, <1>9, <1>10, <1>11, <1>12, <1>13, <1>14, <1>15 DEF WorkersOK

\* A session that is not published stays as it is.
LEMMA BodyUnpublished ==
  ASSUME RefsInv, SafeInv, UnpublishedOK, portOpen \in BOOLEAN, abandoned \in BOOLEAN,
         NEW t, NEW l, NEW n, Body(t, l, n)
  PROVE  UnpublishedOK'
  <1>1. /\ t \in Threads /\ pc[t] = l /\ pc'[t] = n /\ t \in {"boot", "reactor", "waiter", "closer", "owner"}
        /\ t = "boot" => BootEdge(l, n)
        /\ t = "reactor" => ReactorEdge(l, n)
        /\ t = "waiter" => WaiterEdge(l, n)
        /\ t = "closer" => CloserEdge(l, n)
        /\ t # "boot" => \A u \in {"boot", "reactor", "waiter", "closer"} \ {t} : pc'[u] = pc[u]
        /\ t = "boot" =>
              /\ pc'["reactor"] = IF l = "reactor" /\ n = "waiter" THEN "top" ELSE pc["reactor"]
              /\ pc'["waiter"] = IF l = "waiter" /\ n = "run" THEN "wait" ELSE pc["waiter"]
              /\ pc'["closer"] = pc["closer"]
    BY BodyThreads DEF Threads, Workers
  <1>2. /\ plat'.published <=> plat.published \/ (t = "boot" /\ l = "setup" /\ n = "check")
        /\ plat'.reactorDone <=>
              \/ plat.reactorDone
              \/ t = "boot" /\ l \in {"unstartedFlags", "noReactorFlags"}
              \/ t = "reactor" /\ l = "done"
        /\ plat'.closedPosted <=>
              \/ plat.closedPosted
              \/ t = "boot" /\ l = "unstartedFlags"
              \/ t = "boot" /\ l = "noReactorFlags" /\ ~plat.closeStarted
              \/ l = "claim" /\ n = "markClosed"
    BY BodyFlags
  <1>3. \A u \in Threads : call'[u] = call[u] \/ call'[u] = "abandon"
    BY BodySays DEF RefsInv, RefsTypeOK
  <1>4. t \in {"reactor", "waiter", "closer"} => l # "off"
    BY <1>1 DEF ReactorEdge, WaiterEdge, CloserEdge, EndEdge
  <1>5. pc'["boot"] \in {"spawn", "setup"} \cup FailedLabels => ~plat'.published
    <2>1. CASE t = "boot"
      <3>1. n \in {"spawn", "setup"} \cup FailedLabels =>
              l \in {"spawn", "setup"} \cup FailedLabels /\ n # "check"
        BY <1>1, <2>1 DEF BootEdge, EndEdge, FailedLabels
      <3> QED
        BY <1>1, <1>2, <2>1, <3>1 DEF UnpublishedOK
    <2>2. CASE t # "boot"
      BY <1>1, <1>2, <2>2 DEF UnpublishedOK
    <2> QED
      BY <2>1, <2>2
  <1>6. ASSUME ~plat'.published
        PROVE  /\ pc'["boot"] \in {"spawn", "setup", "markClosed", "postClosed"}
                                     \cup FailedLabels \cup BootGone
               /\ pc'["reactor"] = "off" /\ pc'["waiter"] = "off" /\ pc'["closer"] = "off"
               /\ \A u \in Threads : call'[u] \in {"none", "abandon", "lifecycle"}
               /\ ~plat'.closedPosted /\ ~plat'.reactorDone
    <2>1. ~plat.published /\ ~(t = "boot" /\ l = "setup" /\ n = "check")
      BY <1>2, <1>6
    <2>2. /\ pc["boot"] \in {"spawn", "setup", "markClosed", "postClosed"}
                              \cup FailedLabels \cup BootGone
          /\ pc["reactor"] = "off" /\ pc["waiter"] = "off" /\ pc["closer"] = "off"
          /\ \A u \in Threads : call[u] \in {"none", "abandon", "lifecycle"}
          /\ ~plat.closedPosted /\ ~plat.reactorDone
      BY <2>1 DEF UnpublishedOK
    <2>3. t \in {"boot", "owner"}
      BY <1>1, <1>4, <2>2
    <2>4. t = "boot" => /\ n \in {"spawn", "setup", "markClosed", "postClosed"}
                                   \cup FailedLabels \cup BootGone
                        /\ l \notin {"reactor", "waiter", "unstartedFlags", "noReactorFlags", "claim"}
      BY <1>1, <2>1, <2>2 DEF BootEdge, EndEdge, FailedLabels, BootGone
    <2>5. t = "owner" => l # "claim"
      BY BodyThreads, <2>3 DEF OwnerEdge
    <2> QED
      BY <1>1, <1>2, <1>3, <2>2, <2>3, <2>4, <2>5
  <1> QED
    BY <1>5, <1>6 DEF UnpublishedOK

\* What the isolate is told after a body step.
LEMMA BodyTells ==
  ASSUME log \in Seq(Events), portOpen \in BOOLEAN, abandoned \in BOOLEAN,
         NEW t, NEW l, NEW n, Body(t, l, n)
  PROVE  /\ log' \in Seq(Events)
         /\ \A x : Told(x) => Told(x)'
         /\ \A x : Told(x)' => Told(x) \/ (Listening /\ Says(t, l, n, x))
  <1>1. log' = log \/ (Listening /\ \E e : Says(t, l, n, e) /\ log' = Append(log, e))
    BY BodySays
  <1>2. CASE log' = log
    BY <1>2 DEF Told
  <1>3. CASE log' # log
    <2>1. PICK e : Listening /\ Says(t, l, n, e) /\ log' = Append(log, e)
      BY <1>1, <1>3
    <2>2. e \in Events
      BY <2>1 DEF Says, Posts, Events
    <2>3. log' \in Seq(Events) /\ \A x : Told(x)' <=> Told(x) \/ x = e
      BY <2>1, <2>2, LogGrows
    <2> QED
      BY <2>1, <2>3
  <1> QED
    BY <1>2, <1>3

\* The step at which each event is posted.
LEMMA SaysWhere ==
  ASSUME NEW t, NEW l, NEW n
  PROVE  /\ Says(t, l, n, "SESSION_CLOSED") => t \in Workers /\ l = "postClosed"
         /\ Says(t, l, n, "SPAWNED") => t = "boot" /\ l = "spawned"
         /\ Says(t, l, n, "SPAWN_FAILED") =>
              t = "boot" /\ l \in {"failed", "setupFailed", "unstartedAnswer", "noReactorAnswer",
                                   "lateAnswer", "cancelAnswer"}
         /\ Says(t, l, n, "ASYNC_ERROR") =>
              \/ t = "reactor" /\ l = "work" /\ n = "output"
              \/ t = "waiter" /\ l = "post" /\ report # "exit"
         /\ Says(t, l, n, "OUTPUT_CLOSED") =>
              \/ t = "boot" /\ l \in {"failedOutput", "unstartedOutput", "noReactorOutput", "lateOutput"}
              \/ t = "reactor" /\ l = "output"
         /\ Says(t, l, n, "INPUT_CLOSED") => t = "reactor" /\ l = "input"
         /\ Says(t, l, n, "PROCESS_EXIT") => t = "waiter" /\ l = "post" /\ report = "exit"
  BY DEF Says, Posts

\* Nobody starts a close worker later either.
LEMMA BodyShut ==
  ASSUME RefsInv, Shut, portOpen \in BOOLEAN, abandoned \in BOOLEAN,
         NEW t, NEW l, NEW n, Body(t, l, n)
  PROVE  Shut'
  <1>1. \A u \in Threads : call'[u] = call[u] \/ call'[u] = "abandon"
    BY BodySays DEF RefsInv, RefsTypeOK
  <1>2. /\ plat.closeStarted => plat'.closeStarted
        /\ plat'.published <=> plat.published \/ (t = "boot" /\ l = "setup" /\ n = "check")
    BY BodyFlags
  <1>3. CASE plat.closeStarted
    BY <1>1, <1>2, <1>3 DEF Shut
  <1>4. CASE ~plat.published /\ pc["boot"] \in BootGone
    <2>1. /\ t = "boot" => pc["boot"] = l /\ pc'["boot"] = n /\ BootEdge(l, n)
          /\ t # "boot" => pc'["boot"] = pc["boot"]
      BY BodyThreads DEF Threads, Workers
    <2>2. t = "boot" => l = "release" /\ n = "end"
      BY <1>4, <2>1 DEF BootEdge, EndEdge, BootGone
    <2>3. pc'["boot"] \in BootGone /\ ~plat'.published
      BY <1>2, <1>4, <2>1, <2>2 DEF BootGone
    <2> QED
      BY <1>1, <2>3 DEF Shut
  <1> QED
    BY <1>3, <1>4 DEF Shut

\* Before the bootstrap has answered nothing closes the session under it.
LEMMA LoneIsCalm ==
  ASSUME WorkersOK, ToldOK, Listening, pc["boot"] \in LoneLabels \cap UnansweredLabels
  PROVE  Calm
  BY DEF WorkersOK, ToldOK

\* A body step that makes its thread the one to post SESSION_CLOSED.
LEMMA BodyCloses ==
  ASSUME RefsInv, SafeInv, WorkersOK, UnpublishedOK, ClaimOK, ToldOK, Listening,
         portOpen \in BOOLEAN, abandoned \in BOOLEAN,
         NEW t, NEW l, NEW n, Body(t, l, n)
  PROVE  /\ pc'["boot"] \notin UnstartedLabels \cup LateLabels
         /\ plat'.closedPosted =>
              \/ plat.closedPosted
              \/ plat'.reactorDone /\ plat'.waiterDone /\ plat'.closeDone
         /\ \A u \in Threads : Closes(u)' => Closes(u) \/ u = t
         /\ Closes(t)' => Closes(t) \/
              /\ plat'.closedPosted \/ (t = "boot" /\ ~plat'.published)
              /\ \A u \in Threads : Closes(u) => u = t
              /\ ~Told("SESSION_CLOSED")
  <1>1. /\ t \in Threads /\ pc[t] = l /\ pc'[t] = n /\ call[t] = "none"
        /\ t = "boot" => BootEdge(l, n)
        /\ t = "reactor" => ReactorEdge(l, n)
        /\ t = "waiter" => WaiterEdge(l, n)
        /\ t = "closer" => CloserEdge(l, n)
        /\ t = "owner" => OwnerEdge(l, n)
        /\ t # "boot" => \A u \in Threads \ {t} : pc'[u] = pc[u]
        /\ t = "boot" => \A u \in Threads \ {t} : pc'[u] = pc[u] \/ pc'[u] \in {"top", "wait"}
        /\ t \in {"boot", "reactor", "waiter", "closer", "owner"} /\ "boot" \in Threads
    BY BodyThreads DEF Threads, Workers
  <1>2. \A u \in Threads : call'[u] = call[u] \/ (u = t /\ call'[u] = "abandon")
    BY BodySays DEF RefsInv, RefsTypeOK
  <1>3. /\ plat'.published <=> plat.published \/ (t = "boot" /\ l = "setup" /\ n = "check")
        /\ plat'.reactorDone <=>
              \/ plat.reactorDone
              \/ t = "boot" /\ l \in {"unstartedFlags", "noReactorFlags"}
              \/ t = "reactor" /\ l = "done"
        /\ plat'.waiterDone <=>
              \/ plat.waiterDone
              \/ t = "boot" /\ l \in {"unstartedFlags", "noReactorFlags", "noWaiter"}
              \/ t = "waiter" /\ l = "done"
        /\ plat'.closeDone <=>
              \/ plat.closeDone
              \/ t = "boot" /\ l = "unstartedFlags"
              \/ t = "boot" /\ l \in {"noReactorFlags", "noWaiter", "cancelled"} /\ ~plat.closeStarted
              \/ t = "closer" /\ l = "done"
        /\ plat'.closedPosted <=>
              \/ plat.closedPosted
              \/ t = "boot" /\ l = "unstartedFlags"
              \/ t = "boot" /\ l = "noReactorFlags" /\ ~plat.closeStarted
              \/ l = "claim" /\ n = "markClosed"
    BY BodyFlags
  <1>4. /\ pc["boot"] \notin UnstartedLabels \cup LateLabels
        /\ plat.closeDone => plat.closeStarted
        /\ plat.closedPosted => plat.reactorDone /\ plat.waiterDone /\ plat.closeDone
        /\ \A u \in Threads : Closes(u) => plat.closedPosted \/ (u = "boot" /\ ~plat.published)
        /\ Told("SESSION_CLOSED") =>
             plat.closedPosted \/ (~plat.published /\ pc["boot"] \in BootGone)
    BY DEF ClaimOK
  <1>5. /\ pc["boot"] \in {"spawn", "setup"} \cup FailedLabels => ~plat.published
        /\ ~plat.published => ~plat.closedPosted /\ ~plat.reactorDone
    BY DEF UnpublishedOK
  <1>6. l = "claim" /\ n = "markClosed" => Claimable
    BY <1>1 DEF BootEdge, ReactorEdge, WaiterEdge, CloserEdge, OwnerEdge, EndEdge
  <1>7. pc'["boot"] \notin UnstartedLabels \cup LateLabels
    <2>1. CASE t # "boot"
      BY <1>1, <1>4, <2>1
    <2>2. CASE t = "boot" /\ l \notin {"check", "noReactorFlags"}
      BY <1>1, <1>4, <2>2 DEF BootEdge, EndEdge, UnstartedLabels, LateLabels
    <2>3. CASE t = "boot" /\ l \in {"check", "noReactorFlags"}
      <3>1. l \in LoneLabels \cap UnansweredLabels
        BY <2>3 DEF LoneLabels, UnansweredLabels, BeforeReactor, BeforeWaiter, NoReactorLabels
      <3>2. Calm
        BY <1>1, <2>3, <3>1, LoneIsCalm
      <3>3. /\ ~plat.closeStarted /\ ~plat.stopping
            /\ l = "check" => lifecycle = "STARTING"
        BY <1>1, <2>3, <3>2 DEF Calm, NoReactorLabels
      <3>4. n \in {"reactor", "noReactorAnswer"}
        BY <1>1, <2>3, <3>3 DEF BootEdge, EndEdge
      <3> QED
        BY <1>1, <2>3, <3>4 DEF UnstartedLabels, LateLabels
    <2> QED
      BY <2>1, <2>2, <2>3
  <1>8. ~(t = "boot" /\ l \in UnstartedLabels)
    BY <1>1, <1>4
  <1>9. plat'.closedPosted => \/ plat.closedPosted
                              \/ plat'.reactorDone /\ plat'.waiterDone /\ plat'.closeDone
    BY <1>3, <1>6, <1>8 DEF Claimable, AllDone, UnstartedLabels
  <1>10. \A u \in Threads : Closes(u)' => Closes(u) \/ u = t
    BY <1>1, <1>2 DEF Closes
  <1>11. ASSUME Closes(t)', ~Closes(t)
         PROVE  /\ plat'.closedPosted \/ (t = "boot" /\ ~plat'.published)
                /\ \A u \in Threads : Closes(u) => u = t
                /\ ~Told("SESSION_CLOSED")
    <2>1. \/ n \in {"markClosed", "postClosed"}
          \/ t = "boot" /\ n \in {"noReactorAnswer", "noReactorOutput"}
      BY <1>1, <1>2, <1>11 DEF Closes
    <2>2. /\ l \notin {"markClosed", "postClosed"}
          /\ ~(t = "boot" /\ l \in {"noReactorAnswer", "noReactorOutput"})
      BY <1>1, <1>11 DEF Closes
    <2>3. \/ l = "claim" /\ n = "markClosed"
          \/ t = "boot" /\ l = "failedMark" /\ n = "markClosed"
          \/ t = "boot" /\ l = "noReactorFlags" /\ n = "noReactorAnswer" /\ ~plat.closeStarted
      BY <1>1, <1>8, <2>1, <2>2
         DEF BootEdge, ReactorEdge, WaiterEdge, CloserEdge, OwnerEdge, EndEdge, UnstartedLabels
    <2>4. CASE l = "claim" /\ n = "markClosed"
      <3>1. plat.reactorDone /\ ~plat.closedPosted /\ plat.published
        BY <1>5, <1>6, <2>4 DEF Claimable, AllDone
      <3> QED
        BY <1>3, <1>4, <2>4, <3>1
    <2>5. CASE t = "boot" /\ l = "failedMark" /\ n = "markClosed"
      <3>1. ~plat.published /\ ~plat.closedPosted /\ pc["boot"] \notin BootGone
        BY <1>1, <1>5, <2>5 DEF FailedLabels, BootGone
      <3> QED
        BY <1>3, <1>4, <2>5, <3>1
    <2>6. CASE t = "boot" /\ l = "noReactorFlags" /\ n = "noReactorAnswer" /\ ~plat.closeStarted
      <3>1. ~plat.closedPosted /\ pc["boot"] \notin BootGone /\ plat'.closedPosted
        BY <1>1, <1>3, <1>4, <2>6 DEF BootGone
      <3> QED
        BY <1>4, <2>6, <3>1
    <2> QED
      BY <2>3, <2>4, <2>5, <2>6
  <1> QED
    BY <1>7, <1>9, <1>10, <1>11

\* SESSION_CLOSED is claimed by one thread and posted when the session is over.
LEMMA BodyClaim ==
  ASSUME RefsInv, SafeInv, WorkersOK, UnpublishedOK, ClaimOK, ToldOK, "waiter" \notin Faults,
         portOpen \in BOOLEAN, abandoned \in BOOLEAN,
         NEW t, NEW l, NEW n, Body(t, l, n)
  PROVE  ClaimOK'
  <1>1. /\ t \in Threads /\ pc[t] = l /\ pc'[t] = n /\ call[t] = "none"
        /\ t = "boot" => BootEdge(l, n)
        /\ t = "reactor" => ReactorEdge(l, n)
        /\ t = "waiter" => WaiterEdge(l, n)
        /\ t = "closer" => CloserEdge(l, n)
        /\ t = "owner" => OwnerEdge(l, n)
        /\ \A u \in Threads \ {t} : pc'[u] = pc[u] \/ pc'[u] \in {"top", "wait"}
        /\ t # "boot" => pc'["boot"] = pc["boot"]
        /\ t \in {"boot", "reactor", "waiter", "closer", "owner"} /\ "boot" \in Threads
    BY BodyThreads DEF Threads, Workers
  <1>2. \A u \in Threads : call'[u] = call[u] \/ (u = t /\ call'[u] = "abandon")
    BY BodySays DEF RefsInv, RefsTypeOK
  <1>3. UNCHANGED <<portOpen, abandoned, dart>>
    BY BodySays
  <1>4. /\ \A x : Told(x) => Told(x)'
        /\ Told("SESSION_CLOSED")' =>
             Told("SESSION_CLOSED") \/ (Listening /\ t \in Workers /\ l = "postClosed")
    BY BodyTells, SaysWhere DEF ToldOK
  <1>5. Over => Over'
    BY BodyProgram
  <1>6. \A u \in Threads : pc'[u] = "postClosed" \/ call'[u] = "post" => Over'
    <2>1. ASSUME NEW u \in Threads, pc'[u] = "postClosed", pc[u] # "postClosed" PROVE Over
      <3>1. u = t /\ n = "postClosed"
        BY <1>1, <2>1
      <3>2. l = "markClosed" \/ (t = "boot" /\ l = "unstartedOutput")
        BY <1>1, <3>1 DEF BootEdge, ReactorEdge, WaiterEdge, CloserEdge, OwnerEdge, EndEdge
      <3> QED
        BY <1>1, <3>2 DEF SafeInv, ClosedOK, BootOK, OverLabels
    <2> QED
      BY <1>2, <1>5, <2>1 DEF ClaimOK
  <1>7. Told("SESSION_CLOSED")' \/ dart'.closed => Shut' /\ Over'
    <2>1. CASE Told("SESSION_CLOSED") \/ dart.closed
      BY <1>5, <2>1, BodyShut DEF ClaimOK
    <2>2. CASE Listening /\ t \in Workers /\ l = "postClosed"
      <3>1. Closes(t) /\ n = "release" /\ Over
        BY <1>1, <2>2 DEF Closes, ClaimOK, BootEdge, ReactorEdge, WaiterEdge, CloserEdge,
                          OwnerEdge, EndEdge
      <3>2. plat.closedPosted \/ (t = "boot" /\ ~plat.published)
        BY <1>1, <2>2, <3>1 DEF ClaimOK
      <3>3. CASE plat.closedPosted
        <4>1. Shut
          BY <2>2, <3>3 DEF ClaimOK, Shut
        <4> QED
          BY <1>5, <3>1, <4>1, BodyShut
      <3>4. CASE t = "boot" /\ ~plat.published
        <4>1. ~plat'.published
          BY <2>2, <3>4, BodyFlags
        <4>2. \A u \in Threads : call[u] # "create"
          BY <3>4 DEF UnpublishedOK
        <4> QED
          BY <1>1, <1>2, <1>5, <3>1, <3>4, <4>1, <4>2 DEF Shut, BootGone
      <3> QED
        BY <3>2, <3>3, <3>4
    <2> QED
      BY <1>3, <1>4, <2>1, <2>2
  <1>8. ASSUME Listening'
        PROVE  /\ pc'["boot"] \notin UnstartedLabels \cup LateLabels
               /\ plat'.closeDone => plat'.closeStarted /\ \A u \in Threads : call'[u] # "create"
               /\ plat'.closedPosted => plat'.reactorDone /\ plat'.waiterDone /\ plat'.closeDone
               /\ \A u \in Threads : Closes(u)' =>
                    plat'.closedPosted \/ (u = "boot" /\ ~plat'.published)
               /\ \A u, v \in Threads : Closes(u)' /\ Closes(v)' => u = v
               /\ Told("SESSION_CLOSED")' =>
                    /\ plat'.closedPosted \/ (~plat'.published /\ pc'["boot"] \in BootGone)
                    /\ \A u \in Threads : ~Closes(u)'
    <2>1. Listening
      BY <1>3, <1>8 DEF Listening
    <2>2. /\ pc["boot"] \notin UnstartedLabels \cup LateLabels
          /\ plat.closeDone => plat.closeStarted /\ \A u \in Threads : call[u] # "create"
          /\ plat.closedPosted => plat.reactorDone /\ plat.waiterDone /\ plat.closeDone
          /\ \A u \in Threads : Closes(u) => plat.closedPosted \/ (u = "boot" /\ ~plat.published)
          /\ \A u, v \in Threads : Closes(u) /\ Closes(v) => u = v
          /\ Told("SESSION_CLOSED") =>
               /\ plat.closedPosted \/ (~plat.published /\ pc["boot"] \in BootGone)
               /\ \A u \in Threads : ~Closes(u)
      BY <2>1 DEF ClaimOK
    <2>3. /\ pc'["boot"] \notin UnstartedLabels \cup LateLabels
          /\ plat'.closedPosted =>
               \/ plat.closedPosted
               \/ plat'.reactorDone /\ plat'.waiterDone /\ plat'.closeDone
          /\ \A u \in Threads : Closes(u)' => Closes(u) \/ u = t
          /\ Closes(t)' => Closes(t) \/
               /\ plat'.closedPosted \/ (t = "boot" /\ ~plat'.published)
               /\ \A u \in Threads : Closes(u) => u = t
               /\ ~Told("SESSION_CLOSED")
      BY <2>1, BodyCloses
    <2>4. /\ plat'.published <=> plat.published \/ (t = "boot" /\ l = "setup" /\ n = "check")
          /\ plat.reactorDone => plat'.reactorDone
          /\ plat.waiterDone => plat'.waiterDone
          /\ plat'.closeStarted <=>
              \/ plat.closeStarted
              \/ t = "boot" /\ l \in {"noReactorFlags", "noWaiter", "cancelled"}
          /\ plat'.closeDone <=>
              \/ plat.closeDone
              \/ t = "boot" /\ l = "unstartedFlags"
              \/ t = "boot" /\ l \in {"noReactorFlags", "noWaiter", "cancelled"} /\ ~plat.closeStarted
              \/ t = "closer" /\ l = "done"
          /\ plat.closedPosted => plat'.closedPosted
      BY BodyFlags
    <2>5. plat'.closeDone => plat'.closeStarted /\ \A u \in Threads : call'[u] # "create"
      <3>1. CASE plat.closeDone
        BY <1>2, <2>2, <2>4, <3>1
      <3>2. CASE t = "boot" /\ l \in {"noReactorFlags", "noWaiter", "cancelled"} /\ ~plat.closeStarted
        BY <1>2, <2>4, <3>2 DEF RefsInv, ClosesOnce
      <3>3. CASE t = "closer" /\ l = "done"
        BY <1>1, <1>2, <2>4, <3>3 DEF RefsInv, ClosesOnce
      <3>4. ~(t = "boot" /\ l = "unstartedFlags")
        BY <1>1, <2>2 DEF UnstartedLabels
      <3> QED
        BY <2>4, <3>1, <3>2, <3>3, <3>4
    <2>6. ~(t = "boot" /\ l = "setup" /\ n = "check") \/ ~Closes("boot")
      BY <1>1 DEF Closes, UnpublishedOK
    <2>7. \A u \in Threads : Closes(u)' => plat'.closedPosted \/ (u = "boot" /\ ~plat'.published)
      BY <2>2, <2>3, <2>4, <2>6
    <2>8. \A u, v \in Threads : Closes(u)' /\ Closes(v)' => u = v
      BY <2>2, <2>3
    <2>9. ASSUME Told("SESSION_CLOSED")'
          PROVE  /\ plat'.closedPosted \/ (~plat'.published /\ pc'["boot"] \in BootGone)
                 /\ \A u \in Threads : ~Closes(u)'
      <3>1. CASE Told("SESSION_CLOSED")
        <4>1. \A u \in Threads : ~Closes(u)'
          BY <2>2, <2>3, <3>1
        <4>2. pc["boot"] \in BootGone => pc'["boot"] \in BootGone /\ ~(t = "boot" /\ l = "setup")
          BY <1>1 DEF BootGone, BootEdge, EndEdge
        <4> QED
          BY <2>2, <2>4, <3>1, <4>1, <4>2
      <3>2. CASE t \in Workers /\ l = "postClosed"
        <4>1. Closes(t) /\ n = "release"
          BY <1>1, <3>2 DEF Closes, BootEdge, ReactorEdge, WaiterEdge, CloserEdge, OwnerEdge,
                            EndEdge
        <4>2. ~Closes(t)'
          BY <1>1, <1>2, <4>1 DEF Closes
        <4>3. \A u \in Threads : ~Closes(u)'
          BY <1>1, <2>2, <2>3, <4>1, <4>2
        <4>4. plat.closedPosted \/ (t = "boot" /\ ~plat.published)
          BY <1>1, <2>2, <4>1
        <4> QED
          BY <1>1, <2>4, <3>2, <4>1, <4>3, <4>4 DEF BootGone
      <3> QED
        BY <1>4, <2>9, <3>1, <3>2
    <2> QED
      BY <2>2, <2>3, <2>4, <2>5, <2>7, <2>8, <2>9
  <1> QED
    BY <1>6, <1>7, <1>8 DEF ClaimOK

\* While the isolate waits for its answer and no error has reached it, it stays
\* calm.
LEMMA BodyCalm ==
  ASSUME RefsInv, SafeInv, WorkersOK, UnpublishedOK, ClaimOK, ToldOK, "waiter" \notin Faults,
         portOpen \in BOOLEAN, abandoned \in BOOLEAN, Listening, Calm,
         NEW t, NEW l, NEW n, Body(t, l, n),
         pc["boot"] \in UnansweredLabels, pc'["boot"] \in UnansweredLabels
  PROVE  Calm'
  <1>1. /\ t \in Threads /\ pc[t] = l /\ pc'[t] = n
        /\ t = "boot" => BootEdge(l, n)
        /\ t = "closer" => CloserEdge(l, n)
        /\ t # "boot" => pc'["boot"] = pc["boot"]
        /\ t # "closer" => pc'["closer"] = pc["closer"]
        /\ t \in {"boot", "reactor", "waiter", "closer", "owner"} /\ "boot" \in Threads
    BY BodyThreads DEF Threads, Workers
  <1>2. UNCHANGED <<call, dart>>
    BY BodySays
  <1>3. /\ pc["closer"] = "off" /\ pc["boot"] \notin CancelLabels
        /\ pc["boot"] \notin NoReactorLabels \cup {"spawned"} => lifecycle = "STARTING"
        /\ pc["boot"] # "noReactorAnswer" =>
             ~plat.closeStarted /\ ~plat.closeDone /\ ~plat.stopping
    BY DEF Calm
  <1>4. /\ pc["boot"] \notin UnstartedLabels \cup LateLabels
        /\ pc'["boot"] \notin UnstartedLabels \cup LateLabels
    BY BodyCloses DEF ClaimOK
  <1>5. pc["boot"] \notin NoWaiterLabels
    BY DEF SafeInv, ClosedOK
  <1>6. t # "closer"
    BY <1>1, <1>3 DEF CloserEdge, EndEdge
  <1>7. l # "markClosed"
    <2>1. CASE t = "boot"
      BY <1>1, <2>1 DEF UnansweredLabels, BeforeReactor, BeforeWaiter, CancelLabels,
                        UnstartedLabels, NoReactorLabels
    <2>2. CASE t # "boot" /\ l = "markClosed"
      <3>1. Closes(t)
        BY <1>1, <2>2 DEF Closes
      <3>2. plat.closeDone
        BY <1>1, <2>2, <3>1 DEF ClaimOK
      <3>3. Closes("boot")
        BY <1>3, <3>2 DEF Closes
      <3> QED
        BY <1>1, <2>2, <3>1, <3>3 DEF ClaimOK
    <2> QED
      BY <2>1, <2>2
  <1>8. pc'["boot"] \notin CancelLabels
    <2>1. CASE t = "boot"
      <3>1. l = "run" => n # "cancelled"
        BY <1>1, <1>3, <2>1 DEF BootEdge, EndEdge, NoReactorLabels
      <3> QED
        BY <1>1, <1>3, <1>5, <2>1, <3>1 DEF BootEdge, EndEdge, CancelLabels, NoWaiterLabels
    <2> QED
      BY <1>1, <1>3, <2>1
  <1>9. t = "boot" =>
          /\ l \notin {"failedMark", "unstartedMark", "noWaiterMark", "noWaiter", "cancelled",
                       "unstartedFlags"}
          /\ l = "noReactor" => n \in NoReactorLabels
          /\ l \in NoReactorLabels \cup {"spawned"} => n \in NoReactorLabels
          /\ l = "noReactorFlags" => n = "noReactorAnswer"
          /\ l # "noReactorAnswer"
    <2>1. CASE t = "boot"
      <3>1. l \notin {"failedMark", "unstartedMark", "noWaiterMark", "noWaiter", "cancelled",
                      "unstartedFlags"}
        BY <1>1, <1>3, <1>4, <1>5, <2>1
           DEF UnansweredLabels, BeforeReactor, BeforeWaiter, CancelLabels, UnstartedLabels,
               NoReactorLabels, NoWaiterLabels
      <3>2. n \in UnansweredLabels /\ n \notin LateLabels /\ BootEdge(l, n)
        BY <1>1, <1>4, <2>1
      <3>3. l \in NoReactorLabels \cup {"spawned"} => n \in NoReactorLabels /\ l # "noReactorAnswer"
        BY <3>2
           DEF BootEdge, EndEdge, UnansweredLabels, BeforeReactor, BeforeWaiter, CancelLabels,
                    UnstartedLabels, NoReactorLabels, LateLabels
      <3>4. l = "noReactorFlags" => n = "noReactorAnswer"
        BY <3>2 DEF BootEdge, EndEdge, LateLabels
      <3> QED
        BY <3>1, <3>3, <3>4 DEF NoReactorLabels
    <2> QED
      BY <2>1
  <1>10. pc'["boot"] \notin NoReactorLabels \cup {"spawned"} => lifecycle' = "STARTING"
    <2>1. lifecycle' = Marks(t, l, n)
      BY DEF Body
    <2>2. CASE t # "boot"
      BY <1>1, <1>3, <1>7, <2>1, <2>2 DEF Marks
    <2>3. CASE t = "boot"
      BY <1>1, <1>3, <1>7, <1>9, <2>1, <2>3 DEF Marks
    <2> QED
      BY <2>2, <2>3
  <1>11. pc'["boot"] # "noReactorAnswer" =>
           ~plat'.closeStarted /\ ~plat'.closeDone /\ ~plat'.stopping
    <2>1. CASE pc'["boot"] # "noReactorAnswer"
      <3>1. pc["boot"] # "noReactorAnswer" /\ ~(t = "boot" /\ l = "noReactorFlags")
        BY <1>1, <1>9, <2>1
      <3> QED
        BY <1>3, <1>6, <1>9, <3>1, BodyFlags
    <2> QED
      BY <2>1
  <1> QED
    BY <1>1, <1>2, <1>3, <1>6, <1>8, <1>10, <1>11 DEF Calm

\* The isolate is told nothing twice and nothing out of order by a body step.
LEMMA BodyTold ==
  ASSUME RefsInv, SafeInv, WorkersOK, UnpublishedOK, ClaimOK, ToldOK, "waiter" \notin Faults,
         portOpen \in BOOLEAN, abandoned \in BOOLEAN,
         NEW t, NEW l, NEW n, Body(t, l, n)
  PROVE  ToldOK'
  <1>1. /\ t \in Threads /\ pc[t] = l /\ pc'[t] = n
        /\ t = "boot" => BootEdge(l, n)
        /\ t = "reactor" => ReactorEdge(l, n)
        /\ t = "waiter" => WaiterEdge(l, n)
        /\ t # "boot" => \A u \in {"boot", "reactor", "waiter"} \ {t} : pc'[u] = pc[u]
        /\ t = "boot" =>
              /\ pc'["reactor"] = IF l = "reactor" /\ n = "waiter" THEN "top" ELSE pc["reactor"]
              /\ pc'["waiter"] = IF l = "waiter" /\ n = "run" THEN "wait" ELSE pc["waiter"]
    BY BodyThreads DEF Threads, Workers
  <1>2. UNCHANGED <<portOpen, abandoned>>
    BY BodySays
  <1>3. /\ log' \in Seq(Events)
        /\ \A x : Told(x) => Told(x)'
        /\ \A x : Told(x)' => Told(x) \/ (Listening /\ Says(t, l, n, x))
    BY BodyTells DEF ToldOK
  <1> SUFFICES ASSUME Listening'
               PROVE  /\ pc'["boot"] \in UnansweredLabels =>
                           /\ ~Told("SPAWNED")' /\ ~Told("SPAWN_FAILED")'
                           /\ ~Told("ASYNC_ERROR")' => Calm'
                      /\ Told("ASYNC_ERROR")' => pc'["reactor"] # "off" \/ pc'["waiter"] # "off"
                      /\ Told("OUTPUT_CLOSED")' =>
                           /\ pc'["reactor"] \notin {"top", "poll", "drain", "check", "work", "output"}
                           /\ pc'["boot"] \notin BeforeReactor
                                 \cup {"failed", "failedOutput", "setupFailed"} \cup NoReactorLabels
                      /\ Told("INPUT_CLOSED")' =>
                           pc'["reactor"] \notin {"off", "top", "poll", "drain", "check", "work",
                                                  "output", "input"}
                      /\ Told("PROCESS_EXIT")' =>
                           pc'["waiter"] \notin {"off", "wait", "stop", "record", "unregister",
                                                 "wake", "post"}
    BY <1>3 DEF ToldOK
  <1>4. Listening
    BY <1>2 DEF Listening
  <1>5. pc["boot"] \notin UnstartedLabels \cup LateLabels
    BY <1>4 DEF ClaimOK
  <1>6. pc["boot"] \notin NoWaiterLabels
    BY DEF SafeInv, ClosedOK
  <1>7. pc["boot"] \in LoneLabels => pc["reactor"] = "off" /\ pc["waiter"] = "off"
    BY DEF WorkersOK
  <1>8. /\ t = "reactor" => l # "off" /\ n # "off"
        /\ t = "waiter" => l # "off" /\ n # "off"
    BY <1>1 DEF ReactorEdge, WaiterEdge, EndEdge
  <1>9. t = "boot" /\ n \in UnansweredLabels =>
          /\ l \in UnansweredLabels
          /\ l \notin {"failed", "setupFailed", "noReactorAnswer", "cancelAnswer", "spawned"}
    <2>1. CASE t = "boot" /\ n \in UnansweredLabels
      <3>1. BootEdge(l, n) /\ l \notin UnstartedLabels \cup LateLabels \cup NoWaiterLabels
        BY <1>1, <1>5, <1>6, <2>1
      <3> QED
        BY <2>1, <3>1 DEF BootEdge, EndEdge, UnansweredLabels, BeforeReactor, BeforeWaiter,
                          CancelLabels, UnstartedLabels, NoReactorLabels, LateLabels,
                          NoWaiterLabels
    <2> QED
      BY <2>1
  <1>10. ASSUME pc'["boot"] \in UnansweredLabels
         PROVE  /\ ~Told("SPAWNED")' /\ ~Told("SPAWN_FAILED")'
                /\ ~Told("ASYNC_ERROR")' => Calm'
    <2>1. pc["boot"] \in UnansweredLabels
      BY <1>1, <1>9, <1>10
    <2>2. ~Told("SPAWNED") /\ ~Told("SPAWN_FAILED") /\ (~Told("ASYNC_ERROR") => Calm)
      BY <1>4, <2>1 DEF ToldOK
    <2>3. t = "boot" => l \notin {"failed", "setupFailed", "noReactorAnswer", "cancelAnswer", "spawned",
                                  "unstartedAnswer", "lateAnswer"}
      BY <1>1, <1>5, <1>9, <1>10 DEF UnstartedLabels, LateLabels
    <2>4. ~Says(t, l, n, "SPAWNED") /\ ~Says(t, l, n, "SPAWN_FAILED")
      BY <2>3, SaysWhere
    <2>5. ~Told("SPAWNED")' /\ ~Told("SPAWN_FAILED")'
      BY <1>3, <2>2, <2>4
    <2>6. ~Told("ASYNC_ERROR")' => Calm'
      BY <1>3, <1>4, <1>10, <2>1, <2>2, BodyCalm
    <2> QED
      BY <2>5, <2>6
  <1>11. ASSUME Told("ASYNC_ERROR")'
         PROVE  pc'["reactor"] # "off" \/ pc'["waiter"] # "off"
    <2>1. CASE Told("ASYNC_ERROR")
      <3>1. pc["reactor"] # "off" \/ pc["waiter"] # "off"
        BY <1>4, <2>1 DEF ToldOK
      <3> QED
        BY <1>1, <1>8, <3>1
    <2>2. CASE Says(t, l, n, "ASYNC_ERROR")
      BY <1>1, <1>8, <2>2, SaysWhere
    <2> QED
      BY <1>3, <1>11, <2>1, <2>2
  <1>12. ASSUME Told("OUTPUT_CLOSED")'
         PROVE  /\ pc'["reactor"] \notin {"top", "poll", "drain", "check", "work", "output"}
                /\ pc'["boot"] \notin BeforeReactor
                      \cup {"failed", "failedOutput", "setupFailed"} \cup NoReactorLabels
    <2>1. CASE Told("OUTPUT_CLOSED")
      <3>1. /\ pc["reactor"] \notin {"top", "poll", "drain", "check", "work", "output"}
            /\ pc["boot"] \notin BeforeReactor
                      \cup {"failed", "failedOutput", "setupFailed"} \cup NoReactorLabels
        BY <1>4, <2>1 DEF ToldOK
      <3>2. t = "boot" => /\ n \notin BeforeReactor \cup {"failed", "failedOutput", "setupFailed"}
                                        \cup NoReactorLabels
                          /\ l # "reactor"
        BY <1>1, <3>1 DEF BootEdge, EndEdge, BeforeReactor, NoReactorLabels
      <3>3. t = "reactor" => n \notin {"top", "poll", "drain", "check", "work", "output"}
        BY <1>1, <3>1 DEF ReactorEdge, EndEdge
      <3> QED
        BY <1>1, <3>1, <3>2, <3>3
    <2>2. CASE t = "boot" /\ l \in {"failedOutput", "noReactorOutput"}
      <3>1. pc["reactor"] = "off" /\ n \in {"failedMark", "markClosed"}
        BY <1>1, <1>7, <2>2 DEF BootEdge, EndEdge, LoneLabels, FailedLabels, NoReactorLabels
      <3> QED
        BY <1>1, <2>2, <3>1 DEF BeforeReactor, NoReactorLabels
    <2>3. CASE t = "reactor" /\ l = "output"
      <3>1. n = "input" /\ pc["boot"] \notin LoneLabels
        BY <1>1, <1>7, <1>8, <2>3 DEF ReactorEdge, EndEdge
      <3> QED
        BY <1>1, <2>3, <3>1 DEF LoneLabels, FailedLabels
    <2>4. ~(t = "boot" /\ l \in {"unstartedOutput", "lateOutput"})
      BY <1>1, <1>5 DEF UnstartedLabels, LateLabels
    <2> QED
      BY <1>3, <1>12, <2>1, <2>2, <2>3, <2>4, SaysWhere
  <1>13. ASSUME Told("INPUT_CLOSED")'

               PROVE  pc'["reactor"] \notin {"off", "top", "poll", "drain", "check", "work", "output", "input"}
    <2>1. CASE Told("INPUT_CLOSED")
      <3>1. pc["reactor"] \notin {"off", "top", "poll", "drain", "check", "work", "output", "input"}
        BY <1>4, <2>1 DEF ToldOK
      <3>2. t = "reactor" =>
              n \notin {"off", "top", "poll", "drain", "check", "work", "output", "input"}
        BY <1>1, <3>1 DEF ReactorEdge, EndEdge
      <3>3. pc["boot"] # "reactor"
        BY <1>7, <3>1 DEF LoneLabels, BeforeReactor
      <3> QED
        BY <1>1, <3>1, <3>2, <3>3
    <2>2. CASE t = "reactor" /\ l = "input"
      BY <1>1, <2>2 DEF ReactorEdge, EndEdge
    <2> QED
      BY <1>3, <1>13, <2>1, <2>2, SaysWhere
  <1>14. ASSUME Told("PROCESS_EXIT")'

               PROVE  pc'["waiter"] \notin {"off", "wait", "stop", "record", "unregister", "wake", "post"}
    <2>1. CASE Told("PROCESS_EXIT")
      <3>1. pc["waiter"] \notin {"off", "wait", "stop", "record", "unregister", "wake", "post"}
        BY <1>4, <2>1 DEF ToldOK
      <3>2. t = "waiter" =>
              n \notin {"off", "wait", "stop", "record", "unregister", "wake", "post"}
        BY <1>1, <3>1 DEF WaiterEdge, EndEdge
      <3>3. pc["boot"] # "waiter"
        BY <3>1 DEF RefsInv, StartsOnce, BeforeWaiter
      <3> QED
        BY <1>1, <3>1, <3>2, <3>3
    <2>2. CASE t = "waiter" /\ l = "post"
      BY <1>1, <2>2 DEF WaiterEdge, EndEdge
    <2> QED
      BY <1>3, <1>14, <2>1, <2>2, SaysWhere
  <1> QED
    BY <1>10, <1>11, <1>12, <1>13, <1>14

\* The Dart-owned reference is where it was after a body step.
LEMMA BodyHanded ==
  ASSUME RefsInv, SafeInv, UnpublishedOK, ClaimOK, ToldOK, HandedOK,
         NEW t, NEW l, NEW n, Body(t, l, n)
  PROVE  HandedOK'
  <1>0. portOpen \in BOOLEAN /\ abandoned \in BOOLEAN /\ dart \in DartType
    BY DEF HandedOK
  <1>1. /\ t \in Threads /\ pc[t] = l /\ pc'[t] = n /\ call[t] = "none"
        /\ t = "boot" => BootEdge(l, n)
        /\ t = "closer" => CloserEdge(l, n)
        /\ t # "boot" => pc'["boot"] = pc["boot"]
        /\ "owner" \in Threads
    BY BodyThreads DEF Threads, Workers
  <1>2. /\ UNCHANGED <<portOpen, dart, abandoned, abandoning, handed>>
        /\ \A u \in Threads : call'[u] = call[u] \/ (u = t /\ ~portOpen /\ call'[u] = "abandon")
    BY <1>0, BodySays DEF RefsInv, RefsTypeOK
  <1>3. Told("SPAWNED")' => Told("SPAWNED") \/ (Listening /\ t = "boot" /\ l = "spawned")
    BY <1>0, BodyTells, SaysWhere DEF ToldOK
  <1>4. /\ lifecycle' = "STARTING" => lifecycle = "STARTING"
        /\ t = "boot" /\ l = "run" /\ n = "spawned" => lifecycle' = "RUNNING"
        /\ lifecycle = "CLOSED" =>
             lifecycle' = "CLOSED" \/ (t = "boot" /\ l \in {"failedMark", "noReactor", "noWaiterMark", "run"})
    BY DEF Body, Marks
  <1>5. pc["boot"] \in BootGone => /\ pc'["boot"] \in BootGone
                                   /\ t = "boot" => l = "release" /\ n = "end"
    BY <1>1 DEF BootEdge, EndEdge, BootGone
  <1>6. /\ \A u \in Threads : InCall(u)' <=> InCall(u)
        /\ \A u \in Threads : call'[u] = "create" => call[u] = "create"
        /\ call'["owner"] \in {"claim", "create"} => call'["owner"] = call["owner"]
    BY <1>1, <1>2 DEF InCall
  <1>7. GivenUp' = GivenUp
    BY <1>2 DEF GivenUp
  <1>8. \A u \in Threads : abandoned' \/ call'[u] = "abandon" =>
          dart'.gone \/ dart'.closed \/ dart'.spawn = "ok"
    BY <1>0, <1>2 DEF HandedOK
  <1>9. (dart'.spawn = "ok" \/ Told("SPAWNED")' =>
           /\ pc'["boot"] \in BootGone /\ plat'.published /\ lifecycle' # "STARTING"
           /\ plat'.closeDone => plat'.closeStarted)
    <2>1. CASE dart.spawn = "ok" \/ Told("SPAWNED")
      <3>1. /\ pc["boot"] \in BootGone /\ plat.published /\ lifecycle # "STARTING"
            /\ plat.closeDone => plat.closeStarted
        BY <2>1 DEF HandedOK
      <3>2. /\ t = "boot" => l = "release"
            /\ pc'["boot"] \in BootGone
        BY <1>5, <3>1
      <3>3. t = "closer" => plat.closeStarted
        BY <1>1 DEF CloserEdge, EndEdge, RefsInv, ClosesOnce
      <3> QED
        BY <1>4, <3>1, <3>2, <3>3, BodyFlags
    <2>2. CASE Listening /\ t = "boot" /\ l = "spawned"
      <3>1. pc["boot"] = "spawned" /\ n = "release"
        BY <1>1, <2>2 DEF BootEdge, EndEdge
      <3>2. plat.published /\ lifecycle # "STARTING" /\ (plat.closeDone => plat.closeStarted)
        BY <2>2, <3>1 DEF UnpublishedOK, HandedOK, ClaimOK, FailedLabels, BootGone
      <3> QED
        BY <1>1, <1>4, <2>2, <3>1, <3>2, BodyFlags DEF BootGone
    <2> QED
      BY <1>2, <1>3, <2>1, <2>2
  <1>10. (GivenUp' /\ ~dart'.gone /\ ~dart'.closed =>
            \/ plat'.closeStarted /\ call'["owner"] # "create"
            \/ lifecycle' = "CLOSED" /\ call'["owner"] \notin {"claim", "create"})
    <2> SUFFICES ASSUME GivenUp, ~dart.gone, ~dart.closed
                 PROVE  \/ plat'.closeStarted /\ call'["owner"] # "create"
                        \/ lifecycle' = "CLOSED" /\ call'["owner"] \notin {"claim", "create"}
      BY <1>2, <1>7
    <2>1. pc["boot"] \in BootGone
      BY <1>1 DEF HandedOK, GivenUp
    <2>2. lifecycle = "CLOSED" => lifecycle' = "CLOSED"
      BY <1>4, <1>5, <2>1
    <2>3. plat.closeStarted => plat'.closeStarted
      BY BodyFlags
    <2>4. \/ plat.closeStarted /\ call["owner"] # "create"
          \/ lifecycle = "CLOSED" /\ call["owner"] \notin {"claim", "create"}
      BY DEF HandedOK
    <2> QED
      BY <1>1, <1>6, <2>2, <2>3, <2>4
  <1>11. pc'["boot"] = "spawned" => lifecycle' # "STARTING"
    <2>1. CASE t = "boot" /\ n = "spawned"
      <3>1. l = "run"
        BY <1>1, <2>1 DEF BootEdge, EndEdge
      <3> QED
        BY <1>4, <2>1, <3>1
    <2>2. CASE t # "boot"
      BY <1>1, <1>4, <2>2 DEF HandedOK
    <2> QED
      BY <1>1, <2>1, <2>2
  <1>12. /\ handed' = (IF dart'.finalizer = "detached" THEN 1 ELSE 0) + (IF GivenUp' THEN 1 ELSE 0)
         /\ dart' \in DartType /\ portOpen' \in BOOLEAN /\ abandoned' \in BOOLEAN
         /\ abandoning' \subseteq Threads
         /\ \A u, v \in abandoning' : u = v
         /\ dart'.finalizer = "detached" => dart'.closed
         /\ portOpen' <=> ~dart'.gone /\ ~dart'.closed
    BY <1>2, <1>7 DEF HandedOK
  <1>13. /\ \A u \in abandoning' : abandoned' /\ InCall(u)'
         /\ \A u \in Threads : u # "owner" /\ InCall(u)' => u \in abandoning'
         /\ dart'.gone /\ InCall("owner")' => "owner" \in abandoning'
         /\ GivenUp' => \A u \in Threads : call'[u] # "create"
    BY <1>1, <1>2, <1>6, <1>7 DEF HandedOK
  <1>14. /\ \A u \in Threads : u # "owner" /\ call'[u] # "none" => dart'.gone \/ dart'.closed
         /\ \A u \in Threads :
              call'[u] \notin {"none", "abandon", "lifecycle", "claim"} => plat'.closeStarted
    <2>1. plat.closeStarted => plat'.closeStarted
      BY BodyFlags
    <2> QED
      BY <1>2, <2>1 DEF HandedOK
  <1> QED
    BY <1>8, <1>9, <1>10, <1>11, <1>12, <1>13, <1>14 DEF HandedOK

-----------------------------------------------------------------------------
(* The steps of pty_session_abandon and pty_session_begin_close            *)

InnerEdge(l, n) ==
  \/ l = "abandon" /\ n = "none" /\ abandoned
  \/ l = "abandon" /\ n = "lifecycle" /\ ~abandoned
  \/ l = "lifecycle" /\ n = "none" /\ (lifecycle \in {"STARTING", "CLOSED"} \/ ~plat.published)
  \/ l = "lifecycle" /\ n = "claim" /\ lifecycle # "CLOSED" /\ plat.published
  \/ l = "claim" /\ n = "none" /\ (plat.closeStarted \/ plat.closeDone)
  \/ l = "claim" /\ n = "create" /\ ~plat.closeStarted /\ ~plat.closeDone
  \/ l = "create" /\ n \in {"unretain", "stop"}
  \/ l = "unretain" /\ n = "none"
  \/ l = "stop" /\ n = "wake"
  \/ l = "wake" /\ n = "maybe"
  \/ l = "maybe" /\ n = "none"
  \/ l = "maybe" /\ n = "mark" /\ Claimable
  \/ l = "mark" /\ n = "post"
  \/ l = "post" /\ n = "none"
  \/ l = "post" /\ n = "abandon" /\ ~abandoned /\ ~portOpen

\* The flags raised on the way, but for "wake".
InnerRaises(n) ==
  CASE n = "create" -> {"closeStarted"}
    [] n = "stop"   -> {"stopping", "closeDone"}
    [] n = "mark"   -> {"closedPosted"}
    [] OTHER        -> {}
InnerRaised(n) ==
  /\ plat' \in [FlagNames -> BOOLEAN]
  /\ \A f \in FlagNames \ {"wake"} : plat'[f] <=> (plat[f] \/ f \in InnerRaises(n))

\* Who abandons the session, and when Dart's reference is released.
InnerGives(t, l, n) ==
  \/ l = "abandon" /\ n = "lifecycle" /\ abandoning' = abandoning \cup {t} /\ handed' = handed
  \/ (l = "abandon" <=> n = "none") /\ abandoning' = abandoning /\ handed' = handed
  \/ /\ l # "abandon" /\ n = "none" /\ abandoning' = abandoning \ {t}
     /\ handed' = IF t \in abandoning THEN handed + 1 ELSE handed

InnerMarks(l) ==
  CASE l = "lifecycle" -> ClosingFrom(lifecycle)
    [] l = "mark"      -> "CLOSED"
    [] OTHER           -> lifecycle

InnerSays(l, n) ==
  \/ log' = log
  \/ l = "post" /\ n = "none" /\ Listening /\ log' = Append(log, "SESSION_CLOSED")

\* A step inside these functions, from l to n.
Inner(t, l, n) ==
  /\ call[t] = l /\ call' = [call EXCEPT ![t] = n] /\ InnerEdge(l, n)
  /\ \A u \in Threads : pc'[u] = IF u = "closer" /\ n = "unretain" THEN "stopping" ELSE pc[u]
  /\ InnerRaised(n) /\ InnerGives(t, l, n) /\ InnerSays(l, n)
  /\ lifecycle' = InnerMarks(l)
  /\ abandoned' = IF l = "abandon" THEN TRUE ELSE abandoned
  /\ program' = program \/ (l = "stop" /\ program = "running" /\ program' = "exited")
  /\ UNCHANGED <<report, portOpen, dart>>

\* The flags a step inside these functions may set.
LEMMA InnerFlagValues ==
  ASSUME plat \in [FlagNames -> BOOLEAN], NEW n
  PROVE  /\ plat' = plat /\ n \notin {"create", "stop", "mark"} => InnerRaised(n)
         /\ plat' = Woken /\ n \notin {"create", "stop", "mark"} => InnerRaised(n)
         /\ plat' = [plat EXCEPT !.closeStarted = TRUE] /\ n = "create" => InnerRaised(n)
         /\ plat' = [plat EXCEPT !.stopping = TRUE, !.closeDone = TRUE] /\ n = "stop" =>
              InnerRaised(n)
         /\ plat' = Claimed /\ n = "mark" => InnerRaised(n)
  <1>1. CASE plat' = plat /\ n \notin {"create", "stop", "mark"}
    BY <1>1 DEF InnerRaised, InnerRaises
  <1>2. CASE plat' = Woken /\ n \notin {"create", "stop", "mark"}
    BY <1>2 DEF InnerRaised, InnerRaises, Woken, FlagNames
  <1>3. CASE plat' = [plat EXCEPT !.closeStarted = TRUE] /\ n = "create"
    BY <1>3 DEF InnerRaised, InnerRaises, FlagNames
  <1>4. CASE plat' = [plat EXCEPT !.stopping = TRUE, !.closeDone = TRUE] /\ n = "stop"
    BY <1>4 DEF InnerRaised, InnerRaises, FlagNames
  <1>5. CASE plat' = Claimed /\ n = "mark"
    BY <1>5 DEF InnerRaised, InnerRaises, Claimed, FlagNames
  <1> QED
    BY <1>1, <1>2, <1>3, <1>4, <1>5

\* What Return does, wherever the function returns.
LEMMA ReturnGives ==
  ASSUME NEW t, NEW l, Return(t), l # "abandon"
  PROVE  UNCHANGED pc /\ call' = [call EXCEPT ![t] = "none"] /\ InnerGives(t, l, "none")
  BY DEF Return, InnerGives

\* Every step of begin_close is one of the table.
LEMMA InnerSteps ==
  ASSUME RefsInv, plat \in [FlagNames -> BOOLEAN], NEW t \in Threads, BeginClose(t)
  PROVE  \E l, n : Inner(t, l, n)
  <1>0. /\ DOMAIN pc = Threads /\ DOMAIN call = Threads /\ "closer" \in Threads
    BY DEF RefsInv, RefsTypeOK, Threads, Workers
  <1>1. \A n : UNCHANGED pc /\ n # "unretain" =>
          \A u \in Threads : pc'[u] = IF u = "closer" /\ n = "unretain" THEN "stopping" ELSE pc[u]
    OBVIOUS
  <1>2. CASE MarkAbandoned(t)
    <2> DEFINE n == IF abandoned THEN "none" ELSE "lifecycle"
    <2>1. /\ call[t] = "abandon" /\ call' = [call EXCEPT ![t] = n]
          /\ UNCHANGED <<pc, plat, log, lifecycle, program, report, portOpen, dart>>
          /\ abandoned' = TRUE
      BY <1>2 DEF MarkAbandoned, In, processVars, dartVars
    <2>2. InnerEdge("abandon", n) /\ InnerGives(t, "abandon", n)
      BY <1>2 DEF MarkAbandoned, InnerEdge, InnerGives
    <2>3. n \in {"none", "lifecycle"}
      OBVIOUS
    <2> HIDE DEF n
    <2>4. InnerRaised(n)
      BY <2>1, <2>3, InnerFlagValues
    <2>5. Inner(t, "abandon", n)
      BY <1>1, <2>1, <2>2, <2>3, <2>4 DEF Inner, InnerSays, InnerMarks
    <2> QED
      BY <2>5
  <1>3. CASE CloseLifecycle(t)
    <2>1. /\ call[t] = "lifecycle" /\ UNCHANGED <<plat, log, abandoned, program, report, portOpen, dart>>
          /\ lifecycle' = InnerMarks("lifecycle")
      BY <1>3 DEF CloseLifecycle, In, closeFrame, processVars, dartVars, InnerMarks
    <2>2. CASE lifecycle \in {"STARTING", "CLOSED"} \/ ~plat.published
      <3>1. Return(t)
        BY <1>3, <2>2 DEF CloseLifecycle
      <3>2. UNCHANGED pc /\ call' = [call EXCEPT ![t] = "none"] /\ InnerGives(t, "lifecycle", "none")
        BY <3>1, ReturnGives
      <3>3. InnerRaised("none")
        BY <2>1, InnerFlagValues
      <3>4. Inner(t, "lifecycle", "none")
        BY <1>1, <2>1, <2>2, <3>2, <3>3 DEF Inner, InnerEdge, InnerSays
      <3> QED
        BY <3>4
    <2>3. CASE ~(lifecycle \in {"STARTING", "CLOSED"} \/ ~plat.published)
      <3>1. /\ UNCHANGED pc /\ call' = [call EXCEPT ![t] = "claim"]
            /\ InnerGives(t, "lifecycle", "claim")
        BY <1>3, <2>3 DEF CloseLifecycle, Inside, InnerGives
      <3>2. InnerRaised("claim")
        BY <2>1, InnerFlagValues
      <3>3. Inner(t, "lifecycle", "claim")
        BY <1>1, <2>1, <2>3, <3>1, <3>2 DEF Inner, InnerEdge, InnerSays
      <3> QED
        BY <3>3
    <2> QED
      BY <2>2, <2>3
  <1>4. CASE CloseClaim(t)
    <2>1. /\ call[t] = "claim" /\ UNCHANGED <<lifecycle, log, abandoned, program, report, portOpen, dart>>
      BY <1>4 DEF CloseClaim, In, closeFrame, processVars, dartVars
    <2>2. CASE plat.closeStarted \/ plat.closeDone
      <3>1. Return(t) /\ plat' = plat
        BY <1>4, <2>2 DEF CloseClaim
      <3>2. UNCHANGED pc /\ call' = [call EXCEPT ![t] = "none"] /\ InnerGives(t, "claim", "none")
        BY <3>1, ReturnGives
      <3>3. InnerRaised("none")
        BY <3>1, InnerFlagValues
      <3>4. Inner(t, "claim", "none")
        BY <1>1, <2>1, <2>2, <3>2, <3>3 DEF Inner, InnerEdge, InnerSays, InnerMarks
      <3> QED
        BY <3>4
    <2>3. CASE ~(plat.closeStarted \/ plat.closeDone)
      <3>1. /\ UNCHANGED pc /\ call' = [call EXCEPT ![t] = "create"]
            /\ InnerGives(t, "claim", "create") /\ plat' = [plat EXCEPT !.closeStarted = TRUE]
        BY <1>4, <2>3 DEF CloseClaim, Inside, InnerGives
      <3>2. InnerRaised("create")
        BY <3>1, InnerFlagValues
      <3>3. Inner(t, "claim", "create")
        BY <1>1, <2>1, <2>3, <3>1, <3>2 DEF Inner, InnerEdge, InnerSays, InnerMarks
      <3> QED
        BY <3>3
    <2> QED
      BY <2>2, <2>3
  <1>5. CASE CloseCreate(t)
    <2>1. /\ call[t] = "create" /\ call' = [call EXCEPT ![t] = "unretain"]
          /\ UNCHANGED <<plat, lifecycle, log, abandoned, program, report, portOpen, dart>>
          /\ \A u \in Threads : pc'[u] = IF u = "closer" THEN "stopping" ELSE pc[u]
          /\ InnerGives(t, "create", "unretain")
      BY <1>0, <1>5 DEF CloseCreate, In, closeFrame, processVars, dartVars, InnerGives
    <2>2. InnerRaised("unretain")
      BY <2>1, InnerFlagValues
    <2>3. Inner(t, "create", "unretain")
      BY <2>1, <2>2 DEF Inner, InnerEdge, InnerSays, InnerMarks
    <2> QED
      BY <2>3
  <1>6. CASE CloseUnretain(t)
    <2>1. /\ call[t] = "unretain" /\ call' = [call EXCEPT ![t] = "none"]
          /\ UNCHANGED <<pc, plat, lifecycle, log, abandoned, program, report, portOpen, dart>>
      BY <1>6 DEF CloseUnretain, In, closeFrame, processVars, dartVars
    <2>2. handed \in Int
      BY DEF RefsInv, RefsTypeOK
    <2>3. InnerGives(t, "unretain", "none")
      BY <1>6, <2>2 DEF CloseUnretain, InnerGives
    <2>4. InnerRaised("none")
      BY <2>1, InnerFlagValues
    <2>5. Inner(t, "unretain", "none")
      BY <1>1, <2>1, <2>3, <2>4 DEF Inner, InnerEdge, InnerSays, InnerMarks
    <2> QED
      BY <2>5
  <1>7. CASE CloseCreateFails(t)
    <2>1. /\ call[t] = "create" /\ call' = [call EXCEPT ![t] = "stop"]
          /\ UNCHANGED <<pc, lifecycle, log, abandoned, program, report, portOpen, dart>>
          /\ plat' = [plat EXCEPT !.stopping = TRUE, !.closeDone = TRUE]
          /\ InnerGives(t, "create", "stop")
      BY <1>7 DEF CloseCreateFails, In, Inside, sessionVars, processVars, dartVars, InnerGives
    <2>2. InnerRaised("stop")
      BY <2>1, InnerFlagValues
    <2>3. Inner(t, "create", "stop")
      BY <1>1, <2>1, <2>2 DEF Inner, InnerEdge, InnerSays, InnerMarks
    <2> QED
      BY <2>3
  <1>8. CASE CloseStop(t)
    <2>1. /\ call[t] = "stop" /\ call' = [call EXCEPT ![t] = "wake"]
          /\ UNCHANGED <<pc, plat, lifecycle, log, abandoned, report, portOpen, dart>>
          /\ program' = program \/ (program = "running" /\ program' = "exited")
          /\ InnerGives(t, "stop", "wake")
      BY <1>8 DEF CloseStop, In, Inside, StopProcess, sessionVars, dartVars, InnerGives
    <2>2. InnerRaised("wake")
      BY <2>1, InnerFlagValues
    <2>3. Inner(t, "stop", "wake")
      BY <1>1, <2>1, <2>2 DEF Inner, InnerEdge, InnerSays, InnerMarks
    <2> QED
      BY <2>3
  <1>9. CASE CloseWake(t)
    <2>1. /\ call[t] = "wake" /\ call' = [call EXCEPT ![t] = "maybe"] /\ plat' = Woken
          /\ UNCHANGED <<pc, lifecycle, log, abandoned, program, report, portOpen, dart>>
          /\ InnerGives(t, "wake", "maybe")
      BY <1>9 DEF CloseWake, In, Inside, sessionVars, processVars, dartVars, InnerGives
    <2>2. InnerRaised("maybe")
      BY <2>1, InnerFlagValues
    <2>3. Inner(t, "wake", "maybe")
      BY <1>1, <2>1, <2>2 DEF Inner, InnerEdge, InnerSays, InnerMarks
    <2> QED
      BY <2>3
  <1>10. CASE CloseMaybe(t)
    <2>1. /\ call[t] = "maybe" /\ UNCHANGED <<lifecycle, log, abandoned, program, report, portOpen, dart>>
      BY <1>10 DEF CloseMaybe, In, closeFrame, processVars, dartVars
    <2>2. CASE Claimable
      <3>1. /\ UNCHANGED pc /\ call' = [call EXCEPT ![t] = "mark"] /\ plat' = Claimed
            /\ InnerGives(t, "maybe", "mark")
        BY <1>10, <2>2 DEF CloseMaybe, Inside, InnerGives
      <3>2. InnerRaised("mark")
        BY <3>1, InnerFlagValues
      <3>3. Inner(t, "maybe", "mark")
        BY <1>1, <2>1, <2>2, <3>1, <3>2 DEF Inner, InnerEdge, InnerSays, InnerMarks
      <3> QED
        BY <3>3
    <2>3. CASE ~Claimable
      <3>1. Return(t) /\ plat' = plat
        BY <1>10, <2>3 DEF CloseMaybe
      <3>2. UNCHANGED pc /\ call' = [call EXCEPT ![t] = "none"] /\ InnerGives(t, "maybe", "none")
        BY <3>1, ReturnGives
      <3>3. InnerRaised("none")
        BY <3>1, InnerFlagValues
      <3>4. Inner(t, "maybe", "none")
        BY <1>1, <2>1, <3>2, <3>3 DEF Inner, InnerEdge, InnerSays, InnerMarks
      <3> QED
        BY <3>4
    <2> QED
      BY <2>2, <2>3
  <1>11. CASE CloseMark(t)
    <2>1. /\ call[t] = "mark" /\ call' = [call EXCEPT ![t] = "post"] /\ lifecycle' = "CLOSED"
          /\ UNCHANGED <<pc, plat, log, abandoned, program, report, portOpen, dart>>
          /\ InnerGives(t, "mark", "post")
      BY <1>11 DEF CloseMark, In, Inside, processVars, dartVars, InnerGives
    <2>2. InnerRaised("post")
      BY <2>1, InnerFlagValues
    <2>3. Inner(t, "mark", "post")
      BY <1>1, <2>1, <2>2 DEF Inner, InnerEdge, InnerSays, InnerMarks
    <2> QED
      BY <2>3
  <1>12. CASE ClosePost(t)
    <2>1. /\ call[t] = "post" /\ UNCHANGED <<plat, lifecycle, program, report, portOpen, dart>>
      BY <1>12 DEF ClosePost, In, processVars
    <2>2. CASE abandoned \/ portOpen
      <3>1. /\ Return(t) /\ abandoned' = abandoned
            /\ log' = IF abandoned THEN log ELSE Append(log, "SESSION_CLOSED")
        BY <1>12, <2>2 DEF ClosePost
      <3>2. UNCHANGED pc /\ call' = [call EXCEPT ![t] = "none"] /\ InnerGives(t, "post", "none")
        BY <3>1, ReturnGives
      <3>3. InnerRaised("none")
        BY <2>1, InnerFlagValues
      <3>4. InnerSays("post", "none")
        BY <2>2, <3>1 DEF InnerSays, Listening
      <3>5. Inner(t, "post", "none")
        BY <1>1, <2>1, <3>1, <3>2, <3>3, <3>4 DEF Inner, InnerEdge, InnerMarks
      <3> QED
        BY <3>5
    <2>3. CASE ~(abandoned \/ portOpen)
      <3>1. /\ UNCHANGED <<pc, log, abandoned>> /\ call' = [call EXCEPT ![t] = "abandon"]
            /\ InnerGives(t, "post", "abandon")
        BY <1>12, <2>3 DEF ClosePost, Abandon, InnerGives
      <3>2. InnerRaised("abandon")
        BY <2>1, InnerFlagValues
      <3>3. Inner(t, "post", "abandon")
        BY <1>1, <2>1, <2>3, <3>1, <3>2 DEF Inner, InnerEdge, InnerSays, InnerMarks
      <3> QED
        BY <3>3
    <2> QED
      BY <2>2, <2>3
  <1> QED
    BY <1>2, <1>3, <1>4, <1>5, <1>6, <1>7, <1>8, <1>9, <1>10, <1>11, <1>12 DEF BeginClose

\* What such a step does, flag by flag and thread by thread.
LEMMA InnerActs ==
  ASSUME RefsInv, SafeInv, NEW t \in Threads, NEW l, NEW n, Inner(t, l, n)
  PROVE  /\ \A u \in Threads : call'[u] = IF u = t THEN n ELSE call[u]
         /\ \A u \in Threads : pc'[u] = pc[u] \/ (u = "closer" /\ pc'[u] = "stopping")
         /\ \A u \in {"boot", "reactor", "waiter", "owner"} : pc'[u] = pc[u]
         /\ pc'["closer"] # pc["closer"] => n = "unretain"
         /\ plat'.published = plat.published
         /\ plat'.reactorDone = plat.reactorDone /\ plat'.waiterDone = plat.waiterDone
         /\ plat'.released = plat.released
         /\ plat'.closeStarted <=> plat.closeStarted \/ n = "create"
         /\ plat'.closeDone <=> plat.closeDone \/ n = "stop"
         /\ plat'.closedPosted <=> plat.closedPosted \/ n = "mark"
         /\ Over => Over'
         /\ lifecycle' = "STARTING" => lifecycle = "STARTING"
         /\ lifecycle = "CLOSED" => lifecycle' = "CLOSED"
  <1>1. /\ DOMAIN call = Threads /\ {"boot", "reactor", "waiter", "owner", "closer"} \subseteq Threads
        /\ plat \in [FlagNames -> BOOLEAN]
    BY DEF RefsInv, RefsTypeOK, SafeInv, Threads, Workers
  <1>2. /\ \A u \in Threads : call'[u] = IF u = t THEN n ELSE call[u]
        /\ \A u \in Threads : pc'[u] = pc[u] \/ (u = "closer" /\ pc'[u] = "stopping")
        /\ \A u \in {"boot", "reactor", "waiter", "owner"} : pc'[u] = pc[u]
        /\ pc'["closer"] # pc["closer"] => n = "unretain"
    BY <1>1 DEF Inner
  <1>3. plat' \in [FlagNames -> BOOLEAN]
        /\ \A f \in FlagNames \ {"wake"} : plat'[f] <=> (plat[f] \/ f \in InnerRaises(n))
    BY DEF Inner, InnerRaised
  <1>4. /\ plat'.published = (plat.published \/ "published" \in InnerRaises(n))
        /\ plat'.reactorDone = (plat.reactorDone \/ "reactorDone" \in InnerRaises(n))
        /\ plat'.waiterDone = (plat.waiterDone \/ "waiterDone" \in InnerRaises(n))
        /\ plat'.released = (plat.released \/ "released" \in InnerRaises(n))
        /\ plat'.closeStarted = (plat.closeStarted \/ "closeStarted" \in InnerRaises(n))
        /\ plat'.closeDone = (plat.closeDone \/ "closeDone" \in InnerRaises(n))
        /\ plat'.closedPosted = (plat.closedPosted \/ "closedPosted" \in InnerRaises(n))
    BY <1>1, <1>3 DEF FlagNames
  <1>5. /\ plat'.published = plat.published
        /\ plat'.reactorDone = plat.reactorDone /\ plat'.waiterDone = plat.waiterDone
        /\ plat'.released = plat.released
        /\ plat'.closeStarted <=> plat.closeStarted \/ n = "create"
        /\ plat'.closeDone <=> plat.closeDone \/ n = "stop"
        /\ plat'.closedPosted <=> plat.closedPosted \/ n = "mark"
    BY <1>1, <1>4 DEF InnerRaises, FlagNames
  <1>6. Over => Over'
    BY <1>2, <1>5 DEF Over, Inner
  <1>7. /\ lifecycle' = "STARTING" => lifecycle = "STARTING"
        /\ lifecycle = "CLOSED" => lifecycle' = "CLOSED"
    BY DEF Inner, InnerMarks, ClosingFrom
  <1> QED
    BY <1>2, <1>5, <1>6, <1>7

\* The workers stay where they are, and ...
LEMMA InnerWorkers ==
  ASSUME RefsInv, SafeInv, WorkersOK, NEW t \in Threads, NEW l, NEW n, Inner(t, l, n)
  PROVE  WorkersOK'
  <1>1. /\ \A u \in {"boot", "reactor", "waiter", "owner"} : pc'[u] = pc[u]
        /\ plat'.reactorDone = plat.reactorDone /\ plat'.waiterDone = plat.waiterDone
        /\ Over => Over'
    BY InnerActs
  <1>2. /\ report' = report
        /\ program' = program \/ (program = "running" /\ program' = "exited")
    BY DEF Inner
  <1> QED
    BY <1>1, <1>2 DEF WorkersOK

\* ... a session that is not published is left to its bootstrap.
LEMMA InnerUnpublished ==
  ASSUME RefsInv, SafeInv, UnpublishedOK, NEW t \in Threads, NEW l, NEW n, Inner(t, l, n)
  PROVE  UnpublishedOK'
  <1>1. /\ \A u \in Threads : call'[u] = IF u = t THEN n ELSE call[u]
        /\ \A u \in {"boot", "reactor", "waiter", "owner"} : pc'[u] = pc[u]
        /\ pc'["closer"] # pc["closer"] => n = "unretain"
        /\ plat'.published = plat.published /\ plat'.reactorDone = plat.reactorDone
        /\ plat'.closedPosted <=> plat.closedPosted \/ n = "mark"
    BY InnerActs
  <1>2. call[t] = l /\ InnerEdge(l, n)
    BY DEF Inner
  <1>3. ~plat.published => n \in {"none", "lifecycle"}
    BY <1>2 DEF UnpublishedOK, InnerEdge
  <1> QED
    BY <1>1, <1>3 DEF UnpublishedOK

\* Nobody starts a close worker later.
LEMMA InnerShut ==
  ASSUME RefsInv, SafeInv, UnpublishedOK, Shut, NEW t \in Threads, NEW l, NEW n, Inner(t, l, n)
  PROVE  Shut'
  <1>1. /\ \A u \in Threads : call'[u] = IF u = t THEN n ELSE call[u]
        /\ pc'["boot"] = pc["boot"] /\ plat'.published = plat.published
        /\ plat.closeStarted => plat'.closeStarted
    BY InnerActs
  <1>2. call[t] = l /\ InnerEdge(l, n)
    BY DEF Inner
  <1>3. n # "create"
    BY <1>2 DEF InnerEdge, Shut, UnpublishedOK
  <1> QED
    BY <1>1, <1>3 DEF Shut

\* While the isolate listens, only its own thread is inside these functions.
LEMMA InnerListening ==
  ASSUME HandedOK, Listening, NEW t \in Threads, call[t] \notin {"none", "abandon"}
  PROVE  t = "owner"
  BY DEF HandedOK, Listening, InCall

\* SESSION_CLOSED is claimed by one thread and posted when the session is over.
LEMMA InnerClaim ==
  ASSUME RefsInv, SafeInv, WorkersOK, UnpublishedOK, ClaimOK, ToldOK, HandedOK,
         "waiter" \notin Faults,
         NEW t \in Threads, NEW l, NEW n, Inner(t, l, n)
  PROVE  ClaimOK'
  <1>1. /\ \A u \in Threads : call'[u] = IF u = t THEN n ELSE call[u]
        /\ \A u \in Threads : pc'[u] = pc[u] \/ (u = "closer" /\ pc'[u] = "stopping")
        /\ pc'["boot"] = pc["boot"] /\ "boot" \in Threads
        /\ plat'.published = plat.published
        /\ plat'.reactorDone = plat.reactorDone /\ plat'.waiterDone = plat.waiterDone
        /\ plat'.closeStarted <=> plat.closeStarted \/ n = "create"
        /\ plat'.closeDone <=> plat.closeDone \/ n = "stop"
        /\ plat'.closedPosted <=> plat.closedPosted \/ n = "mark"
        /\ Over => Over'
    BY InnerActs DEF Threads, Workers
  <1>2. /\ call[t] = l /\ InnerEdge(l, n) /\ InnerSays(l, n)
        /\ UNCHANGED <<portOpen, dart>>
        /\ abandoned' = IF l = "abandon" THEN TRUE ELSE abandoned
    BY DEF Inner
  <1>3. ~plat.published => l \in {"none", "abandon", "lifecycle"} /\ ~plat.closedPosted /\ ~plat.reactorDone
    BY <1>2 DEF UnpublishedOK
  <1>4. l = "maybe" /\ n = "mark" => Claimable
    BY <1>2 DEF InnerEdge
  <1>5. \/ log' = log
        \/ l = "post" /\ n = "none" /\ Listening /\ \A x : Told(x)' <=> Told(x) \/ x = "SESSION_CLOSED"
    <2>1. log \in Seq(Events) /\ "SESSION_CLOSED" \in Events
      BY DEF ToldOK, Events
    <2> QED
      BY <1>2, <2>1, LogGrows DEF InnerSays
  <1>6. \/ \A x : Told(x)' <=> Told(x)
        \/ l = "post" /\ n = "none" /\ Listening /\ \A x : Told(x)' <=> Told(x) \/ x = "SESSION_CLOSED"
    BY <1>5 DEF Told
  <1>7. \A u \in Threads : pc'[u] = "postClosed" \/ call'[u] = "post" => Over'
    <2>1. n = "post" => Over
      BY <1>2 DEF InnerEdge, SafeInv, ClosedOK
    <2> QED
      BY <1>1, <2>1 DEF ClaimOK
  <1>8. Told("SESSION_CLOSED")' \/ dart'.closed => Shut' /\ Over'
    <2>1. CASE Told("SESSION_CLOSED") \/ dart.closed
      BY <1>1, <2>1, InnerShut DEF ClaimOK
    <2>2. CASE l = "post" /\ n = "none" /\ Listening
      <3>1. Over /\ Closes(t)
        BY <1>2, <2>2 DEF ClaimOK, Closes
      <3>2. plat.closedPosted
        BY <1>3, <2>2, <3>1 DEF ClaimOK
      <3>3. Shut
        BY <2>2, <3>2 DEF ClaimOK, Shut
      <3> QED
        BY <1>1, <3>1, <3>3, InnerShut
    <2> QED
      BY <1>2, <1>6, <2>1, <2>2
  <1>9. ASSUME Listening'
        PROVE  /\ pc'["boot"] \notin UnstartedLabels \cup LateLabels
               /\ plat'.closeDone => plat'.closeStarted /\ \A u \in Threads : call'[u] # "create"
               /\ plat'.closedPosted => plat'.reactorDone /\ plat'.waiterDone /\ plat'.closeDone
               /\ \A u \in Threads : Closes(u)' =>
                    plat'.closedPosted \/ (u = "boot" /\ ~plat'.published)
               /\ \A u, v \in Threads : Closes(u)' /\ Closes(v)' => u = v
               /\ Told("SESSION_CLOSED")' =>
                    /\ plat'.closedPosted \/ (~plat'.published /\ pc'["boot"] \in BootGone)
                    /\ \A u \in Threads : ~Closes(u)'
    <2>1. Listening /\ l # "abandon"
      BY <1>2, <1>9 DEF Listening
    <2>2. /\ pc["boot"] \notin UnstartedLabels \cup LateLabels
          /\ plat.closeDone => plat.closeStarted /\ \A u \in Threads : call[u] # "create"
          /\ plat.closedPosted => plat.reactorDone /\ plat.waiterDone /\ plat.closeDone
          /\ \A u \in Threads : Closes(u) => plat.closedPosted \/ (u = "boot" /\ ~plat.published)
          /\ \A u, v \in Threads : Closes(u) /\ Closes(v) => u = v
          /\ Told("SESSION_CLOSED") =>
               /\ plat.closedPosted \/ (~plat.published /\ pc["boot"] \in BootGone)
               /\ \A u \in Threads : ~Closes(u)
      BY <2>1 DEF ClaimOK
    <2>3. t = "owner" /\ pc[t] \in {"idle", "wake"} /\ pc'[t] = pc[t]
      <3>1. call[t] \notin {"none", "abandon"}
        BY <1>2, <2>1 DEF InnerEdge
      <3>2. t = "owner"
        BY <2>1, <3>1, InnerListening
      <3> QED
        BY <1>1, <3>2 DEF WorkersOK
    <2>4. /\ \A u \in Threads \ {t} : Closes(u)' => Closes(u)
          /\ Closes(t)' => n \in {"mark", "post"}
      BY <1>1, <2>3 DEF Closes
    <2>5. n = "post" => Closes(t)
      BY <1>2 DEF InnerEdge, Closes
    <2>6. n = "mark" => /\ ~plat.closedPosted /\ plat.published
                        /\ plat.reactorDone /\ plat.waiterDone /\ plat.closeDone
                        /\ \A u \in Threads : ~Closes(u)
      <3>1. n = "mark" => Claimable
        BY <1>2 DEF InnerEdge
      <3>2. n = "mark" => /\ ~plat.closedPosted /\ plat.published
                          /\ plat.reactorDone /\ plat.waiterDone /\ plat.closeDone
        BY <1>3, <3>1 DEF Claimable, AllDone
      <3> QED
        BY <2>2, <3>2
    <2>7. plat'.closeDone => plat'.closeStarted /\ \A u \in Threads : call'[u] # "create"
      <3>1. CASE plat.closeDone
        <4>1. n # "create"
          BY <1>2, <3>1 DEF InnerEdge
        <4> QED
          BY <1>1, <2>2, <3>1, <4>1
      <3>2. CASE n = "stop"
        <4>1. call[t] = "create"
          BY <1>2, <3>2 DEF InnerEdge
        <4>2. plat.closeStarted /\ \A u \in Threads : call[u] = "create" => u = t
          BY <4>1 DEF RefsInv, ClosesOnce
        <4> QED
          BY <1>1, <3>2, <4>2
      <3> QED
        BY <1>1, <3>1, <3>2
    <2>8. plat'.closedPosted => plat'.reactorDone /\ plat'.waiterDone /\ plat'.closeDone
      BY <1>1, <2>2, <2>6
    <2>9. \A u \in Threads : Closes(u)' => plat'.closedPosted \/ (u = "boot" /\ ~plat'.published)
      BY <1>1, <2>2, <2>4, <2>5
    <2>10. \A u, v \in Threads : Closes(u)' /\ Closes(v)' => u = v
      <3>1. Closes(t)' => \A u \in Threads : Closes(u) => u = t
        BY <2>2, <2>4, <2>5, <2>6
      <3> QED
        BY <2>2, <2>4, <3>1
    <2>11. ASSUME Told("SESSION_CLOSED")'
           PROVE  /\ plat'.closedPosted \/ (~plat'.published /\ pc'["boot"] \in BootGone)
                  /\ \A u \in Threads : ~Closes(u)'
      <3>1. CASE Told("SESSION_CLOSED")
        <4>1. n # "mark"
          BY <2>2, <2>6, <3>1
        <4> QED
          BY <1>1, <2>2, <2>4, <2>5, <3>1, <4>1
      <3>2. CASE l = "post" /\ n = "none"
        <4>1. Closes(t)
          BY <1>2, <3>2 DEF Closes
        <4>2. plat.closedPosted
          BY <1>3, <2>2, <3>2, <4>1
        <4> QED
          BY <1>1, <2>2, <2>4, <3>2, <4>1, <4>2
      <3> QED
        BY <1>6, <2>11, <3>1, <3>2
    <2> QED
      BY <1>1, <2>2, <2>7, <2>8, <2>9, <2>10, <2>11
  <1> QED
    BY <1>7, <1>8, <1>9 DEF ClaimOK

\* The isolate is told at most that the session is closed.
LEMMA InnerTold ==
  ASSUME RefsInv, SafeInv, ToldOK, HandedOK, NEW t \in Threads, NEW l, NEW n, Inner(t, l, n)
  PROVE  ToldOK'
  <1>1. \A u \in {"boot", "reactor", "waiter"} : pc'[u] = pc[u]
    BY InnerActs
  <1>2. /\ call[t] = l /\ l # "none" /\ InnerSays(l, n) /\ portOpen' = portOpen
        /\ abandoned' = IF l = "abandon" THEN TRUE ELSE abandoned
    BY DEF Inner, InnerEdge
  <1>3. Listening' => Listening
    BY <1>2 DEF Listening
  <1>4. /\ log' \in Seq(Events)
        /\ \A x : x # "SESSION_CLOSED" => (Told(x)' <=> Told(x))
    <2>1. log \in Seq(Events) /\ "SESSION_CLOSED" \in Events
      BY DEF ToldOK, Events
    <2>2. CASE log' = log
      BY <2>1, <2>2 DEF Told
    <2>3. CASE log' = Append(log, "SESSION_CLOSED")
      BY <2>1, <2>3, LogGrows
    <2> QED
      BY <1>2, <2>2, <2>3 DEF InnerSays
  <1>5. /\ Told("SPAWNED")' <=> Told("SPAWNED")
        /\ Told("SPAWN_FAILED")' <=> Told("SPAWN_FAILED")
        /\ Told("ASYNC_ERROR")' <=> Told("ASYNC_ERROR")
        /\ Told("OUTPUT_CLOSED")' <=> Told("OUTPUT_CLOSED")
        /\ Told("INPUT_CLOSED")' <=> Told("INPUT_CLOSED")
        /\ Told("PROCESS_EXIT")' <=> Told("PROCESS_EXIT")
    BY <1>4
  <1>6. ~Calm
    BY <1>2 DEF Calm
  <1> QED
    BY <1>1, <1>3, <1>4, <1>5, <1>6 DEF ToldOK

\* Who gives the session up and who is on the way to.
GivingOK ==
  /\ handed = (IF dart.finalizer = "detached" THEN 1 ELSE 0) + (IF GivenUp THEN 1 ELSE 0)
  /\ abandoning \subseteq Threads
  /\ \A t \in abandoning : abandoned /\ InCall(t)
  /\ \A t, u \in abandoning : t = u
  /\ \A t \in Threads : t # "owner" /\ InCall(t) => t \in abandoning
  /\ dart.gone /\ InCall("owner") => "owner" \in abandoning
  /\ GivenUp /\ ~dart.gone /\ ~dart.closed =>
       \/ plat.closeStarted /\ call["owner"] # "create"
       \/ lifecycle = "CLOSED" /\ call["owner"] \notin {"claim", "create"}
  /\ GivenUp => \A t \in Threads : call[t] # "create"

\* A session is given up at most once by an abandonment, and nothing is created
\* for it afterwards.
LEMMA InnerGiving ==
  ASSUME RefsInv, SafeInv, UnpublishedOK, ClaimOK, HandedOK,
         NEW t \in Threads, NEW l, NEW n, Inner(t, l, n)
  PROVE  GivingOK'
  <1>1. /\ \A u \in Threads : call'[u] = IF u = t THEN n ELSE call[u]
        /\ plat'.closeStarted <=> plat.closeStarted \/ n = "create"
        /\ lifecycle = "CLOSED" => lifecycle' = "CLOSED"
        /\ "owner" \in Threads
    BY InnerActs DEF Threads, Workers
  <1>2. /\ call[t] = l /\ InnerEdge(l, n) /\ InnerGives(t, l, n)
        /\ UNCHANGED dart
        /\ abandoned' = IF l = "abandon" THEN TRUE ELSE abandoned
    BY DEF Inner
  <1>3. GivingOK
    BY DEF HandedOK, GivingOK
  <1>4. /\ n = "create" => l = "claim" /\ ~plat.closeStarted
        /\ n = "claim" => lifecycle # "CLOSED" /\ l = "lifecycle"
        /\ n = "abandon" => ~abandoned
        /\ l = "abandon" => n \in {"none", "lifecycle"}
        /\ l = "abandon" /\ n = "none" => abandoned
        /\ l = "abandon" /\ n = "lifecycle" => ~abandoned
    BY <1>2 DEF InnerEdge
  <1>5. \A u \in Threads : InCall(u)' <=> IF u = t THEN n \notin {"none", "abandon"} ELSE InCall(u)
    BY <1>1 DEF InCall
  <1>6. InCall(t) <=> l # "abandon"
    BY <1>2 DEF InCall, InnerEdge
  <1>7. abandoned \in BOOLEAN /\ handed \in Int
    BY DEF HandedOK, RefsInv, RefsTypeOK
  \* Nothing new is given up, ...
  <1>8. ASSUME abandoning' = abandoning, handed' = handed, GivenUp' = GivenUp,
               l = "abandon" => n = "none", n = "none" => t \notin abandoning
        PROVE  GivingOK'
    <2>1. /\ handed' = (IF dart'.finalizer = "detached" THEN 1 ELSE 0) + (IF GivenUp' THEN 1 ELSE 0)
          /\ abandoning' \subseteq Threads
          /\ \A u, v \in abandoning' : u = v
      BY <1>2, <1>3, <1>8 DEF GivingOK
    <2>2. \A u \in abandoning' : abandoned' /\ InCall(u)'
      BY <1>2, <1>3, <1>4, <1>5, <1>8 DEF GivingOK
    <2>3. \A u \in Threads : u # "owner" /\ InCall(u)' => u \in abandoning'
      BY <1>3, <1>5, <1>6, <1>8 DEF GivingOK
    <2>4. dart'.gone /\ InCall("owner")' => "owner" \in abandoning'
      BY <1>1, <1>2, <1>3, <1>5, <1>6, <1>8 DEF GivingOK
    <2>5. GivenUp' /\ ~dart'.gone /\ ~dart'.closed =>
            \/ plat'.closeStarted /\ call'["owner"] # "create"
            \/ lifecycle' = "CLOSED" /\ call'["owner"] \notin {"claim", "create"}
      BY <1>1, <1>2, <1>3, <1>4, <1>8 DEF GivingOK
    <2>6. GivenUp' => \A u \in Threads : call'[u] # "create"
      <3>1. ASSUME GivenUp, n = "create" PROVE FALSE
        <4>1. abandoning = {} /\ l = "claim" /\ ~plat.closeStarted /\ InCall(t)
          BY <1>4, <1>6, <3>1 DEF GivenUp
        <4>2. t = "owner" /\ ~dart.gone
          BY <1>3, <4>1 DEF GivingOK
        <4>3. dart.closed
          BY <1>2, <1>3, <3>1, <4>1, <4>2 DEF GivingOK
        <4>4. ~plat.published
          BY <4>1, <4>3 DEF ClaimOK, Shut
        <4> QED
          BY <1>2, <4>1, <4>4 DEF UnpublishedOK
      <3> QED
        BY <1>1, <1>3, <1>8, <3>1 DEF GivingOK
    <2> QED
      BY <2>1, <2>2, <2>3, <2>4, <2>5, <2>6 DEF GivingOK
  \* ... or an abandonment begins, ...
  <1>9. CASE l = "abandon" /\ n = "lifecycle" /\ abandoning' = abandoning \cup {t} /\ handed' = handed
    <2>1. ~abandoned /\ abandoned' = TRUE /\ abandoning = {} /\ abandoning' = {t}
      BY <1>2, <1>3, <1>4, <1>9 DEF GivingOK
    <2>2. ~GivenUp /\ ~GivenUp'
      BY <2>1 DEF GivenUp
    <2>3. /\ handed' = (IF dart'.finalizer = "detached" THEN 1 ELSE 0) + (IF GivenUp' THEN 1 ELSE 0)
          /\ abandoning' \subseteq Threads
          /\ \A u, v \in abandoning' : u = v
      BY <1>2, <1>3, <1>9, <2>1, <2>2 DEF GivingOK
    <2>4. /\ \A u \in abandoning' : abandoned' /\ InCall(u)'
          /\ \A u \in Threads : u # "owner" /\ InCall(u)' => u \in abandoning'
          /\ dart'.gone /\ InCall("owner")' => "owner" \in abandoning'
      BY <1>1, <1>2, <1>3, <1>5, <1>9, <2>1 DEF GivingOK
    <2> QED
      BY <2>2, <2>3, <2>4 DEF GivingOK
  \* ... or one ends.
  <1>10. CASE /\ l # "abandon" /\ n = "none" /\ abandoning' = abandoning \ {t}
              /\ handed' = IF t \in abandoning THEN handed + 1 ELSE handed
    <2>1. CASE t \notin abandoning
      <3>1. abandoning' = abandoning /\ handed' = handed /\ abandoned' = abandoned
        BY <1>2, <1>10, <2>1
      <3> QED
        BY <1>8, <1>10, <2>1, <3>1 DEF GivenUp
    <2>2. CASE t \in abandoning
      <3>1. abandoned /\ abandoned' /\ abandoning = {t} /\ abandoning' = {} /\ handed' = handed + 1
        BY <1>2, <1>3, <1>10, <2>2 DEF GivingOK
      <3>2. ~GivenUp /\ GivenUp'
        BY <3>1 DEF GivenUp
      <3>3. handed' = (IF dart'.finalizer = "detached" THEN 1 ELSE 0) + (IF GivenUp' THEN 1 ELSE 0)
        BY <1>2, <1>3, <3>1, <3>2 DEF GivingOK
      <3>4. /\ \A u \in Threads : u # "owner" /\ InCall(u)' => u \in abandoning'
            /\ dart'.gone /\ InCall("owner")' => "owner" \in abandoning'
        BY <1>1, <1>2, <1>3, <1>5, <1>10, <3>1 DEF GivingOK
      <3>5. t # "owner" => dart.gone \/ dart.closed
        BY <1>2 DEF HandedOK, InnerEdge
      <3>6. ASSUME ~dart.gone, ~dart.closed
            PROVE  \/ plat'.closeStarted /\ call'["owner"] # "create"
                   \/ lifecycle' = "CLOSED" /\ call'["owner"] \notin {"claim", "create"}
        <4>1. t = "owner" /\ call'["owner"] = "none"
          BY <1>1, <1>10, <3>5, <3>6
        <4>2. /\ plat.published /\ lifecycle # "STARTING"
              /\ plat.closeDone => plat.closeStarted
          BY <1>1, <3>1, <3>6 DEF HandedOK
        <4>3. CASE l = "lifecycle"
          BY <1>1, <1>2, <1>10, <4>1, <4>2, <4>3 DEF InnerEdge
        <4>4. CASE l = "claim"
          BY <1>1, <1>2, <1>10, <4>1, <4>2, <4>4 DEF InnerEdge
        <4>5. CASE l \notin {"lifecycle", "claim"}
          <5>1. plat.closeStarted
            BY <1>2, <1>10, <4>5 DEF HandedOK, InnerEdge
          <5> QED
            BY <1>1, <4>1, <5>1
        <4> QED
          BY <4>3, <4>4, <4>5
      <3>7. \A u \in Threads : call'[u] # "create"
        <4>1. ASSUME NEW u \in Threads, u # t, call[u] = "create" PROVE FALSE
          <5>1. InCall(u) /\ u \notin abandoning
            BY <3>1, <4>1 DEF InCall
          <5>2. u = "owner" /\ ~dart.gone
            BY <1>3, <5>1 DEF GivingOK
          <5>3. dart.closed
            BY <3>5, <4>1, <5>2
          <5> QED
            BY <4>1, <5>3 DEF ClaimOK, Shut
        <4> QED
          BY <1>1, <1>10, <4>1
      <3>8. /\ abandoning' \subseteq Threads
            /\ \A u \in abandoning' : abandoned' /\ InCall(u)'
            /\ \A u, v \in abandoning' : u = v
        BY <3>1
      <3> QED
        BY <1>2, <3>3, <3>4, <3>6, <3>7, <3>8 DEF GivingOK
    <2> QED
      BY <2>1, <2>2
  <1>11. CASE (l = "abandon" <=> n = "none") /\ abandoning' = abandoning /\ handed' = handed
    <2>1. abandoned' = abandoned
      BY <1>2, <1>4, <1>7, <1>11
    <2>2. n = "none" => t \notin abandoning
      BY <1>3, <1>6, <1>11 DEF GivingOK
    <2> QED
      BY <1>8, <1>11, <2>1, <2>2 DEF GivenUp
  <1> QED
    BY <1>2, <1>9, <1>10, <1>11 DEF InnerGives

\* Dart's reference is accounted for inside these functions.
LEMMA InnerHanded ==
  ASSUME RefsInv, SafeInv, UnpublishedOK, ClaimOK, ToldOK, HandedOK,
         NEW t \in Threads, NEW l, NEW n, Inner(t, l, n)
  PROVE  HandedOK'
  <1>1. /\ \A u \in Threads : call'[u] = IF u = t THEN n ELSE call[u]
        /\ pc'["boot"] = pc["boot"] /\ plat'.published = plat.published
        /\ plat'.closeStarted <=> plat.closeStarted \/ n = "create"
        /\ plat'.closeDone <=> plat.closeDone \/ n = "stop"
        /\ lifecycle' = "STARTING" => lifecycle = "STARTING"
    BY InnerActs
  <1>2. /\ call[t] = l /\ InnerEdge(l, n) /\ InnerSays(l, n)
        /\ UNCHANGED <<portOpen, dart>>
        /\ abandoned' = IF l = "abandon" THEN TRUE ELSE abandoned
    BY DEF Inner
  <1>3. Told("SPAWNED")' <=> Told("SPAWNED")
    <2>1. log \in Seq(Events) /\ "SESSION_CLOSED" \in Events
      BY DEF ToldOK, Events
    <2>2. CASE log' = log
      BY <2>2 DEF Told
    <2>3. CASE log' = Append(log, "SESSION_CLOSED")
      BY <2>1, <2>3, LogGrows
    <2> QED
      BY <1>2, <2>2, <2>3 DEF InnerSays
  <1>4. GivingOK'
    BY InnerGiving
  <1>5. /\ n = "abandon" => ~portOpen
        /\ n = "stop" => l = "create"
        /\ n \notin {"none", "abandon", "lifecycle", "claim", "create"} =>
             l \notin {"none", "abandon", "lifecycle", "claim"}
        /\ l # "none"
    BY <1>2 DEF InnerEdge
  <1>6. /\ dart' \in DartType /\ portOpen' \in BOOLEAN /\ abandoned' \in BOOLEAN
        /\ dart'.finalizer = "detached" => dart'.closed
        /\ portOpen' <=> ~dart'.gone /\ ~dart'.closed
    BY <1>2 DEF HandedOK
  <1>7. \A u \in Threads : abandoned' \/ call'[u] = "abandon" =>
          dart'.gone \/ dart'.closed \/ dart'.spawn = "ok"
    <2>1. ASSUME NEW u \in Threads, abandoned \/ call[u] = "abandon"
          PROVE  dart.gone \/ dart.closed \/ dart.spawn = "ok"
      BY <2>1 DEF HandedOK
    <2>2. n = "abandon" => dart.gone \/ dart.closed
      BY <1>5 DEF HandedOK
    <2>3. abandoned' => abandoned \/ call[t] = "abandon"
      BY <1>2
    <2> QED
      BY <1>1, <1>2, <2>1, <2>2, <2>3
  <1>8. dart'.spawn = "ok" \/ Told("SPAWNED")' =>
          /\ pc'["boot"] \in BootGone /\ plat'.published /\ lifecycle' # "STARTING"
          /\ plat'.closeDone => plat'.closeStarted
    <2>1. n = "stop" => plat.closeStarted
      BY <1>2, <1>5 DEF HandedOK
    <2> QED
      BY <1>1, <1>2, <1>3, <2>1 DEF HandedOK
  <1>9. pc'["boot"] = "spawned" => lifecycle' # "STARTING"
    BY <1>1 DEF HandedOK
  <1>10. \A u \in Threads : u # "owner" /\ call'[u] # "none" => dart'.gone \/ dart'.closed
    BY <1>1, <1>2, <1>5 DEF HandedOK
  <1>11. \A u \in Threads :
           call'[u] \notin {"none", "abandon", "lifecycle", "claim"} => plat'.closeStarted
    BY <1>1, <1>2, <1>5 DEF HandedOK
  <1> QED
    BY <1>4, <1>6, <1>7, <1>8, <1>9, <1>10, <1>11 DEF HandedOK, GivingOK

-----------------------------------------------------------------------------
(* The steps of the program, its supervisor and the isolate                *)

\* The initial state.
LEMMA InitContract == Init => WorkersOK /\ UnpublishedOK /\ ClaimOK /\ ToldOK /\ HandedOK
  <1> SUFFICES ASSUME Init PROVE WorkersOK /\ UnpublishedOK /\ ClaimOK /\ ToldOK /\ HandedOK
    OBVIOUS
  <1>1. /\ pc["boot"] = "spawn" /\ pc["reactor"] = "off" /\ pc["waiter"] = "off"
        /\ pc["closer"] = "off" /\ pc["owner"] = "idle"
        /\ \A t \in Threads : pc[t] \in {"spawn", "off", "idle"}
        /\ \A t \in Threads : call[t] = "none"
    BY DEF Init, Threads, Workers
  <1>2. /\ lifecycle = "STARTING" /\ abandoned = FALSE /\ handed = 0 /\ abandoning = {}
        /\ report = "none" /\ program = "none" /\ portOpen = TRUE /\ log = <<>>
        /\ ~plat.published /\ ~plat.stopping /\ ~plat.reactorDone /\ ~plat.waiterDone
        /\ ~plat.closeStarted /\ ~plat.closeDone /\ ~plat.closedPosted
    BY DEF Init
  <1>3. dart \in DartType
    BY DEF Init, DartType
  <1>4. /\ dart.spawn = "pending" /\ ~dart.fatal /\ ~dart.closing /\ ~dart.closed /\ ~dart.gone
        /\ dart.finalizer = "attached"
    BY DEF Init
  <1>5. log \in Seq(Events) /\ \A x : ~Told(x)
    BY <1>2, EmptySeq DEF Told
  <1>6. WorkersOK
    BY <1>1, <1>2 DEF WorkersOK, AloneLabels
  <1>7. UnpublishedOK
    BY <1>1, <1>2 DEF UnpublishedOK
  <1>8. ClaimOK
    BY <1>1, <1>2, <1>4, <1>5 DEF ClaimOK, Closes, UnstartedLabels, LateLabels
  <1>9. ToldOK
    BY <1>1, <1>2, <1>4, <1>5 DEF ToldOK, Calm, CancelLabels
  <1>10. HandedOK
    <2>1. ~GivenUp /\ (\A t \in Threads : ~InCall(t)) /\ "owner" \in Threads
      BY <1>1, <1>2 DEF GivenUp, InCall, Threads
    <2>2. handed = (IF dart.finalizer = "detached" THEN 1 ELSE 0) + (IF GivenUp THEN 1 ELSE 0)
      BY <1>2, <1>4, <2>1
    <2>3. /\ abandoning \subseteq Threads
          /\ \A t \in abandoning : abandoned /\ InCall(t)
          /\ \A t, u \in abandoning : t = u
      BY <1>2
    <2>4. portOpen \in BOOLEAN /\ abandoned \in BOOLEAN /\ (portOpen <=> ~dart.gone /\ ~dart.closed)
      BY <1>2, <1>4
    <2>5. ~Told("SPAWNED") /\ pc["boot"] # "spawned"
      BY <1>1, <1>5
    <2>6. \A t \in Threads : ~(abandoned \/ call[t] = "abandon") /\ call[t] = "none"
      BY <1>1, <1>2
    <2> HIDE DEF GivenUp, InCall
    <2> QED
      BY <1>3, <1>4, <2>1, <2>2, <2>3, <2>4, <2>5, <2>6 DEF HandedOK
  <1> QED
    BY <1>6, <1>7, <1>8, <1>9, <1>10

\* The program exits, its supervisor dies, it is reaped.
LEMMA ProcessKeeps ==
  ASSUME IInv, ProgramExits \/ SupervisorDies \/ Reap
  PROVE  WorkersOK' /\ UnpublishedOK' /\ ClaimOK' /\ ToldOK' /\ HandedOK'
  <1>1. /\ UNCHANGED <<pc, call, abandoning, lifecycle, abandoned, handed, plat, report, log,
                       portOpen, dart>>
        /\ \/ program' = program
           \/ program \in {"running", "exited"} /\ program' \in {"exited", "reaped"}
    BY DEF ProgramExits, SupervisorDies, Reap, processFrame, callVars, sessionVars, dartVars
  <1>2. WorkersOK /\ UnpublishedOK /\ ClaimOK /\ ToldOK /\ HandedOK
    BY DEF IInv
  <1>3. Over' = Over
    BY <1>1 DEF Over
  <1>4. WorkersOK'
    BY <1>1, <1>2, <1>3 DEF WorkersOK
  <1>5. UnpublishedOK'
    BY <1>1, <1>2 DEF UnpublishedOK
  <1>6. ClaimOK'
    BY <1>1, <1>2, <1>3 DEF ClaimOK, Closes, Shut, Told, Listening
  <1>7. ToldOK'
    BY <1>1, <1>2 DEF ToldOK, Calm, Told, Listening
  <1>8. HandedOK'
    BY <1>1, <1>2 DEF HandedOK, InCall, GivenUp, Told
  <1> QED
    BY <1>4, <1>5, <1>6, <1>7, <1>8

\* What a step of the isolate may do: begin a call of its own, ...
DartCalls ==
  \/ call' = call
  \/ /\ call["owner"] = "none" /\ call' = [call EXCEPT !["owner"] = "lifecycle"] /\ ~dart'.gone
  \/ /\ call["owner"] = "none" /\ call' = [call EXCEPT !["owner"] = "abandon"]
     /\ dart.gone \/ dart.spawn = "ok"

\* ... hear that the session is closed, or go away with all it heard, ...
DartHears ==
  \/ log' = log /\ portOpen' = portOpen /\ dart'.gone = dart.gone /\ dart'.closed = dart.closed
  \/ /\ log' = log /\ portOpen /\ ~portOpen' /\ dart'.gone = dart.gone /\ dart'.closed
     /\ Told("SESSION_CLOSED")
  \/ /\ log' = <<>> /\ ~portOpen' /\ dart'.gone /\ dart'.closed = dart.closed
     /\ call["owner"] = "none" /\ call' = call

\* ... and release its reference, once it heard so.
DartReleases ==
  \/ (dart'.finalizer = "detached" <=> dart.finalizer = "detached") /\ handed' = handed
  \/ /\ dart'.finalizer = "detached" /\ dart.finalizer # "detached" /\ dart.closed
     /\ handed' = handed + 1

\* It acts on an answer, on an error or on its end.
DartReason ==
  \/ Told("SPAWNED") \/ Told("SPAWN_FAILED") \/ Told("ASYNC_ERROR")
  \/ dart.spawn # "pending" \/ dart.fatal \/ dart.gone

DartStep ==
  /\ UNCHANGED <<pc, abandoning, lifecycle, abandoned, plat, program, report>>
  /\ DartCalls /\ DartHears /\ DartReleases
  /\ dart' \in DartType
  /\ dart'.spawn = "ok" => dart.spawn = "ok" \/ Told("SPAWNED")
  /\ dart.spawn = "ok" => dart'.spawn = "ok"
  /\ ~DartReason => /\ call' = call /\ dart'.spawn = dart.spawn /\ dart'.fatal = dart.fatal
                    /\ dart'.closing = dart.closing

\* Every action of the isolate is such a step.
LEMMA DartSteps ==
  ASSUME IInv,
         \/ DartReceives \/ UserCloses \/ DriverCloses \/ CloseFinishes
         \/ IsolateExits \/ FinalizerAtExit \/ WrapperCollected
  PROVE  DartStep
  <1>1. /\ dart \in DartType /\ DOMAIN call = Threads /\ "owner" \in Threads
        /\ portOpen <=> ~dart.gone /\ ~dart.closed
        /\ log \in Seq(Events) /\ portOpen \in BOOLEAN
    BY DEF IInv, HandedOK, ToldOK, RefsInv, RefsTypeOK, Threads
  <1>2. CASE DartReceives
    <2> DEFINE event == log[dart.seen + 1]
               fails == event \in {"SPAWN_FAILED", "ASYNC_ERROR"} /\ ~dart.fatal
               next == [dart EXCEPT
                       !.seen = @ + 1,
                       !.spawn = IF @ # "pending" THEN @
                                 ELSE IF event = "SPAWNED" THEN "ok"
                                 ELSE IF fails THEN "failed" ELSE @,
                       !.fatal = @ \/ fails,
                       !.closed = @ \/ event = "SESSION_CLOSED"]
    <2>1. /\ CanRun /\ portOpen /\ dart.seen < Len(log)
          /\ dart' = next /\ portOpen' = (event # "SESSION_CLOSED")
          /\ IF fails THEN OwnerCalls ELSE UNCHANGED call
          /\ UNCHANGED <<pc, abandoning, lifecycle, abandoned, handed, plat, program, report, log>>
      BY <1>2 DEF DartReceives, sessionVars, processVars
    <2>2. dart.seen + 1 \in 1 .. Len(log)
      <3>1. dart.seen \in Nat /\ Len(log) \in Nat
        BY <1>1, LenProperties DEF DartType
      <3> QED
        BY <2>1, <3>1
    <2>3. Told(event)
      BY <2>2 DEF Told
    <2> HIDE DEF event
    <2>4. /\ dart'.seen = dart.seen + 1 /\ dart'.closing = dart.closing /\ dart'.gone = dart.gone
          /\ dart'.finalizer = dart.finalizer
          /\ dart'.spawn = IF dart.spawn # "pending" THEN dart.spawn
                           ELSE IF event = "SPAWNED" THEN "ok"
                           ELSE IF fails THEN "failed" ELSE dart.spawn
          /\ dart'.fatal = (dart.fatal \/ fails)
          /\ dart'.closed = (dart.closed \/ event = "SESSION_CLOSED")
          /\ dart' \in DartType
      <3> DEFINE spawn == IF dart.spawn # "pending" THEN dart.spawn
                         ELSE IF event = "SPAWNED" THEN "ok"
                         ELSE IF fails THEN "failed" ELSE dart.spawn
                 fatal == dart.fatal \/ fails
                 closed == dart.closed \/ event = "SESSION_CLOSED"
      <3>1. spawn \in {"pending", "ok", "failed"}
        BY <1>1 DEF DartType
      <3>2. fatal \in BOOLEAN /\ closed \in BOOLEAN
        OBVIOUS
      <3>3. dart' = [dart EXCEPT !.seen = dart.seen + 1, !.spawn = spawn, !.fatal = fatal,
                                 !.closed = closed]
        BY <2>1
      <3> HIDE DEF spawn, fatal, closed
      <3>4. /\ dart'.seen = dart.seen + 1 /\ dart'.closing = dart.closing /\ dart'.gone = dart.gone
            /\ dart'.finalizer = dart.finalizer /\ dart'.spawn = spawn
            /\ dart'.fatal = fatal /\ dart'.closed = closed /\ dart' \in DartType
        <4> DEFINE seen == dart.seen + 1
        <4>1. seen \in Nat
          BY <1>1 DEF DartType
        <4> HIDE DEF seen
        <4>2. dart' = [dart EXCEPT !.seen = seen, !.spawn = spawn, !.fatal = fatal,
                                   !.closed = closed]
          BY <3>3 DEF seen
        <4>3. /\ dart'.closing = dart.closing /\ dart'.gone = dart.gone
              /\ dart'.finalizer = dart.finalizer
          BY <1>1, <4>2 DEF DartType
        <4>4. dart'.seen = seen /\ dart'.spawn = spawn /\ dart'.fatal = fatal /\ dart'.closed = closed
          BY <1>1, <4>2 DEF DartType
        <4>5. dart' \in DartType
          BY <1>1, <3>1, <3>2, <4>1, <4>2 DEF DartType
        <4> QED
          BY <4>3, <4>4, <4>5 DEF seen
      <3> QED
        BY <3>4 DEF spawn, fatal, closed
    <2>5. DartCalls
      <3>1. CASE fails
        BY <2>1, <2>4, <3>1 DEF DartCalls, OwnerCalls, CanRun, At
      <3>2. CASE ~fails
        BY <2>1, <3>2 DEF DartCalls
      <3> QED
        BY <3>1, <3>2
    <2>6. DartHears
      <3>1. CASE event = "SESSION_CLOSED"
        BY <1>1, <2>1, <2>3, <2>4, <3>1 DEF DartHears
      <3>2. CASE event # "SESSION_CLOSED"
        BY <1>1, <2>1, <2>4, <3>2 DEF DartHears, DartType
      <3> QED
        BY <3>1, <3>2
    <2>7. DartReleases
      BY <2>1, <2>4 DEF DartReleases
    <2>8. /\ dart'.spawn = "ok" => dart.spawn = "ok" \/ Told("SPAWNED")
          /\ dart.spawn = "ok" => dart'.spawn = "ok"
      <3>1. event = "SPAWNED" => Told("SPAWNED")
        BY <2>3
      <3> QED
        BY <2>4, <3>1
    <2>9. ~DartReason => /\ call' = call /\ dart'.spawn = dart.spawn /\ dart'.fatal = dart.fatal
                         /\ dart'.closing = dart.closing
      <3>1. ~DartReason => event # "SPAWNED" /\ event # "SPAWN_FAILED" /\ event # "ASYNC_ERROR"
        BY <2>3 DEF DartReason
      <3>2. ~DartReason => ~fails
        BY <3>1
      <3>3. ASSUME ~DartReason PROVE dart'.fatal = dart.fatal
        BY <1>1, <2>4, <3>2, <3>3 DEF DartReason, DartType
      <3> QED
        BY <2>1, <2>4, <3>1, <3>2, <3>3
    <2> QED
      BY <2>1, <2>4, <2>5, <2>6, <2>7, <2>8, <2>9 DEF DartStep
  <1>3. CASE UserCloses \/ DriverCloses
    <2>1. /\ Close /\ dart.spawn # "pending"
      BY <1>3 DEF UserCloses, DriverCloses
    <2>2. /\ CanRun /\ dart' = [dart EXCEPT !.closing = TRUE] /\ OwnerCalls
          /\ UNCHANGED <<pc, abandoning, lifecycle, abandoned, handed, plat, program, report, log,
                         portOpen>>
      BY <2>1 DEF Close, sessionVars, processVars
    <2>3. /\ dart' \in DartType /\ dart'.gone = dart.gone /\ dart'.closed = dart.closed
          /\ dart'.spawn = dart.spawn /\ dart'.finalizer = dart.finalizer
      BY <1>1, <2>2 DEF DartType
    <2>4. DartCalls
      BY <2>2, <2>3 DEF DartCalls, OwnerCalls, CanRun, At
    <2> QED
      BY <2>1, <2>2, <2>3, <2>4 DEF DartStep, DartHears, DartReleases, DartReason
  <1>4. CASE CloseFinishes
    <2>1. /\ dart' = [dart EXCEPT !.finalizer = "detached"] /\ dart.closed
          /\ dart.finalizer = "attached" /\ handed' = handed + 1
          /\ UNCHANGED <<pc, call, abandoning, lifecycle, abandoned, plat, program, report, log,
                         portOpen>>
      BY <1>4 DEF CloseFinishes, Detached, callVars, processVars
    <2>2. /\ dart' \in DartType /\ dart'.gone = dart.gone /\ dart'.closed = dart.closed
          /\ dart'.spawn = dart.spawn /\ dart'.finalizer = "detached"
          /\ dart'.fatal = dart.fatal /\ dart'.closing = dart.closing
      BY <1>1, <2>1 DEF DartType
    <2> QED
      BY <2>1, <2>2 DEF DartStep, DartCalls, DartHears, DartReleases
  <1>5. CASE IsolateExits
    <2>1. /\ CanRun /\ dart' = [dart EXCEPT !.gone = TRUE, !.seen = 0]
          /\ log' = <<>> /\ portOpen' = FALSE
          /\ UNCHANGED <<pc, call, abandoning, lifecycle, abandoned, handed, plat, program, report>>
      BY <1>5 DEF IsolateExits, callVars, sessionVars, processVars
    <2>2. /\ dart' \in DartType /\ dart'.gone /\ dart'.closed = dart.closed
          /\ dart'.spawn = dart.spawn /\ dart'.finalizer = dart.finalizer
          /\ dart'.fatal = dart.fatal /\ dart'.closing = dart.closing
      BY <1>1, <2>1 DEF DartType
    <2>3. call["owner"] = "none"
      BY <2>1 DEF CanRun, At
    <2> QED
      BY <2>1, <2>2, <2>3 DEF DartStep, DartCalls, DartHears, DartReleases
  <1>6. CASE FinalizerAtExit \/ WrapperCollected
    <2>1. /\ At("owner", "idle") /\ dart.finalizer = "attached"
          /\ dart' = [dart EXCEPT !.finalizer = "ran"]
          /\ call' = [call EXCEPT !["owner"] = "abandon"]
          /\ dart.gone \/ dart.spawn = "ok"
          /\ UNCHANGED <<pc, abandoning, lifecycle, abandoned, handed, plat, program, report, log,
                         portOpen>>
      BY <1>6 DEF FinalizerAtExit, WrapperCollected, RunFinalizer, Abandon, processVars
    <2>2. /\ dart' \in DartType /\ dart'.gone = dart.gone /\ dart'.closed = dart.closed
          /\ dart'.spawn = dart.spawn /\ dart'.finalizer = "ran"
      BY <1>1, <2>1 DEF DartType
    <2>3. DartCalls
      BY <2>1 DEF DartCalls, At
    <2>4. DartReason
      BY <2>1 DEF DartReason
    <2> QED
      BY <2>1, <2>2, <2>3, <2>4 DEF DartStep, DartHears, DartReleases
  <1> QED
    BY <1>2, <1>3, <1>4, <1>5, <1>6

\* A step of the isolate keeps the invariant.
LEMMA DartKeeps ==
  ASSUME IInv, DartStep
  PROVE  WorkersOK' /\ UnpublishedOK' /\ ClaimOK' /\ ToldOK' /\ HandedOK'
  <1>1. WorkersOK /\ UnpublishedOK /\ ClaimOK /\ ToldOK /\ HandedOK
    BY DEF IInv
  <1>2. UNCHANGED <<pc, abandoning, lifecycle, abandoned, plat, program, report>>
    BY DEF DartStep
  <1>3. /\ DOMAIN call = Threads /\ "owner" \in Threads /\ "boot" \in Threads
        /\ portOpen \in BOOLEAN /\ dart \in DartType
    BY <1>1 DEF IInv, RefsInv, RefsTypeOK, HandedOK, Threads, Workers
  <1>4. \A u \in Threads : \/ call'[u] = call[u]
                           \/ /\ u = "owner" /\ call[u] = "none"
                              /\ \/ call'[u] = "lifecycle" /\ ~dart'.gone
                                 \/ call'[u] = "abandon" /\ (dart.gone \/ dart.spawn = "ok")
    BY <1>3 DEF DartStep, DartCalls
  <1>5. /\ log' = log \/ (log' = <<>> /\ ~portOpen')
        /\ portOpen' => portOpen
        /\ dart'.closed => dart.closed \/ Told("SESSION_CLOSED")
        /\ dart.closed => dart'.closed
        /\ dart.gone => dart'.gone
    BY <1>3 DEF DartStep, DartHears
  <1>6. \A x : Told(x)' => Told(x)
    BY <1>5, EmptySeq DEF Told
  <1>7. /\ Listening' => Listening /\ log' = log
        /\ Listening' => \A x : Told(x)' <=> Told(x)
    BY <1>2, <1>5 DEF Listening, Told
  <1>8. Over' = Over
    BY <1>2 DEF Over
  <1>9. WorkersOK'
    BY <1>1, <1>2, <1>8 DEF WorkersOK
  <1>10. UnpublishedOK'
    BY <1>1, <1>2, <1>4 DEF UnpublishedOK
  <1>11. ClaimOK'
    <2>1. \A u \in Threads : Closes(u)' <=> Closes(u)
      BY <1>2, <1>4 DEF Closes
    <2>2. \A u \in Threads : call'[u] \in {"post", "create"} => call'[u] = call[u]
      BY <1>4
    <2>3. Shut => Shut'
      BY <1>2, <2>2 DEF Shut
    <2>4. \A u \in Threads : pc'[u] = "postClosed" \/ call'[u] = "post" => Over'
      BY <1>1, <1>2, <1>8, <2>2 DEF ClaimOK
    <2>5. Told("SESSION_CLOSED")' \/ dart'.closed => Shut' /\ Over'
      BY <1>1, <1>5, <1>6, <1>8, <2>3 DEF ClaimOK
    <2>6. CASE ~Listening'
      BY <2>4, <2>5, <2>6 DEF ClaimOK
    <2>7. CASE Listening'
      <3>1. /\ Listening /\ (Told("SESSION_CLOSED")' <=> Told("SESSION_CLOSED"))
        BY <1>7, <2>7
      <3> HIDE DEF Closes, Shut, Told
      <3> QED
        BY <1>1, <1>2, <2>1, <2>2, <2>4, <2>5, <2>7, <3>1 DEF ClaimOK
    <2> QED
      BY <2>6, <2>7
  <1>12. ToldOK'
    <2>1. log' \in Seq(Events)
      BY <1>1, <1>5, EmptySeq DEF ToldOK
    <2>2. CASE ~Listening'
      BY <2>1, <2>2 DEF ToldOK
    <2>3. CASE Listening'
      <3>1. /\ Listening
            /\ Told("SPAWNED")' <=> Told("SPAWNED")
            /\ Told("SPAWN_FAILED")' <=> Told("SPAWN_FAILED")
            /\ Told("ASYNC_ERROR")' <=> Told("ASYNC_ERROR")
            /\ Told("OUTPUT_CLOSED")' <=> Told("OUTPUT_CLOSED")
            /\ Told("INPUT_CLOSED")' <=> Told("INPUT_CLOSED")
            /\ Told("PROCESS_EXIT")' <=> Told("PROCESS_EXIT")
        BY <1>7, <2>3
      <3>2. ASSUME pc["boot"] \in UnansweredLabels, ~Told("ASYNC_ERROR") PROVE Calm'
        <4>1. Calm /\ ~Told("SPAWNED") /\ ~Told("SPAWN_FAILED") /\ ~dart.gone
          BY <1>1, <3>1, <3>2 DEF ToldOK, HandedOK, Listening
        <4>2. ~DartReason
          BY <3>2, <4>1 DEF DartReason, Calm
        <4>3. /\ call' = call /\ dart'.spawn = dart.spawn /\ dart'.fatal = dart.fatal
              /\ dart'.closing = dart.closing
          BY <4>2 DEF DartStep
        <4> QED
          BY <1>2, <4>1, <4>3 DEF Calm
      <3> HIDE DEF Told, Calm
      <3> QED
        BY <1>1, <1>2, <2>1, <3>1, <3>2 DEF ToldOK
    <2> QED
      BY <2>2, <2>3
  <1>13. HandedOK'
    <2>1. /\ GivenUp' = GivenUp
          /\ \A u \in Threads : InCall(u)' <=> \/ InCall(u)
                                               \/ call'[u] = "lifecycle" /\ call[u] = "none"
      BY <1>2, <1>4 DEF GivenUp, InCall
    <2>2. /\ dart' \in DartType /\ portOpen' \in BOOLEAN /\ abandoned' \in BOOLEAN
          /\ portOpen' <=> ~dart'.gone /\ ~dart'.closed
      <3>1. /\ abandoned \in BOOLEAN /\ dart' \in DartType /\ abandoned' = abandoned
            /\ portOpen <=> ~dart.gone /\ ~dart.closed
        BY <1>1, <1>2 DEF DartStep, HandedOK
      <3>2. dart.gone \in BOOLEAN /\ dart.closed \in BOOLEAN
        BY <1>3 DEF DartType
      <3>3. /\ portOpen' \in BOOLEAN
            /\ portOpen' <=> ~dart'.gone /\ ~dart'.closed
        <4>1. CASE portOpen' = portOpen /\ dart'.gone = dart.gone /\ dart'.closed = dart.closed
          BY <1>3, <3>1, <4>1
        <4>2. CASE portOpen' = FALSE /\ dart'.closed
          BY <4>2
        <4>3. CASE portOpen' = FALSE /\ dart'.gone
          BY <4>3
        <4>4. ~portOpen' => portOpen' = FALSE
          BY DEF DartStep, DartHears
        <4> QED
          BY <4>1, <4>2, <4>3, <4>4 DEF DartStep, DartHears
      <3> QED
        BY <3>1, <3>3
    <2>3. /\ handed' = (IF dart'.finalizer = "detached" THEN 1 ELSE 0) + (IF GivenUp' THEN 1 ELSE 0)
          /\ dart'.finalizer = "detached" => dart'.closed
      <3>1. /\ handed = (IF dart.finalizer = "detached" THEN 1 ELSE 0) + (IF GivenUp THEN 1 ELSE 0)
            /\ dart.finalizer = "detached" => dart.closed
        BY <1>1 DEF HandedOK
      <3>2. CASE (dart'.finalizer = "detached" <=> dart.finalizer = "detached") /\ handed' = handed
        BY <1>5, <2>1, <3>1, <3>2
      <3>3. CASE /\ dart'.finalizer = "detached" /\ dart.finalizer # "detached" /\ dart.closed
                 /\ handed' = handed + 1
        BY <1>5, <2>1, <3>1, <3>3
      <3> QED
        BY <3>2, <3>3 DEF DartStep, DartReleases
    <2>4. /\ abandoning' \subseteq Threads
          /\ \A u \in abandoning' : abandoned' /\ InCall(u)'
          /\ \A u, v \in abandoning' : u = v
          /\ \A u \in Threads : u # "owner" /\ InCall(u)' => u \in abandoning'
      BY <1>1, <1>2, <1>4, <2>1 DEF HandedOK
    <2>5. dart'.gone /\ InCall("owner")' => "owner" \in abandoning'
      <3>1. CASE dart.gone
        <4>1. call'["owner"] = call["owner"] \/ call'["owner"] = "abandon"
          BY <1>3, <1>4, <1>5, <3>1
        <4>2. InCall("owner")' => InCall("owner")
          BY <4>1 DEF InCall
        <4> QED
          BY <1>1, <1>2, <3>1, <4>2 DEF HandedOK
      <3>2. CASE ~dart.gone /\ dart'.gone
        <4>1. call["owner"] = "none" /\ call' = call
          BY <3>2 DEF DartStep, DartHears
        <4> QED
          BY <4>1 DEF InCall
      <3> QED
        BY <3>1, <3>2
    <2>6. dart.spawn = "ok" => dart'.spawn = "ok"
      BY DEF DartStep
    <2>7. \A u \in Threads : abandoned' \/ call'[u] = "abandon" =>
            dart'.gone \/ dart'.closed \/ dart'.spawn = "ok"
      BY <1>1, <1>2, <1>4, <1>5, <2>6 DEF HandedOK
    <2>8. /\ GivenUp' /\ ~dart'.gone /\ ~dart'.closed =>
               \/ plat'.closeStarted /\ call'["owner"] # "create"
               \/ lifecycle' = "CLOSED" /\ call'["owner"] \notin {"claim", "create"}
          /\ GivenUp' => \A u \in Threads : call'[u] # "create"
      BY <1>1, <1>2, <1>3, <1>4, <1>5, <2>1 DEF HandedOK
    <2>9. dart'.spawn = "ok" \/ Told("SPAWNED")' =>
            /\ pc'["boot"] \in BootGone /\ plat'.published /\ lifecycle' # "STARTING"
            /\ plat'.closeDone => plat'.closeStarted
      <3>1. dart'.spawn = "ok" \/ Told("SPAWNED")' => dart.spawn = "ok" \/ Told("SPAWNED")
        BY <1>6 DEF DartStep
      <3> QED
        BY <1>1, <1>2, <3>1 DEF HandedOK
    <2>10. pc'["boot"] = "spawned" => lifecycle' # "STARTING"
      BY <1>1, <1>2 DEF HandedOK
    <2>11. /\ \A u \in Threads : u # "owner" /\ call'[u] # "none" => dart'.gone \/ dart'.closed
           /\ \A u \in Threads :
                call'[u] \notin {"none", "abandon", "lifecycle", "claim"} => plat'.closeStarted
      BY <1>1, <1>2, <1>4, <1>5 DEF HandedOK
    <2> QED
      BY <2>2, <2>3, <2>4, <2>5, <2>7, <2>8, <2>9, <2>10, <2>11 DEF HandedOK
  <1> QED
    BY <1>9, <1>10, <1>11, <1>12, <1>13

-----------------------------------------------------------------------------
(* The inductive invariant is kept                                         *)

\* Every step keeps the inductive invariant.
LEMMA NextContract ==
  ASSUME IInv, [Next]_vars, "waiter" \notin Faults
  PROVE  IInv'
  <1>0. /\ RefsInv /\ SafeInv /\ WorkersOK /\ UnpublishedOK /\ ClaimOK /\ ToldOK /\ HandedOK
        /\ portOpen \in BOOLEAN /\ abandoned \in BOOLEAN /\ plat \in [FlagNames -> BOOLEAN]
    BY DEF IInv, HandedOK, SafeInv
  <1>1. RefsInv' /\ SafeInv'
    BY <1>0, NextRefs, NextSafe
  <1>2. WorkersOK' /\ UnpublishedOK' /\ ClaimOK' /\ ToldOK' /\ HandedOK'
    <2>1. CASE UNCHANGED vars
      BY <1>0, <2>1
        
            DEF vars, callVars, sessionVars, processVars, dartVars, WorkersOK, UnpublishedOK, ClaimOK,
             ToldOK, HandedOK, Over, Told, Listening, Closes, Shut, Calm, InCall, GivenUp
    <2>2. CASE BodyStep
      <3>1. PICK t, l, n : Body(t, l, n)
        BY <1>0, <2>2, BodySteps
      <3>2. WorkersOK' /\ UnpublishedOK'
        BY <1>0, <3>1, BodyWorkers, BodyUnpublished
      <3>3. ClaimOK' /\ ToldOK'
        BY <1>0, <3>1, BodyClaim, BodyTold
      <3>4. HandedOK'
        BY <1>0, <3>1, BodyHanded
      <3> QED
        BY <3>2, <3>3, <3>4
    <2>3. ASSUME NEW t \in Threads, BeginClose(t)
          PROVE  WorkersOK' /\ UnpublishedOK' /\ ClaimOK' /\ ToldOK' /\ HandedOK'
      <3>1. PICK l, n : Inner(t, l, n)
        BY <1>0, <2>3, InnerSteps
      <3>2. WorkersOK' /\ UnpublishedOK'
        BY <1>0, <3>1, InnerWorkers, InnerUnpublished
      <3>3. ClaimOK' /\ ToldOK'
        BY <1>0, <3>1, InnerClaim, InnerTold
      <3>4. HandedOK'
        BY <1>0, <3>1, InnerHanded
      <3> QED
        BY <3>2, <3>3, <3>4
    <2>4. CASE ProgramExits \/ SupervisorDies \/ Reap
      BY <2>4, ProcessKeeps
    <2>5. CASE \/ DartReceives \/ UserCloses \/ DriverCloses \/ CloseFinishes
               \/ IsolateExits \/ FinalizerAtExit \/ WrapperCollected
      BY <2>5, DartSteps, DartKeeps
    <2> QED
      BY <2>1, <2>2, <2>3, <2>4, <2>5 DEF Next, BodyStep
  <1> QED
    BY <1>1, <1>2 DEF IInv

\* The initial state.
LEMMA InitIInv == Init => IInv
  BY InitRefs, InitSafe, InitContract DEF IInv

-----------------------------------------------------------------------------
(* Who still needs the session                                             *)

\* The number of released references: at most one by the abandonment, and at
\* most one by a close() that heard SESSION_CLOSED.
LEMMA HandedValues ==
  ASSUME IInv
  PROVE  /\ handed \in {0, 1, 2}
         /\ handed = 1 => dart.closed \/ GivenUp
         /\ handed = 2 => dart.closed /\ GivenUp
         /\ handed > 0 => ~Listening
  <1>1. /\ handed = (IF dart.finalizer = "detached" THEN 1 ELSE 0) + (IF GivenUp THEN 1 ELSE 0)
        /\ dart.finalizer = "detached" => dart.closed
        /\ portOpen <=> ~dart.gone /\ ~dart.closed
    BY DEF IInv, HandedOK
  <1>2. /\ handed \in {0, 1, 2}
        /\ handed = 1 => dart.closed \/ GivenUp
        /\ handed = 2 => dart.closed /\ GivenUp
        /\ handed > 0 => dart.closed \/ GivenUp
    BY <1>1
  <1>3. dart.closed \/ GivenUp => ~Listening
    BY <1>1 DEF GivenUp, Listening
  <1> QED
    BY <1>2, <1>3

\* What the threads hold.
LEMMA HeldValues ==
  ASSUME IInv
  PROVE  /\ \A t \in Threads : Held(t) \in {0, 1, 2}
         /\ \A t \in Workers : Live(t) => Held(t) >= 1
         /\ refCount = 1 - handed + Held("boot") + Held("reactor") + Held("waiter")
                         + Held("closer") + Held("owner")
  <1>1. \A t \in Threads : Held(t) \in {0, 1, 2}
    BY DEF Held
  <1>2. \A t \in Workers : Live(t) => Held(t) >= 1
    BY DEF Held
  <1>3. /\ refCount \in Int /\ handed \in Int
        /\ refCount + handed = 1 + Held("boot") + Held("reactor") + Held("waiter")
                                 + Held("closer") + Held("owner")
    BY DEF IInv, RefsInv, RefsTypeOK, RefsAccounted
  <1>4. {"boot", "reactor", "waiter", "closer", "owner"} \subseteq Threads
    BY DEF Threads, Workers
  <1>5. refCount = 1 - handed + Held("boot") + Held("reactor") + Held("waiter")
                     + Held("closer") + Held("owner")
    <2> DEFINE a == Held("boot")
               b == Held("reactor")
               c == Held("waiter")
               d == Held("closer")
               e == Held("owner")
    <2>1. a \in Int /\ b \in Int /\ c \in Int /\ d \in Int /\ e \in Int
      BY <1>1, <1>4
    <2>2. refCount + handed = 1 + a + b + c + d + e
      BY <1>3
    <2> HIDE DEF a, b, c, d, e
    <2>3. refCount = 1 - handed + a + b + c + d + e
      BY <1>3, <2>1, <2>2
    <2> QED
      BY <2>3 DEF a, b, c, d, e
  <1> QED
    BY <1>1, <1>2, <1>5

\* As long as Dart's reference is there, or not given up twice and a worker is
\* alive, the session is not freed.
LEMMA StillHeld ==
  ASSUME IInv
  PROVE  /\ handed = 0 => refCount >= 1
         /\ \A t \in Workers : Live(t) /\ handed <= 1 => refCount >= 1
         /\ Listening => refCount >= 1
  <1> DEFINE a == Held("boot")
             b == Held("reactor")
             c == Held("waiter")
             d == Held("closer")
             e == Held("owner")
  <1>1. a \in {0, 1, 2} /\ b \in {0, 1, 2} /\ c \in {0, 1, 2} /\ d \in {0, 1, 2} /\ e \in {0, 1, 2}
    BY HeldValues DEF Threads, Workers
  <1>2. refCount = 1 - handed + a + b + c + d + e
    BY HeldValues
  <1>3. /\ Live("boot") => a >= 1
        /\ Live("reactor") => b >= 1
        /\ Live("waiter") => c >= 1
        /\ Live("closer") => d >= 1
    BY HeldValues DEF Workers
  <1> HIDE DEF a, b, c, d, e
  <1>4. handed \in {0, 1, 2} /\ (handed > 0 => ~Listening)
    BY HandedValues
  <1>5. handed = 0 => refCount >= 1
    BY <1>1, <1>2
  <1>6. ASSUME handed <= 1, a >= 1 \/ b >= 1 \/ c >= 1 \/ d >= 1
        PROVE  refCount >= 1
    BY <1>1, <1>2, <1>4, <1>6
  <1>7. ASSUME NEW t \in Workers, Live(t), handed <= 1 PROVE refCount >= 1
    BY <1>3, <1>6, <1>7 DEF Workers
  <1> QED
    BY <1>4, <1>5, <1>7

\* Once the last reference is gone the session is over and nobody needs it: its
\* isolate does not listen, and no thread is to be created.
FreedOK ==
  refCount <= 0 =>
    /\ program # "running" /\ ~Listening
    /\ pc["boot"] \notin BeforeWaiter
    /\ \A t \in Threads : call[t] # "create"

\* The invariant says so.
LEMMA FreedIsOver == IInv => FreedOK
  <1> SUFFICES ASSUME IInv, refCount <= 0
               PROVE  /\ program # "running" /\ ~Listening
                      /\ pc["boot"] \notin BeforeWaiter
                      /\ \A t \in Threads : call[t] # "create"
    BY DEF FreedOK
  <1>1. /\ handed \in {0, 1, 2} /\ ~Listening /\ handed # 0
        /\ handed = 1 => dart.closed \/ GivenUp
        /\ handed = 2 => dart.closed
        /\ \A t \in Workers : Live(t) => handed = 2
    <2>1. refCount \in Int
      BY DEF IInv, RefsInv, RefsTypeOK
    <2>2. ~(refCount >= 1)
      BY <2>1
    <2>3. /\ handed \in {0, 1, 2}
          /\ handed = 1 => dart.closed \/ GivenUp
          /\ handed = 2 => dart.closed
      BY HandedValues
    <2>4. handed <= 1 <=> handed # 2
      BY <2>3
    <2> QED
      BY <2>2, <2>3, <2>4, StillHeld
  <1>2. Over
    <2>1. CASE handed = 2
      BY <1>1, <2>1 DEF IInv, ClaimOK
    <2>2. CASE handed # 2
      <3>1. pc["boot"] = "end" /\ pc["waiter"] \in {"off", "end"}
        BY <1>1, <2>2 DEF Live, Workers, IInv, WorkersOK
      <3>2. pc["waiter"] = "end" \/ Over
        BY <3>1 DEF IInv, WorkersOK, AloneLabels
      <3> QED
        BY <3>2 DEF IInv, SafeInv, WaiterOK, Over
    <2> QED
      BY <2>1, <2>2
  <1>3. program # "running"
    BY <1>2 DEF IInv, SafeInv, ProgramOK, Over
  <1>4. pc["boot"] \notin BeforeWaiter
    BY <1>2 DEF IInv, SafeInv, BootOK, WorkersOK, Over, AloneLabels, BeforeWaiter, BeforeReactor
  <1>5. \A t \in Threads : call[t] # "create"
    BY <1>1 DEF IInv, ClaimOK, HandedOK, Shut
  <1> QED
    BY <1>1, <1>3, <1>4, <1>5

-----------------------------------------------------------------------------
(* How often the isolate was told                                          *)

\* Nothing was told at first.
LEMMA CountOfNothing == \A e : log = <<>> => Count(e) = 0
  <1> SUFFICES ASSUME NEW e, log = <<>> PROVE Count(e) = 0
    OBVIOUS
  <1>1. {i \in 1 .. Len(log) : log[i] = e} = {}
    BY EmptySeq
  <1> QED
    BY <1>1, FS_EmptySet DEF Count

\* Count says how often and Told whether.
LEMMA CountIsTold ==
  ASSUME log \in Seq(Events), NEW e
  PROVE  /\ IsFiniteSet({i \in 1 .. Len(log) : log[i] = e})
         /\ Count(e) \in Nat /\ (Count(e) > 0 <=> Told(e))
  <1> DEFINE places == {i \in 1 .. Len(log) : log[i] = e}
  <1>1. Len(log) \in Nat
    BY LenProperties
  <1>2. IsFiniteSet(1 .. Len(log)) /\ places \in SUBSET (1 .. Len(log))
    BY <1>1, FS_Interval
  <1>3. IsFiniteSet(places)
    BY <1>2, FS_Subset
  <1>4. Cardinality(places) \in Nat /\ (Cardinality(places) = 0 <=> places = {})
    BY <1>3, FS_CardinalityType, FS_EmptySet
  <1>5. Told(e) <=> places # {}
    BY DEF Told
  <1> QED
    BY <1>3, <1>4, <1>5 DEF Count

\* One more event is told once more.
LEMMA CountGrows ==
  ASSUME log \in Seq(Events), NEW e \in Events, log' = Append(log, e)
  PROVE  \A x : Count(x)' = IF x = e THEN Count(x) + 1 ELSE Count(x)
  <1> SUFFICES ASSUME NEW x PROVE Count(x)' = IF x = e THEN Count(x) + 1 ELSE Count(x)
    OBVIOUS
  <1> DEFINE n == Len(log)
             places == {i \in 1 .. Len(log) : log[i] = x}
             after == {i \in 1 .. Len(log') : log'[i] = x}
  <1>1. n \in Nat /\ Len(log') = n + 1 /\ log'[n + 1] = e /\ \A i \in 1 .. n : log'[i] = log[i]
    BY AppendProperties, LenProperties
  <1>2. IsFiniteSet(places)
    BY CountIsTold
  <1>3. n + 1 \notin places
    BY <1>1
  <1>4. after = IF x = e THEN places \cup {n + 1} ELSE places
    <2>1. 1 .. (n + 1) = (1 .. n) \cup {n + 1} /\ n + 1 \notin 1 .. n
      BY <1>1
    <2>2. \A i : i \in after <=> (i \in places) \/ (i = n + 1 /\ x = e)
      BY <1>1, <2>1
    <2> HIDE DEF places, after
    <2> QED
      BY <2>2
  <1>5. Cardinality(places \cup {n + 1}) = Cardinality(places) + 1
    BY <1>2, <1>3, FS_AddElement
  <1>6. Count(x) = Cardinality(places) /\ Count(x)' = Cardinality(after)
    BY DEF Count
  <1> HIDE DEF places, after
  <1> QED
    BY <1>4, <1>5, <1>6

-----------------------------------------------------------------------------
(* The steps of the contract                                               *)

\* An event that may be told now.
MayTell(e) ==
  /\ e = "ASYNC_ERROR" \/ ~Told(e)
  /\ e = "SPAWNED" => program # "none" /\ ~Told("SPAWN_FAILED")
  /\ e = "SPAWN_FAILED" => program # "running" /\ ~Told("SPAWNED")
  /\ e = "PROCESS_EXIT" => program \in {"exited", "reaped"}
  /\ e = "SESSION_CLOSED" => program # "running"
  /\ Told("SESSION_CLOSED") => e \in {"SPAWNED", "SPAWN_FAILED"} /\ Told("ASYNC_ERROR")

\* A post the isolate hears is a Tell of the contract.
LEMMA MapsTell ==
  ASSUME log \in Seq(Events), NEW e \in Events, Listening, MayTell(e), log' = Append(log, e),
         ~(refCount <= 0), ~(refCount' <= 0), UNCHANGED <<portOpen, abandoned, program>>
  PROVE  Contract!Next
  <1>1. \A x : Count(x) > 0 <=> Told(x)
    BY CountIsTold
  <1>2. [x \in Events |-> Count(x)]' = [[x \in Events |-> Count(x)] EXCEPT ![e] = @ + 1]
    <2>1. \A x : Count(x)' = IF x = e THEN Count(x) + 1 ELSE Count(x)
      BY CountGrows
    <2>2. [x \in Events |-> Count(x)]' = [x \in Events |-> Count(x)']
      OBVIOUS
    <2> HIDE DEF Count
    <2> QED
      BY <2>1, <2>2
  <1>3. \A x \in Events : Contract!Heard(x) <=> Told(x)
    BY <1>1 DEF Contract!Heard
  <1>4. Contract!True(e) /\ Contract!InTime(e) /\ (e = "ASYNC_ERROR" \/ ~Contract!Heard(e))
    <2>1. {"SPAWN_FAILED", "SPAWNED", "SESSION_CLOSED", "ASYNC_ERROR"} \subseteq Events
      BY DEF Events
    <2> HIDE DEF Told, Contract!Heard
    <2> QED
      BY <1>3, <2>1 DEF Contract!True, Contract!InTime, Contract!Answers, MayTell
  <1>5. Contract!Tell(e)
    BY <1>2, <1>4 DEF Contract!Tell, Listening
  <1> QED
    BY <1>5 DEF Contract!Next, Contract!Events, Events

\* What does not touch the log leaves what was told.
LEMMA TellsNothing ==
  ASSUME log' = log
  PROVE  [x \in Events |-> Count(x)]' = [x \in Events |-> Count(x)]
  BY DEF Count

\* The isolate stops listening: with what it heard or, when it goes away, without.
LEMMA MapsDisconnect ==
  ASSUME ~Listening', log' = log \/ log' = <<>>, UNCHANGED program,
         refCount <= 0 <=> refCount' <= 0
  PROVE  Contract!Next
  <1>1. CASE log' = log
    BY <1>1, TellsNothing DEF Contract!Next, Contract!Disconnect, Listening
  <1>2. CASE log' = <<>>
    <2>1. \A e : Count(e)' = 0
      <3>1. (\A e : log = <<>> => Count(e) = 0)'
        BY CountOfNothing, PTL
      <3> QED
        BY <1>2, <3>1
    <2>2. [x \in Events |-> Count(x)]' = [x \in Events |-> 0]
      <3>1. [x \in Events |-> Count(x)]' = [x \in Events |-> Count(x)']
        OBVIOUS
      <3> HIDE DEF Count
      <3> QED
        BY <2>1, <3>1
    <2>3. [x \in Events |-> Count(x)]' = Contract!Nothing
      BY <2>2 DEF Contract!Nothing, Contract!Events, Events
    <2> QED
      BY <2>3 DEF Contract!Next, Contract!Disconnect, Listening
  <1> QED
    BY <1>1, <1>2

\* The program starts or ends.
LEMMA MapsProgram ==
  ASSUME log' = log, UNCHANGED <<portOpen, abandoned>>, refCount <= 0 <=> refCount' <= 0,
         \/ program = "none" /\ program' = "running" /\ ~(refCount <= 0)
         \/ program = "running" /\ program' = "exited"
  PROVE  Contract!Next
  BY TellsNothing DEF Contract!Next, Contract!ProgramStarts, Contract!ProgramEnds

\* References come and go.
LEMMA MapsFree ==
  ASSUME FreedOK', log' = log, UNCHANGED <<portOpen, abandoned, program>>,
         refCount <= 0 => refCount' <= 0
  PROVE  [Contract!Next]_Contract!vars
  <1>1. CASE refCount <= 0 <=> refCount' <= 0
    BY <1>1, TellsNothing DEF Contract!vars
  <1>2. CASE ~(refCount <= 0) /\ refCount' <= 0
    <2>1. program # "running" /\ ~Listening
      BY <1>2 DEF FreedOK, Listening
    <2> QED
      BY <1>2, <2>1, TellsNothing DEF Contract!Next, Contract!Free, Listening
  <1> QED
    BY <1>1, <1>2

\* The program is reaped: nobody but its supervisor notices.
LEMMA MapsReap ==
  ASSUME log' = log, UNCHANGED <<portOpen, abandoned, refCount>>,
         program = "exited", program' = "reaped"
  PROVE  [Contract!Next]_Contract!vars
  BY TellsNothing DEF Contract!vars

-----------------------------------------------------------------------------
(* The steps that take or drop a reference                                 *)

\* A step of a body that changes the count is a last release or creates a thread.
LEMMA BodyCounts ==
  ASSUME BodyStep
  PROVE  \/ refCount' = refCount
         \/ \E t \in Workers : Finish(t)
         \/ StartThread("reactor", "reactor", "top", "waiter")
         \/ StartThread("waiter", "waiter", "wait", "run")
  <1>1. ASSUME NEW t, NEW l, NEW x, NEW n
        PROVE  /\ FlagStep(t, l, x, n) => refCount' = refCount
               /\ PostStep(t, l, x, n) => refCount' = refCount
               /\ MarkStep(t, l, x, n) => refCount' = refCount
               /\ StopStep(t, l, n) => refCount' = refCount
               /\ ThreadFails(x, l, n) => refCount' = refCount
    BY DEF FlagStep, PostStep, MarkStep, StopStep, ThreadFails, PostEvent, sessionVars
  <1>2. ASSUME NEW t \in Workers, Ending(t)
        PROVE  refCount' = refCount \/ Finish(t)
    BY <1>1, <1>2 DEF Ending, ClaimClosed
  <1>3. {"boot", "reactor", "waiter", "closer"} \subseteq Workers
    BY DEF Workers
  <1>4. CASE Boot
    <2>1. CASE Ending("boot")
      BY <1>2, <1>3, <2>1
    <2>2. CASE BootSpawns
      BY <2>2 DEF BootSpawns, sessionVars
    <2>3. CASE BootSetupFails
      BY <1>1, <2>3 DEF BootSetupFails, sessionVars
    <2>4. CASE BootSpawnFails \/ BootPublishes \/ BootChecksClosing \/ BootFinishesUnstarted
      BY <1>1, <2>4 DEF BootSpawnFails, BootPublishes, BootChecksClosing, BootFinishesUnstarted
    <2>5. CASE BootReactorFails
      BY <1>1, <2>5 DEF BootReactorFails
    <2>6. CASE BootWaiterFails \/ BootRuns \/ BootCancelled
      BY <1>1, <2>6 DEF BootWaiterFails, BootRuns, BootCancelled
    <2>7. CASE PostStep("boot", "spawned", "SPAWNED", "release")
      BY <1>1, <2>7
    <2> QED
      BY <1>4, <2>1, <2>2, <2>3, <2>4, <2>5, <2>6, <2>7 DEF Boot
  <1>5. CASE Reactor \/ ReactorSeesTerminal \/ ReactorLeaves
    BY <1>1, <1>2, <1>3, <1>5
       DEF Reactor, ReactorLoops, ReactorEnds, ReactorSeesTerminal, ReactorLeaves, PostEvent
  <1>6. CASE Waiter
    BY <1>1, <1>2, <1>3, <1>6 DEF Waiter, WaiterReads, WaiterRecords, WaiterEnds, sessionVars
  <1>7. CASE Closer
    BY <1>1, <1>2, <1>3, <1>7 DEF Closer
  <1>8. CASE UserKills \/ UserKillWakes
    BY <1>1, <1>8 DEF UserKills, UserKillWakes
  <1> QED
    BY <1>4, <1>5, <1>6, <1>7, <1>8 DEF BodyStep


\* Of begin_close, its return to pty_session_abandon and the close worker's
\* creation; a return that drops Dart's reference tells nothing.
LEMMA CloseCounts ==
  ASSUME FreedOK, HandedOK, refCount \in Int, NEW t \in Threads, BeginClose(t)
  PROVE  \/ refCount' = refCount
         \/ /\ log' = log /\ UNCHANGED <<portOpen, abandoned, program>>
            /\ refCount <= 0 => refCount' <= 0
  <1>1. CASE MarkAbandoned(t) \/ CloseCreateFails(t) \/ CloseStop(t) \/ CloseWake(t) \/ CloseMark(t)
    BY <1>1 DEF MarkAbandoned, CloseCreateFails, CloseStop, CloseWake, CloseMark, sessionVars
  <1>2. Return(t) => /\ refCount' = refCount \/ refCount' = refCount - 1
                     /\ refCount' # refCount => t \in abandoning
    BY DEF Return
  <1>3. CASE CloseLifecycle(t) \/ CloseClaim(t) \/ CloseMaybe(t)
    <2>1. refCount' = refCount \/ refCount' = refCount - 1
      BY <1>2, <1>3 DEF CloseLifecycle, CloseClaim, CloseMaybe
    <2>2. log' = log /\ UNCHANGED <<portOpen, abandoned, program>>
      BY <1>3 DEF CloseLifecycle, CloseClaim, CloseMaybe, closeFrame, processVars, dartVars
    <2> QED
      BY <2>1, <2>2
  <1>4. CASE CloseCreate(t)
    <2>1. ~(refCount <= 0)
      BY <1>4 DEF CloseCreate, In, FreedOK
    <2> QED
      BY <1>4, <2>1 DEF CloseCreate, closeFrame, processVars, dartVars
  <1>5. CASE CloseUnretain(t)
    <2>1. refCount' = refCount - 2 \/ refCount' = refCount - 1
      BY <1>5 DEF CloseUnretain
    <2>2. log' = log /\ UNCHANGED <<portOpen, abandoned, program>>
      BY <1>5 DEF CloseUnretain, closeFrame, processVars, dartVars
    <2> QED
      BY <2>1, <2>2
  <1>6. CASE ClosePost(t) /\ refCount' # refCount
    <2>1. Return(t) /\ log' = (IF abandoned THEN log ELSE Append(log, "SESSION_CLOSED"))
      BY <1>6 DEF ClosePost
    <2>2. abandoned
      BY <1>2, <1>6, <2>1 DEF HandedOK
    <2>3. UNCHANGED <<portOpen, abandoned, program>>
      BY <1>6, <2>1, <2>2 DEF ClosePost, processVars
    <2> QED
      BY <1>2, <2>1, <2>2, <2>3
  <1> QED
    BY <1>1, <1>3, <1>4, <1>5, <1>6 DEF BeginClose

-----------------------------------------------------------------------------
(* What is told is true and in time                                        *)

\* After SESSION_CLOSED there are no workers left but a late bootstrap.
LEMMA ClosedIsLast ==
  ASSUME IInv, Listening, Told("SESSION_CLOSED")
  PROVE  /\ pc["reactor"] \in EndLabels \cup {"off"} /\ pc["waiter"] \in EndLabels \cup {"off"}
         /\ pc["boot"] \notin {"noReactorAnswer", "noReactorOutput"} \cup FailedLabels
         /\ plat.closedPosted \/ (~plat.published /\ pc["boot"] \in BootGone)
         /\ pc["boot"] \in UnansweredLabels => Told("ASYNC_ERROR")
         /\ \A t \in Threads : ~Closes(t)
  <1>1. /\ plat.closedPosted \/ (~plat.published /\ pc["boot"] \in BootGone)
        /\ plat.closedPosted => plat.reactorDone /\ plat.waiterDone /\ plat.closeDone
        /\ \A t \in Threads : ~Closes(t)
    BY DEF IInv, ClaimOK
  <1>2. "boot" \in Threads
    BY DEF Threads, Workers
  <1>3. pc["boot"] \notin {"noReactorAnswer", "noReactorOutput"}
    BY <1>1, <1>2 DEF Closes
  <1>4. CASE plat.closedPosted
    <2>1. /\ pc["reactor"] \in EndLabels \cup {"off"} /\ pc["waiter"] \in EndLabels \cup {"off"}
          /\ pc["boot"] \notin FlaglessLabels
      BY <1>1, <1>4 DEF IInv, WorkersOK
    <2>2. pc["boot"] \notin FailedLabels
      BY <2>1 DEF FlaglessLabels
    <2>3. pc["boot"] \in UnansweredLabels => Told("ASYNC_ERROR")
      <3>1. ASSUME pc["boot"] \in UnansweredLabels, ~Told("ASYNC_ERROR") PROVE FALSE
        <4>1. Calm
          BY <3>1 DEF IInv, ToldOK
        <4> QED
          BY <1>1, <1>3, <1>4, <4>1 DEF Calm
      <3> QED
        BY <3>1
    <2> QED
      BY <1>1, <1>3, <2>1, <2>2, <2>3
  <1>5. CASE ~plat.published /\ pc["boot"] \in BootGone
    <2>1. pc["reactor"] = "off" /\ pc["waiter"] = "off"
      BY <1>5 DEF IInv, UnpublishedOK
    <2>2. pc["boot"] \notin UnansweredLabels \cup FailedLabels
      BY <1>5
        
            DEF BootGone, UnansweredLabels, BeforeWaiter, BeforeReactor, CancelLabels, UnstartedLabels,
             NoReactorLabels, FailedLabels
    <2> QED
      BY <1>1, <1>3, <2>1, <2>2
  <1> QED
    BY <1>1, <1>4, <1>5

\* A program that is over does not run.
LEMMA OverIsNotRunning == ASSUME IInv, Over PROVE program # "running"
  BY DEF IInv, SafeInv, ProgramOK, Over

\* Every event of a worker keeps the contract.
LEMMA BodyMayTell ==
  ASSUME IInv, Listening, NEW t, NEW l, NEW n, Body(t, l, n), NEW e, Says(t, l, n, e)
  PROVE  MayTell(e) /\ e \in Events
  <1>1. t \in Threads /\ pc[t] = l
    BY BodyThreads
  <1>2. pc["boot"] \in UnansweredLabels => ~Told("SPAWNED") /\ ~Told("SPAWN_FAILED")
    BY DEF IInv, ToldOK
  <1>3. CASE e = "SESSION_CLOSED"
    <2>1. t \in Workers /\ l = "postClosed"
      BY <1>3, SaysWhere
    <2>2. Closes(t) /\ Over
      BY <1>1, <2>1 DEF Closes, IInv, ClaimOK
    <2>3. ~Told("SESSION_CLOSED")
      BY <1>1, <2>2, ClosedIsLast
    <2>4. program # "running"
      BY <2>2, OverIsNotRunning
    <2> QED
      BY <1>3, <2>3, <2>4 DEF MayTell, Events
  <1>4. CASE e = "SPAWNED"
    <2>1. pc["boot"] = "spawned"
      BY <1>1, <1>4, SaysWhere
    <2>2. pc["boot"] \in UnansweredLabels
      BY <2>1 DEF UnansweredLabels
    <2>3. program # "none"
      BY <2>1 DEF IInv, WorkersOK
    <2> QED
      BY <1>2, <1>4, <2>2, <2>3, ClosedIsLast DEF MayTell, Events
  <1>5. CASE e = "SPAWN_FAILED"
    <2>1. pc["boot"] \in {"failed", "setupFailed", "unstartedAnswer", "noReactorAnswer",
                          "lateAnswer", "cancelAnswer"}
      BY <1>1, <1>5, SaysWhere
    <2>2. pc["boot"] \in UnansweredLabels
      BY <2>1 DEF UnansweredLabels, CancelLabels, UnstartedLabels, NoReactorLabels
    <2>3. pc["boot"] # "lateAnswer"
      BY DEF IInv, ClaimOK, LateLabels
    <2>4. program # "running"
      <3>1. CASE pc["boot"] = "cancelAnswer"
        BY <3>1 DEF IInv, WorkersOK
      <3>2. CASE pc["boot"] # "cancelAnswer"
        <4>1. pc["boot"] \in OverLabels
          BY <2>1, <2>3, <3>2 DEF OverLabels
        <4> QED
          BY <4>1, OverIsNotRunning DEF IInv, SafeInv, BootOK
      <3> QED
        BY <3>1, <3>2
    <2> QED
      BY <1>2, <1>5, <2>2, <2>4, ClosedIsLast DEF MayTell, Events
  <1>6. CASE e = "ASYNC_ERROR"
    <2>1. pc["reactor"] = "work" \/ pc["waiter"] = "post"
      BY <1>1, <1>6, SaysWhere
    <2>2. ~Told("SESSION_CLOSED")
      BY <2>1, ClosedIsLast DEF EndLabels
    <2> QED
      BY <1>6, <2>2 DEF MayTell, Events
  <1>7. CASE e = "OUTPUT_CLOSED"
    <2>1. \/ pc["reactor"] = "output"
          \/ pc["boot"] \in {"failedOutput", "unstartedOutput", "noReactorOutput", "lateOutput"}
      BY <1>1, <1>7, SaysWhere
    <2>2. pc["boot"] \notin {"unstartedOutput", "lateOutput"}
      BY DEF IInv, ClaimOK, UnstartedLabels, LateLabels
    <2>3. ~Told("SESSION_CLOSED")
      BY <2>1, <2>2, ClosedIsLast DEF EndLabels, FailedLabels
    <2>4. ~Told("OUTPUT_CLOSED")
      BY <2>1, <2>2 DEF IInv, ToldOK, NoReactorLabels
    <2> QED
      BY <1>7, <2>3, <2>4 DEF MayTell, Events
  <1>8. CASE e = "INPUT_CLOSED"
    <2>1. pc["reactor"] = "input"
      BY <1>1, <1>8, SaysWhere
    <2>2. ~Told("SESSION_CLOSED")
      BY <2>1, ClosedIsLast DEF EndLabels
    <2>3. ~Told("INPUT_CLOSED")
      BY <2>1 DEF IInv, ToldOK
    <2> QED
      BY <1>8, <2>2, <2>3 DEF MayTell, Events
  <1>9. CASE e = "PROCESS_EXIT"
    <2>1. pc["waiter"] = "post" /\ report = "exit"
      BY <1>1, <1>9, SaysWhere
    <2>2. ~Told("SESSION_CLOSED")
      BY <2>1, ClosedIsLast DEF EndLabels
    <2>3. ~Told("PROCESS_EXIT") /\ program \in {"exited", "reaped"}
      BY <2>1 DEF IInv, ToldOK, WorkersOK
    <2> QED
      BY <1>9, <2>2, <2>3 DEF MayTell, Events
  <1>10. e \in {"SESSION_CLOSED", "SPAWNED", "SPAWN_FAILED", "ASYNC_ERROR", "OUTPUT_CLOSED",
                "INPUT_CLOSED", "PROCESS_EXIT"}
    BY DEF Says, Posts
  <1> QED
    BY <1>3, <1>4, <1>5, <1>6, <1>7, <1>8, <1>9, <1>10

-----------------------------------------------------------------------------
(* Every step maps to a step of the contract or a stutter                  *)

\* The steps of the bodies, ...
LEMMA BodyMaps ==
  ASSUME IInv, FreedOK, FreedOK', BodyStep
  PROVE  [Contract!Next]_Contract!vars
  <1>0. /\ RefsInv /\ plat \in [FlagNames -> BOOLEAN] /\ log \in Seq(Events) /\ ProgramOK
        /\ portOpen \in BOOLEAN /\ abandoned \in BOOLEAN /\ refCount \in Int
    BY DEF IInv, SafeInv, ToldOK, HandedOK, RefsInv, RefsTypeOK
  <1>1. CASE refCount' = refCount
    <2>1. PICK t, l, n : Body(t, l, n)
      BY <1>0, BodySteps
    <2>2. /\ UNCHANGED <<portOpen, abandoned>>
          /\ log' = log \/ (Listening /\ \E e : Says(t, l, n, e) /\ log' = Append(log, e))
      BY <1>0, <2>1, BodySays
    <2>3. CASE Listening /\ \E e : Says(t, l, n, e) /\ log' = Append(log, e)
      <3>1. PICK e : Says(t, l, n, e) /\ log' = Append(log, e)
        BY <2>3
      <3>2. MayTell(e) /\ e \in Events
        BY <2>1, <2>3, <3>1, BodyMayTell
      <3>3. program' = program
        <4>1. ~Kills(t, l) /\ ~(t = "boot" /\ l \in {"spawn", "setup"})
          BY <3>1 DEF Says, Posts, Kills
        <4> QED
          BY <2>1, <4>1 DEF Body, Processes
      <3>4. ~(refCount <= 0)
        BY <2>3 DEF FreedOK
      <3> QED
        BY <1>0, <1>1, <2>2, <2>3, <3>1, <3>2, <3>3, <3>4, MapsTell
    <2>4. CASE log' = log
      <3>1. CASE program' = program
        BY <1>1, <2>2, <2>4, <3>1, MapsFree
      <3>2. CASE program' # program
        <4>1. CASE t = "boot" /\ l = "spawn"
          <5>1. pc["boot"] = "spawn"
            BY <2>1, <4>1, BodyThreads
          <5>2. program = "none" /\ ~(refCount <= 0)
            BY <1>0, <5>1 DEF ProgramOK, FreedOK, BeforeWaiter, BeforeReactor
          <5>3. program' = "running"
            BY <2>1, <3>2, <4>1 DEF Body, Processes, Kills
          <5> QED
            BY <1>1, <2>2, <2>4, <5>2, <5>3, MapsProgram
        <4>2. CASE ~(t = "boot" /\ l = "spawn")
          <5>1. program = "running" /\ program' = "exited"
            BY <2>1, <3>2, <4>2 DEF Body, Processes, StopProcess
          <5> QED
            BY <1>1, <2>2, <2>4, <5>1, MapsProgram
        <4> QED
          BY <4>1, <4>2
      <3> QED
        BY <3>1, <3>2
    <2> QED
      BY <2>2, <2>3, <2>4
  <1>2. ASSUME NEW t \in Workers, Finish(t) PROVE [Contract!Next]_Contract!vars
    <2>1. log' = log /\ UNCHANGED <<portOpen, abandoned, program>> /\ refCount' = refCount - 1
      BY <1>2 DEF Finish, dartVars, processVars
    <2> QED
      BY <1>0, <2>1, MapsFree
  <1>3. CASE \/ StartThread("reactor", "reactor", "top", "waiter")
             \/ StartThread("waiter", "waiter", "wait", "run")
    <2>1. /\ log' = log /\ UNCHANGED <<portOpen, abandoned, program>>
          /\ pc["boot"] \in {"reactor", "waiter"}
      BY <1>3 DEF StartThread, At, dartVars, processVars
    <2>2. ~(refCount <= 0)
      BY <2>1 DEF FreedOK, BeforeWaiter, BeforeReactor
    <2> QED
      BY <2>1, <2>2, MapsFree
  <1> QED
    BY <1>1, <1>2, <1>3, BodyCounts

\* ... of begin_close, which may post SESSION_CLOSED itself, ...
LEMMA CloseMaps ==
  ASSUME IInv, FreedOK, FreedOK', NEW t \in Threads, BeginClose(t)
  PROVE  [Contract!Next]_Contract!vars
  <1>0. /\ RefsInv /\ plat \in [FlagNames -> BOOLEAN] /\ log \in Seq(Events)
        /\ HandedOK /\ refCount \in Int
    BY DEF IInv, SafeInv, ToldOK, RefsInv, RefsTypeOK
  <1>1. CASE /\ log' = log /\ UNCHANGED <<portOpen, abandoned, program>>
             /\ refCount <= 0 => refCount' <= 0
    BY <1>1, MapsFree
  <1>2. CASE refCount' = refCount
    <2>1. PICK l, n : Inner(t, l, n)
      BY <1>0, InnerSteps
    <2>2. /\ call[t] = l /\ InnerEdge(l, n) /\ InnerSays(l, n) /\ portOpen' = portOpen
          /\ abandoned' = (IF l = "abandon" THEN TRUE ELSE abandoned)
          /\ program' = program \/ (l = "stop" /\ program = "running" /\ program' = "exited")
      BY <2>1 DEF Inner
    <2>3. CASE l = "abandon"
      <3>1. log' = log /\ program' = program /\ ~Listening'
        BY <2>2, <2>3 DEF InnerSays, Listening
      <3> QED
        BY <1>2, <3>1, MapsDisconnect
    <2>4. CASE l # "abandon" /\ log' = log
      <3>1. CASE program' = program
        BY <1>2, <2>2, <2>4, <3>1, MapsFree
      <3>2. CASE program' # program
        BY <1>2, <2>2, <2>4, <3>2, MapsProgram
      <3> QED
        BY <3>1, <3>2
    <2>5. CASE l # "abandon" /\ log' # log
      <3>1. /\ l = "post" /\ Listening /\ log' = Append(log, "SESSION_CLOSED")
            /\ program' = program
        BY <2>2, <2>5 DEF InnerSays
      <3>2. Over /\ Closes(t)
        BY <2>2, <3>1 DEF IInv, ClaimOK, Closes
      <3>3. ~Told("SESSION_CLOSED") /\ program # "running"
        BY <3>1, <3>2, ClosedIsLast, OverIsNotRunning
      <3>4. MayTell("SESSION_CLOSED") /\ "SESSION_CLOSED" \in Events
        BY <3>3 DEF MayTell, Events
      <3>5. ~(refCount <= 0)
        BY <3>1 DEF FreedOK
      <3> QED
        BY <1>0, <1>2, <2>2, <2>5, <3>1, <3>4, <3>5, MapsTell
    <2> QED
      BY <2>3, <2>4, <2>5
  <1> QED
    BY <1>0, <1>1, <1>2, CloseCounts

\* ... and of the program, its supervisor and the isolate.
LEMMA OutsideMaps ==
  ASSUME IInv, FreedOK, FreedOK', OutsideStep
  PROVE  [Contract!Next]_Contract!vars
  <1>0. refCount \in Int
    BY DEF IInv, RefsInv, RefsTypeOK
  <1>1. CASE ProgramExits
    BY <1>1, MapsProgram DEF ProgramExits, processFrame, sessionVars, dartVars
  <1>2. CASE SupervisorDies
    BY <1>2, MapsFree DEF SupervisorDies, processFrame, sessionVars, dartVars
  <1>3. CASE Reap
    BY <1>3, MapsReap DEF Reap, processFrame, sessionVars, dartVars
  <1>4. CASE DartReceives
    <2>1. /\ UNCHANGED <<log, abandoned, refCount, program>> /\ portOpen
          /\ portOpen' = (log[dart.seen + 1] # "SESSION_CLOSED")
      BY <1>4 DEF DartReceives, sessionVars, processVars
    <2>2. CASE log[dart.seen + 1] = "SESSION_CLOSED"
      <3>1. ~Listening'
        BY <2>1, <2>2 DEF Listening
      <3> QED
        BY <2>1, <3>1, MapsDisconnect
    <2>3. CASE log[dart.seen + 1] # "SESSION_CLOSED"
      <3>1. portOpen' = TRUE /\ portOpen = TRUE
        BY <2>1, <2>3 DEF IInv, HandedOK
      <3> QED
        BY <2>1, <3>1, MapsFree
    <2> QED
      BY <2>2, <2>3
  <1>5. CASE UserCloses \/ DriverCloses \/ FinalizerAtExit \/ WrapperCollected
    <2>1. UNCHANGED <<log, portOpen, abandoned, refCount, program>>
      BY <1>5
         DEF UserCloses, DriverCloses, Close, FinalizerAtExit, WrapperCollected, RunFinalizer,
                  Abandon, sessionVars, processVars
    <2> QED
      BY <2>1, MapsFree
  <1>6. CASE CloseFinishes
    <2>1. UNCHANGED <<log, portOpen, abandoned, program>> /\ refCount' = refCount - 1
      BY <1>6 DEF CloseFinishes, processVars
    <2> QED
      BY <1>0, <2>1, MapsFree
  <1>7. CASE IsolateExits
    <2>1. log' = <<>> /\ ~Listening' /\ UNCHANGED <<refCount, program>>
      BY <1>7 DEF IsolateExits, Listening, sessionVars, processVars
    <2> QED
      BY <2>1, MapsDisconnect
  <1> QED
    BY <1>1, <1>2, <1>3, <1>4, <1>5, <1>6, <1>7 DEF OutsideStep

\* Every step is one of these.
LEMMA NextMaps ==
  ASSUME IInv, FreedOK, FreedOK', [Next]_vars
  PROVE  [Contract!Next]_Contract!vars
  <1>1. CASE UNCHANGED vars
    BY <1>1, MapsFree DEF vars, sessionVars, processVars, dartVars
  <1>2. CASE Next
    BY <1>2, BodyMaps, CloseMaps, OutsideMaps DEF Next, BodyStep, OutsideStep
  <1> QED
    BY <1>1, <1>2

\* The initial state is one of the contract's.
LEMMA InitMaps == Init => Contract!Init
  <1> SUFFICES ASSUME Init PROVE Contract!Init
    OBVIOUS
  <1>1. log = <<>> /\ portOpen = TRUE /\ abandoned = FALSE /\ refCount = 2 /\ program = "none"
    BY DEF Init
  <1>2. \A e : Count(e) = 0
    BY <1>1, CountOfNothing
  <1>3. [e \in Events |-> Count(e)] = Contract!Nothing
    BY <1>2 DEF Contract!Nothing, Contract!Events, Events
  <1> QED
    BY <1>1, <1>3 DEF Contract!Init

\* The session keeps its contract: every event that the bootstrap, the reactor,
\* the waiter and whoever completes the close post tells the isolate the truth,
\* once and in time -- nothing after SESSION_CLOSED but an answer that an error
\* had made useless -- and the last pty_session_release comes when the program
\* is over and the isolate heard so or stopped listening.  It holds as long as
\* the waiter thread can be created, whatever else fails.
THEOREM SessionKeepsContract ==
  ASSUME "waiter" \notin Faults
  PROVE  Spec => ImplementsContract
  <1>1. IInv /\ [Next]_vars => IInv'
    BY NextContract
  <1>2. IInv => FreedOK
    BY FreedIsOver
  <1>3. IInv /\ FreedOK /\ FreedOK' /\ [Next]_vars => [Contract!Next]_Contract!vars
    BY NextMaps
  <1> QED
    BY <1>1, <1>2, <1>3, InitIInv, InitMaps, PTL DEF Spec, ImplementsContract, Contract!Spec

-----------------------------------------------------------------------------
(* Who holds the session.  The threads that run it do, until they are      *)
(* through with it, as long as no error reaches the isolate during         *)
(* startup: then nobody posts after SESSION_CLOSED, so no failed post      *)
(* abandons a session whose isolate is about to release it.                *)

\* No error is posted: the terminal never fails, and the supervisor does not die
\* before the waiter has read its report.
UndisturbedOK ==
  /\ ~Told("ASYNC_ERROR") /\ pc["waiter"] # "stop"
  /\ pc["waiter"] \in {"record", "unregister", "wake", "post"} => report = "exit"

\* The bootstrap may still post.
TalkingLabels ==
  UnansweredLabels \cup FailedLabels \cup UnstartedLabels \cup LateLabels \cup NoReactorLabels
    \cup NoWaiterLabels

\* Nobody posts any more.
Quiet ==
  /\ pc["reactor"] \in EndLabels \cup {"off"} /\ pc["waiter"] \in EndLabels \cup {"off"}
  /\ pc["boot"] \notin TalkingLabels
  /\ \A t \in Threads : ~Closes(t)
  /\ plat.closedPosted \/ (~plat.published /\ pc["boot"] \in BootGone)
QuietOK == Told("SESSION_CLOSED") \/ dart.closed => Quiet

\* Only a finalizer abandons a session whose isolate is there, or was told that
\* the session is closed.
KeptOK ==
  dart.finalizer # "ran" /\ (dart.gone => dart.closed) =>
    ~abandoned /\ \A t \in Threads : call[t] # "abandon"

\* A worker inside pty_session_abandon still has its own reference.
BusyOK == \A t \in Workers : call[t] # "none" => Live(t)

HInv == IInv /\ UndisturbedOK /\ QuietOK /\ KeptOK /\ BusyOK

\* When the isolate listens and was told that the session is closed, nobody is left to
\* post.
LEMMA QuietWhenClosed ==
  IInv /\ Listening /\ Told("SESSION_CLOSED") /\ ~Told("ASYNC_ERROR") /\ "waiter" \notin Faults
    => Quiet
  <1> SUFFICES ASSUME IInv, Listening, Told("SESSION_CLOSED"), ~Told("ASYNC_ERROR"),
                      "waiter" \notin Faults
               PROVE  Quiet
    OBVIOUS
  <1>1. /\ pc["reactor"] \in EndLabels \cup {"off"} /\ pc["waiter"] \in EndLabels \cup {"off"}
        /\ pc["boot"] \notin {"noReactorAnswer", "noReactorOutput"} \cup FailedLabels
        /\ pc["boot"] \notin UnansweredLabels
        /\ \A t \in Threads : ~Closes(t)
        /\ plat.closedPosted \/ (~plat.published /\ pc["boot"] \in BootGone)
    BY ClosedIsLast
  <1>2. pc["boot"] \notin UnstartedLabels \cup LateLabels \cup NoWaiterLabels
    BY DEF IInv, ClaimOK, SafeInv, ClosedOK
  <1>3. pc["boot"] \notin NoReactorLabels
    BY <1>1 DEF UnansweredLabels
  <1> QED
    BY <1>1, <1>2, <1>3 DEF Quiet, TalkingLabels

\* Who is quiet posts nothing.
LEMMA QuietSaysNothing ==
  ASSUME Quiet, NEW t, NEW l, NEW n, Body(t, l, n)
  PROVE  /\ t \in {"boot", "reactor", "waiter"} => l \in EndLabels /\ EndEdge(l, n)
         /\ Posts(t, l, n) = "none" /\ ~(t = "reactor" /\ l = "work")
         /\ call' = call /\ log' = log
  <1>1. /\ t \in Threads /\ pc[t] = l /\ Edge(t, l, n) /\ Speaks(t, l, n)
    BY BodyThreads DEF Body
  <1>2. t = "boot" => l \in EndLabels /\ EndEdge(l, n)
    <2> SUFFICES ASSUME t = "boot" PROVE l \in EndLabels /\ EndEdge(l, n)
      OBVIOUS
    <2>1. BootEdge(l, n) /\ l \notin TalkingLabels
      BY <1>1 DEF Edge, Quiet
    <2>2. EndEdge(l, n)
      BY <2>1
        
            DEF BootEdge, TalkingLabels, UnansweredLabels, FailedLabels, UnstartedLabels, LateLabels,
             NoReactorLabels, NoWaiterLabels, CancelLabels, BeforeWaiter, BeforeReactor
    <2> QED
      BY <2>2 DEF EndEdge, EndLabels
  <1>3. t \in {"reactor", "waiter"} => l \in EndLabels /\ EndEdge(l, n)
    BY <1>1 DEF Edge, Quiet, ReactorEdge, WaiterEdge, EndEdge, EndLabels
  <1>4. l # "postClosed"
    BY <1>1 DEF Quiet, Closes
  <1>5. Posts(t, l, n) = "none" /\ ~(t = "reactor" /\ l = "work")
    BY <1>2, <1>3, <1>4 DEF Posts, EndLabels
  <1> QED
    BY <1>1, <1>2, <1>3, <1>5 DEF Speaks, callVars

\* The steps of the bodies keep that, ...
LEMMA BodyHolds ==
  ASSUME HInv, IInv', {"waiter", "io", "supervisor"} \cap Faults = {},
         NEW t, NEW l, NEW n, Body(t, l, n)
  PROVE  UndisturbedOK' /\ QuietOK' /\ KeptOK' /\ BusyOK'
  <1>0. /\ IInv /\ UndisturbedOK /\ QuietOK /\ KeptOK /\ BusyOK /\ RefsInv /\ SafeInv
        /\ log \in Seq(Events) /\ portOpen \in BOOLEAN /\ abandoned \in BOOLEAN
        /\ DOMAIN call = Threads /\ {"boot", "reactor", "waiter", "closer", "owner"} = Threads
        /\ portOpen <=> ~dart.gone /\ ~dart.closed
    BY DEF HInv, IInv, ToldOK, HandedOK, RefsInv, RefsTypeOK, Threads, Workers
  <1>1. /\ t \in Threads /\ pc[t] = l /\ pc'[t] = n /\ call[t] = "none" /\ Edge(t, l, n)
        /\ Speaks(t, l, n)
        /\ t # "boot" => \A u \in Threads \ {t} : pc'[u] = pc[u]
        /\ t = "boot" =>
              /\ pc'["reactor"] = IF l = "reactor" /\ n = "waiter" THEN "top" ELSE pc["reactor"]
              /\ pc'["waiter"] = IF l = "waiter" /\ n = "run" THEN "wait" ELSE pc["waiter"]
              /\ pc'["closer"] = pc["closer"] /\ pc'["owner"] = pc["owner"]
    BY BodyThreads DEF Body
  <1>2. /\ UNCHANGED <<portOpen, dart, abandoned, abandoning, handed>>
        /\ call' = call \/ (~Listening /\ ~portOpen /\ call' = [call EXCEPT ![t] = "abandon"])
    BY <1>0, BodySays
  <1>3. \A x : Told(x)' => Told(x) \/ (Listening /\ Says(t, l, n, x))
    BY <1>0, BodyTells
  <1>4. UndisturbedOK'
    <2>1. ~Told("ASYNC_ERROR")'
      <3>1. CASE t = "reactor" /\ l = "work"
        <4>1. log' = log
          BY <1>1, <3>1 DEF Speaks, PostEvent, Abandon
        <4> QED
          BY <1>0, <4>1 DEF UndisturbedOK, Told
      <3>2. CASE ~(t = "reactor" /\ l = "work")
        <4>1. t = "waiter" /\ l = "post" => report = "exit"
          BY <1>0, <1>1 DEF UndisturbedOK
        <4>2. ~Says(t, l, n, "ASYNC_ERROR")
          BY <3>2, <4>1, SaysWhere
        <4> QED
          BY <1>0, <1>3, <4>2 DEF UndisturbedOK
      <3> QED
        BY <3>1, <3>2
    <2>2. report' = report \/ (t = "waiter" /\ l = "wait")
      BY <1>0, BodyProgram
    <2>3. CASE t = "waiter"
      <3>1. pc["waiter"] = "wait" => supervisor # "dead"
        BY <1>0 DEF SafeInv, ReapedOK, WaiterOK
      <3>2. WaiterEdge(l, n)
        BY <1>1, <2>3 DEF Edge
      <3>3. CASE l = "wait"
        BY <1>1, <2>1, <2>3, <3>1, <3>2, <3>3 DEF WaiterEdge, EndEdge, UndisturbedOK
      <3>4. CASE l # "wait"
        BY <1>0, <1>1, <2>1, <2>2, <2>3, <3>2, <3>4 DEF WaiterEdge, EndEdge, UndisturbedOK
      <3> QED
        BY <3>3, <3>4
    <2>4. CASE t # "waiter"
      <3>1. pc'["waiter"] = pc["waiter"] \/ pc'["waiter"] = "wait"
        BY <1>0, <1>1, <2>4
      <3> QED
        BY <1>0, <2>1, <2>2, <2>4, <3>1 DEF UndisturbedOK
    <2> QED
      BY <2>3, <2>4
  <1>5. QuietOK'
    <2>1. CASE Told("SESSION_CLOSED") \/ dart.closed
      <3>1. Quiet
        BY <1>0, <2>1 DEF QuietOK
      <3>2. /\ t \in {"boot", "reactor", "waiter"} => l \in EndLabels /\ EndEdge(l, n)
            /\ call' = call
        BY <3>1, QuietSaysNothing
      <3>3. pc'["reactor"] \in EndLabels \cup {"off"} /\ pc'["waiter"] \in EndLabels \cup {"off"}
        BY <1>0, <1>1, <3>1, <3>2 DEF Quiet, EndLabels, EndEdge
      <3>4. pc'["boot"] \notin TalkingLabels
        <4>1. CASE t = "boot"
          BY <1>1, <3>2, <4>1
             DEF EndEdge, TalkingLabels, UnansweredLabels, FailedLabels, UnstartedLabels,
                 LateLabels, NoReactorLabels, NoWaiterLabels, CancelLabels, BeforeWaiter,
                 BeforeReactor
        <4>2. CASE t # "boot"
          BY <1>0, <1>1, <3>1, <4>2 DEF Quiet
        <4> QED
          BY <4>1, <4>2
      <3>5. plat'.closedPosted \/ (~plat'.published /\ pc'["boot"] \in BootGone)
        <4>1. /\ plat.closedPosted => plat'.closedPosted
              /\ plat'.published <=> plat.published \/ (t = "boot" /\ l = "setup" /\ n = "check")
          BY BodyFlags
        <4>2. pc["boot"] \in BootGone => pc'["boot"] \in BootGone
          BY <1>0, <1>1, <3>2 DEF BootGone, EndEdge
        <4>3. ~(t = "boot" /\ l = "setup")
          BY <3>2 DEF EndLabels
        <4> QED
          BY <3>1, <4>1, <4>2, <4>3 DEF Quiet
      <3>6. n \notin {"markClosed", "postClosed"}
        <4>1. ~Closes(t)
          BY <1>1, <3>1 DEF Quiet
        <4>2. EndEdge(l, n) \/ t \in {"closer", "owner"}
          BY <1>0, <1>1, <3>2
        <4>3. n \in {"markClosed", "postClosed"} => l \in {"claim", "markClosed"}
          BY <1>1, <4>2 DEF Edge, CloserEdge, OwnerEdge, EndEdge
        <4>4. l # "markClosed"
          BY <1>1, <4>1 DEF Closes
        <4>5. n = "markClosed" => ~plat.closedPosted
          BY <1>1, <4>2 DEF Edge, CloserEdge, OwnerEdge, EndEdge, Claimable
        <4>6. l = "claim" => plat.closedPosted
          BY <1>0, <1>1, <3>1 DEF Quiet, BootGone, IInv, UnpublishedOK, WorkersOK
        <4>7. n = "postClosed" => l = "markClosed"
          BY <1>1, <4>2 DEF Edge, CloserEdge, OwnerEdge, EndEdge
        <4> QED
          BY <4>3, <4>4, <4>5, <4>6, <4>7
      <3>7. \A u \in Threads : ~Closes(u)'
        <4>1. \A u \in Threads \ {t} : pc'[u] = pc[u]
          BY <1>0, <1>1, <3>2 DEF EndLabels
        <4>2. \A u \in Threads : pc'[u] \in {"markClosed", "postClosed"} => u # t
          BY <1>1, <3>6
        <4>3. pc'["boot"] \notin {"noReactorAnswer", "noReactorOutput"}
          BY <3>4 DEF TalkingLabels, NoReactorLabels
        <4> QED
          BY <3>1, <3>2, <4>1, <4>2, <4>3 DEF Quiet, Closes
      <3> QED
        BY <3>3, <3>4, <3>5, <3>7 DEF QuietOK, Quiet
    <2>2. CASE ~(Told("SESSION_CLOSED") \/ dart.closed)
      <3>1. Told("SESSION_CLOSED")' => Listening'
        BY <1>2, <1>3, <2>2 DEF Listening
      <3>2. (IInv /\ Listening /\ Told("SESSION_CLOSED") /\ ~Told("ASYNC_ERROR")
               /\ "waiter" \notin Faults => Quiet)'
        BY QuietWhenClosed, PTL
      <3>3. Told("SESSION_CLOSED")' => Quiet'
        BY <1>4, <3>1, <3>2 DEF UndisturbedOK
      <3> QED
        BY <1>2, <2>2, <3>3 DEF QuietOK
    <2> QED
      BY <2>1, <2>2
  <1>6. KeptOK'
    <2>1. CASE call' = call
      BY <1>0, <1>2, <2>1 DEF KeptOK
    <2>2. CASE call' # call
      <3>1. ~Quiet
        BY <2>2, QuietSaysNothing
      <3>2. ~dart.closed /\ ~portOpen
        BY <1>0, <1>2, <2>2, <3>1 DEF QuietOK
      <3>3. dart'.gone /\ ~dart'.closed
        BY <1>0, <1>2, <3>2
      <3> QED
        BY <3>3 DEF KeptOK
    <2> QED
      BY <2>1, <2>2
  <1>7. BusyOK'
    <2> SUFFICES ASSUME NEW u \in Workers, call'[u] # "none" PROVE Live(u)'
      BY DEF BusyOK
    <2>1. u \in Threads
      BY DEF Threads
    <2>2. CASE u = t
      <3>1. call' # call
        BY <1>0, <1>1, <2>2
      <3>2. Posts(t, l, n) # "none" \/ (t = "reactor" /\ l = "work")
        BY <1>1, <3>1 DEF Speaks, callVars
      <3>3. l # "release"
        BY <3>2 DEF Posts
      <3>4. n \notin {"off", "end"}
        BY <1>1, <3>3
           DEF Edge, BootEdge, ReactorEdge, WaiterEdge, CloserEdge, OwnerEdge, EndEdge
      <3> QED
        BY <1>1, <2>2, <3>4 DEF Live
    <2>3. CASE u # t
      <3>1. Live(u)
        BY <1>0, <1>2, <2>1, <2>3 DEF BusyOK
      <3>2. pc'[u] = pc[u] \/ pc'[u] \in {"top", "wait"}
        BY <1>0, <1>1, <2>1, <2>3
      <3> QED
        BY <3>1, <3>2 DEF Live
    <2> QED
      BY <2>2, <2>3
  <1> QED
    BY <1>4, <1>5, <1>6, <1>7

\* ... those of begin_close, ...
LEMMA InnerHolds ==
  ASSUME HInv, IInv', "waiter" \notin Faults, NEW t \in Threads, NEW l, NEW n, Inner(t, l, n)
  PROVE  UndisturbedOK' /\ QuietOK' /\ KeptOK' /\ BusyOK'
  <1>0. /\ IInv /\ UndisturbedOK /\ QuietOK /\ KeptOK /\ BusyOK /\ RefsInv /\ SafeInv
        /\ log \in Seq(Events) /\ "SESSION_CLOSED" \in Events
        /\ portOpen <=> ~dart.gone /\ ~dart.closed
        /\ {"boot", "reactor", "waiter"} \subseteq Threads /\ Workers \subseteq Threads
    BY DEF HInv, IInv, ToldOK, HandedOK, Events, Threads, Workers
  <1>1. /\ \A u \in Threads : call'[u] = IF u = t THEN n ELSE call[u]
        /\ \A u \in Threads : pc'[u] = pc[u] \/ (u = "closer" /\ pc'[u] = "stopping")
        /\ \A u \in {"boot", "reactor", "waiter", "owner"} : pc'[u] = pc[u]
        /\ plat'.published = plat.published
        /\ plat'.closedPosted <=> plat.closedPosted \/ n = "mark"
    BY <1>0, InnerActs
  <1>2. /\ call[t] = l /\ InnerEdge(l, n) /\ InnerSays(l, n)
        /\ abandoned' = (IF l = "abandon" THEN TRUE ELSE abandoned)
        /\ UNCHANGED <<report, portOpen, dart>>
    BY DEF Inner
  <1>3. \A x : Told(x)' => Told(x) \/ (l = "post" /\ Listening /\ x = "SESSION_CLOSED")
    <2>1. CASE log' = log
      BY <2>1 DEF Told
    <2>2. CASE l = "post" /\ Listening /\ log' = Append(log, "SESSION_CLOSED")
      BY <1>0, <2>2, LogGrows
    <2> QED
      BY <1>2, <2>1, <2>2 DEF InnerSays
  <1>4. UndisturbedOK'
    BY <1>0, <1>1, <1>2, <1>3 DEF UndisturbedOK
  <1>5. Quiet => n \notin {"mark", "post"} /\ l # "post"
    <2> SUFFICES ASSUME Quiet PROVE n \notin {"mark", "post"} /\ l # "post"
      OBVIOUS
    <2>1. l \notin {"mark", "post"}
      BY <1>2 DEF Quiet, Closes
    <2>2. n # "post"
      BY <1>2, <2>1 DEF InnerEdge
    <2>3. n # "mark"
      <3>1. n = "mark" => l = "maybe" /\ ~plat.closedPosted
        BY <1>2 DEF InnerEdge, Claimable
      <3>2. l = "maybe" => plat.published
        BY <1>0, <1>2 DEF IInv, UnpublishedOK
      <3> QED
        BY <3>1, <3>2 DEF Quiet
    <2> QED
      BY <2>1, <2>2, <2>3
  <1>6. QuietOK'
    <2>1. CASE Told("SESSION_CLOSED") \/ dart.closed
      <3>1. Quiet
        BY <1>0, <2>1 DEF QuietOK
      <3>2. \A u \in Threads : ~Closes(u)'
        BY <1>1, <1>5, <3>1 DEF Quiet, Closes
      <3> QED
        BY <1>1, <3>1, <3>2 DEF QuietOK, Quiet
    <2>2. CASE ~(Told("SESSION_CLOSED") \/ dart.closed)
      <3>1. Told("SESSION_CLOSED")' => Listening'
        BY <1>2, <1>3, <2>2 DEF Listening
      <3>2. (IInv /\ Listening /\ Told("SESSION_CLOSED") /\ ~Told("ASYNC_ERROR")
               /\ "waiter" \notin Faults => Quiet)'
        BY QuietWhenClosed, PTL
      <3>3. Told("SESSION_CLOSED")' => Quiet'
        BY <1>4, <3>1, <3>2 DEF UndisturbedOK
      <3> QED
        BY <1>2, <2>2, <3>3 DEF QuietOK
    <2> QED
      BY <2>1, <2>2
  <1>7. KeptOK'
    <2> SUFFICES ASSUME dart'.finalizer # "ran", dart'.gone => dart'.closed
                 PROVE  ~abandoned' /\ \A u \in Threads : call'[u] # "abandon"
      BY DEF KeptOK
    <2>1. ~abandoned /\ \A u \in Threads : call[u] # "abandon"
      BY <1>0, <1>2 DEF KeptOK
    <2>2. ~abandoned'
      BY <1>2, <2>1
    <2>3. n # "abandon"
      <3>1. n = "abandon" => l = "post" /\ ~portOpen
        BY <1>2 DEF InnerEdge
      <3>2. ~portOpen => Quiet
        BY <1>0, <1>2 DEF QuietOK
      <3> QED
        BY <1>5, <3>1, <3>2
    <2> QED
      BY <1>1, <2>1, <2>2, <2>3
  <1>8. BusyOK'
    <2> SUFFICES ASSUME NEW u \in Workers, call'[u] # "none" PROVE Live(u)'
      BY DEF BusyOK
    <2>1. l # "none"
      BY <1>2 DEF InnerEdge
    <2>2. Live(u)
      BY <1>0, <1>1, <1>2, <2>1 DEF BusyOK
    <2> QED
      BY <1>0, <1>1, <2>2 DEF Live
  <1> QED
    BY <1>4, <1>6, <1>7, <1>8

\* ... and the isolate's.
LEMMA DartHolds ==
  ASSUME HInv,
         \/ DartReceives \/ UserCloses \/ DriverCloses \/ CloseFinishes
         \/ IsolateExits \/ FinalizerAtExit \/ WrapperCollected
  PROVE  UndisturbedOK' /\ QuietOK' /\ KeptOK' /\ BusyOK'
  <1>0. /\ UndisturbedOK /\ QuietOK /\ KeptOK /\ BusyOK
        /\ DOMAIN call = Threads /\ "owner" \in Threads \ Workers /\ Workers \subseteq Threads
        /\ dart \in DartType
    BY DEF HInv, IInv, HandedOK, RefsInv, RefsTypeOK, Threads, Workers
  <1>1. DartStep
    BY DartSteps DEF HInv
  <1>2. /\ UNCHANGED <<pc, abandoned, plat, report>>
        /\ log' = log \/ log' = <<>>
        /\ dart'.closed => dart.closed \/ Told("SESSION_CLOSED")
    BY <1>1 DEF DartStep, DartHears
  <1>3. \A x : Told(x)' => Told(x)
    BY <1>2, EmptySeq DEF Told
  <1>4. \A u \in Threads : \/ call'[u] = call[u]
                           \/ u = "owner" /\ call'[u] \in {"lifecycle", "abandon"}
    BY <1>0, <1>1 DEF DartStep, DartCalls
  <1>5. UndisturbedOK'
    BY <1>0, <1>2, <1>3 DEF UndisturbedOK
  <1>6. QuietOK'
    <2>1. \A u \in Threads : Closes(u)' => Closes(u)
      BY <1>2, <1>4 DEF Closes
    <2> HIDE DEF Closes, Told
    <2>2. Quiet => Quiet'
      BY <1>2, <2>1 DEF Quiet
    <2> QED
      BY <1>0, <1>2, <1>3, <2>2 DEF QuietOK
  <1>7. BusyOK'
    BY <1>0, <1>2, <1>4 DEF BusyOK, Live
  <1>8. KeptOK'
    <2>1. CASE FinalizerAtExit \/ WrapperCollected
      <3>1. dart' = [dart EXCEPT !.finalizer = "ran"]
        BY <2>1 DEF FinalizerAtExit, WrapperCollected, RunFinalizer
      <3>2. dart'.finalizer = "ran"
        BY <1>0, <3>1 DEF DartType
      <3> QED
        BY <3>2 DEF KeptOK
    <2>2. CASE DartReceives \/ UserCloses \/ DriverCloses \/ CloseFinishes \/ IsolateExits
      <3>1. ~dart.gone
        BY <2>2
           DEF DartReceives, UserCloses, DriverCloses, Close, CloseFinishes, IsolateExits, CanRun
      <3>2. dart'.finalizer = dart.finalizer \/ dart.finalizer = "attached"
        <4>1. CASE CloseFinishes
          BY <4>1 DEF CloseFinishes
        <4>2. CASE DartReceives
          BY <1>0, <4>2 DEF DartReceives, DartType
        <4>3. CASE UserCloses \/ DriverCloses
          BY <1>0, <4>3 DEF UserCloses, DriverCloses, Close, DartType
        <4>4. CASE IsolateExits
          BY <1>0, <4>4 DEF IsolateExits, DartType
        <4> QED
          BY <2>2, <4>1, <4>2, <4>3, <4>4
      <3>3. call' = call \/ call' = [call EXCEPT !["owner"] = "lifecycle"]
        BY <2>2 DEF DartReceives, UserCloses, DriverCloses, Close, CloseFinishes, IsolateExits,
                    OwnerCalls, callVars
      <3> QED
        BY <1>0, <1>2, <3>1, <3>2, <3>3 DEF KeptOK
    <2> QED
      BY <2>1, <2>2
  <1> QED
    BY <1>5, <1>6, <1>7, <1>8

\* Every step keeps it.
LEMMA NextHolds ==
  ASSUME HInv, [Next]_vars, {"waiter", "io", "supervisor"} \cap Faults = {}
  PROVE  HInv'
  <1>0. /\ IInv /\ UndisturbedOK /\ QuietOK /\ KeptOK /\ BusyOK /\ "waiter" \notin Faults
        /\ RefsInv /\ plat \in [FlagNames -> BOOLEAN]
    BY DEF HInv, IInv, SafeInv
  <1>1. IInv'
    BY <1>0, NextContract
  <1>2. UndisturbedOK' /\ QuietOK' /\ KeptOK' /\ BusyOK'
    <2>1. CASE /\ UNCHANGED <<pc, call, abandoned, plat, report, log, dart>>
      BY <1>0, <2>1 DEF UndisturbedOK, QuietOK, Quiet, KeptOK, BusyOK, Told, Closes, Live
    <2>2. CASE UNCHANGED vars
      BY <2>1, <2>2 DEF vars, callVars, sessionVars, processVars, dartVars
    <2>3. CASE BodyStep
      <3>1. PICK t, l, n : Body(t, l, n)
        BY <1>0, <2>3, BodySteps
      <3> QED
        BY <1>1, <3>1, BodyHolds
    <2>4. ASSUME NEW t \in Threads, BeginClose(t)
          PROVE  UndisturbedOK' /\ QuietOK' /\ KeptOK' /\ BusyOK'
      <3>1. PICK l, n : Inner(t, l, n)
        BY <1>0, <2>4, InnerSteps
      <3> QED
        BY <1>0, <1>1, <3>1, InnerHolds
    <2>5. CASE ProgramExits \/ SupervisorDies \/ Reap
      BY <2>1, <2>5
         DEF ProgramExits, SupervisorDies, Reap, processFrame, callVars, sessionVars, dartVars
    <2>6. CASE \/ DartReceives \/ UserCloses \/ DriverCloses \/ CloseFinishes
               \/ IsolateExits \/ FinalizerAtExit \/ WrapperCollected
      BY <2>6, DartHolds
    <2> QED
      BY <2>2, <2>3, <2>4, <2>5, <2>6 DEF Next, BodyStep
  <1> QED
    BY <1>1, <1>2 DEF HInv

\* It holds at first.
LEMMA InitHolds == Init => HInv
  <1> SUFFICES ASSUME Init PROVE HInv
    OBVIOUS
  <1>1. IInv
    BY InitIInv
  <1>2. \A x : ~Told(x)
    BY EmptySeq DEF Init, Told
  <1>3. /\ pc["waiter"] = "off" /\ \A t \in Threads : call[t] = "none"
        /\ ~dart.closed /\ ~abandoned
    BY DEF Init, Threads, Workers
  <1>4. Workers \subseteq Threads
    BY DEF Threads
  <1> QED
    BY <1>1, <1>2, <1>3, <1>4 DEF HInv, UndisturbedOK, QuietOK, KeptOK, BusyOK

\* Dart's reference is released once, and then the last worker frees the session
\* when it is through with it.
LEMMA HoldersHold == HInv => WorkersHoldSession
  <1> SUFFICES ASSUME HInv PROVE WorkersHoldSession
    OBVIOUS
  <1>0. IInv /\ KeptOK /\ BusyOK /\ HandedOK
    BY DEF HInv, IInv
  <1>1. dart.finalizer = "detached" => ~GivenUp
    BY <1>0 DEF KeptOK, HandedOK, GivenUp
  <1>2. handed <= 1
    BY <1>0, <1>1 DEF HandedOK
  <1>3. refCount \in Int
    BY <1>0 DEF IInv, RefsInv, RefsTypeOK
  <1>4. refCount <= 0 => \A t \in Workers : ~Live(t)
    BY <1>0, <1>2, <1>3, StillHeld
  <1> QED
    BY <1>0, <1>2, <1>4 DEF WorkersHoldSession, BusyOK

\* No pty_session_release comes too many: Dart's reference is given up once, by
\* the finalizer, by the abandonment a failed post starts or by close(), and the
\* session is freed only after the last worker is through with it.  It holds when
\* startup is undisturbed -- the terminal does not fail, the supervisor lives and
\* the waiter can be created; an error during startup makes the isolate close
\* the session under its bootstrap, whose late answer may then abandon it again.
THEOREM WorkersHoldTheSession ==
  ASSUME {"waiter", "io", "supervisor"} \cap Faults = {}
  PROVE  Spec => []WorkersHoldSession
  <1>1. HInv /\ [Next]_vars => HInv'
    BY NextHolds
  <1> QED
    BY <1>1, InitHolds, HoldersHold, PTL DEF Spec

-----------------------------------------------------------------------------
(* The types                                                               *)

\* What a step may break of TypeOK; the rest of it is in IInv and HInv.
StatesOK ==
  /\ pc \in [Threads -> Labels] /\ call \in [Threads -> CallPcs]
  /\ lifecycle \in {"STARTING", "RUNNING", "CLOSING", "CLOSED"}
  /\ report \in {"none", "exit", "lost"}
  /\ program \in {"none", "running", "exited", "reaped"}
  /\ supervisor \in {"up", "dead"} /\ stray \in BOOLEAN
SeenOK == dart.seen \in 0 .. Len(log)

\* A thread that goes on stays in its body.
LEMMA GoTypes ==
  ASSUME pc \in [Threads -> Labels], NEW t, NEW n \in Labels, Go(t, n)
  PROVE  pc' \in [Threads -> Labels]
  BY DEF Go

\* The steps the bodies are made of keep that.
LEMMA StepTypes ==
  ASSUME StatesOK, SeenOK, log \in Seq(Events), dart.seen \in Nat, portOpen \in BOOLEAN,
         NEW t, NEW l, NEW n \in Labels,
         \/ \E flags : FlagStep(t, l, flags, n)
         \/ \E e \in Events : PostStep(t, l, e, n)
         \/ \E s \in {"RUNNING", "CLOSING", "CLOSED"} : MarkStep(t, l, s, n)
         \/ StopStep(t, l, n)
  PROVE  StatesOK' /\ SeenOK'
  <1>1. pc' \in [Threads -> Labels]
    BY GoTypes DEF StatesOK, FlagStep, PostStep, MarkStep, StopStep
  <1>2. CASE \E flags : FlagStep(t, l, flags, n)
    BY <1>1, <1>2 DEF StatesOK, SeenOK, FlagStep, callVars, sessionVars, processVars, dartVars
  <1>3. CASE \E e \in Events : PostStep(t, l, e, n)
    <2>1. PICK e \in Events : PostStep(t, l, e, n)
      BY <1>3
    <2>2. /\ call' = call \/ call' = [call EXCEPT ![t] = "abandon"]
          /\ log' = log \/ log' = Append(log, e)
          /\ UNCHANGED <<dart, lifecycle, report, program, supervisor, stray>>
      BY <2>1 DEF PostStep, PostEvent, Abandon, callVars, processVars
    <2>3. call' \in [Threads -> CallPcs]
      BY <2>2 DEF StatesOK, CallPcs
    <2>4. SeenOK'
      <3>1. Len(log) \in Nat /\ Len(Append(log, e)) = Len(log) + 1
        BY AppendProperties
      <3> QED
        BY <2>2, <3>1 DEF SeenOK
    <2> QED
      BY <1>1, <2>2, <2>3, <2>4 DEF StatesOK
  <1>4. CASE \E s \in {"RUNNING", "CLOSING", "CLOSED"} : MarkStep(t, l, s, n)
    BY <1>1, <1>4 DEF StatesOK, SeenOK, MarkStep, callVars, processVars, dartVars
  <1>5. CASE StopStep(t, l, n)
    BY <1>1, <1>5 DEF StatesOK, SeenOK, StopStep, StopProcess, callVars, sessionVars, dartVars
  <1> QED
    BY <1>2, <1>3, <1>4, <1>5

\* So does the end of a worker.
LEMMA EndTypes ==
  ASSUME StatesOK, SeenOK, log \in Seq(Events), dart.seen \in Nat, portOpen \in BOOLEAN,
         NEW t, Ending(t)
  PROVE  StatesOK' /\ SeenOK'
  <1>0. /\ "markClosed" \in Labels /\ "postClosed" \in Labels /\ "release" \in Labels
        /\ "end" \in Labels
    BY DEF Labels
  <1>1. "SESSION_CLOSED" \in Events
    BY DEF Events
  <1>2. CASE ClaimClosed(t)
    BY <1>0, <1>2, StepTypes DEF ClaimClosed
  <1>3. CASE MarkStep(t, "markClosed", "CLOSED", "postClosed")
    BY <1>0, <1>3, StepTypes
  <1>4. CASE PostStep(t, "postClosed", "SESSION_CLOSED", "release")
    BY <1>0, <1>1, <1>4, StepTypes
  <1>5. CASE Finish(t)
    <2>1. pc' \in [Threads -> Labels]
      BY <1>0, <1>5, GoTypes DEF Finish, StatesOK
    <2> QED
      BY <2>1, <1>5 DEF Finish, StatesOK, SeenOK, callVars, processVars, dartVars
  <1> QED
    BY <1>2, <1>3, <1>4, <1>5 DEF Ending

\* The same, whatever the labels: a fact to cite for a body of many steps.
LEMMA PlainSteps ==
  ASSUME StatesOK, SeenOK, log \in Seq(Events), dart.seen \in Nat, portOpen \in BOOLEAN
  PROVE  /\ \A t, l, f, n : FlagStep(t, l, f, n) /\ n \in Labels => StatesOK' /\ SeenOK'
         /\ \A t, l, n : StopStep(t, l, n) /\ n \in Labels => StatesOK' /\ SeenOK'
         /\ \A t, l, e, n : PostStep(t, l, e, n) /\ e \in Events /\ n \in Labels =>
              StatesOK' /\ SeenOK'
         /\ \A t, l, s, n : MarkStep(t, l, s, n) /\ s \in {"RUNNING", "CLOSING", "CLOSED"}
                              /\ n \in Labels => StatesOK' /\ SeenOK'
  BY StepTypes

\* Creating a thread keeps it.
LEMMA StartTypes ==
  ASSUME StatesOK, SeenOK, NEW l, NEW u, NEW first \in Labels, NEW n \in Labels,
         StartThread(l, u, first, n)
  PROVE  StatesOK' /\ SeenOK'
  BY DEF StartThread, StatesOK, SeenOK, callVars, processVars, dartVars

\* The steps of the bootstrap keep the types, ...
LEMMA BootTypes ==
  ASSUME StatesOK, SeenOK, log \in Seq(Events), dart.seen \in Nat, portOpen \in BOOLEAN, Boot
  PROVE  StatesOK' /\ SeenOK'
  <1>1. CASE BootSpawns
    <2>1. pc' \in [Threads -> Labels]
      BY <1>1 DEF BootSpawns, Go, StatesOK, Labels
    <2> QED
      BY <1>1, <2>1 DEF BootSpawns, StatesOK, SeenOK, callVars, sessionVars, dartVars
  <1>2. CASE BootSpawnFails
    BY <1>2, PlainSteps DEF BootSpawnFails, Labels, Events
  <1>3. CASE BootSetupFails
    <2>1. CASE PostStep("boot", "setupFailed", "SPAWN_FAILED", "failedMark")
      BY <2>1, PlainSteps DEF Labels, Events
    <2>2. CASE ~PostStep("boot", "setupFailed", "SPAWN_FAILED", "failedMark")
      <3>1. pc' \in [Threads -> Labels]
        BY <1>3, <2>2 DEF BootSetupFails, Go, StatesOK, Labels
      <3> QED
        BY <1>3, <2>2, <3>1 DEF BootSetupFails, StatesOK, SeenOK, callVars, sessionVars, dartVars
    <2> QED
      BY <2>1, <2>2
  <1>4. CASE BootPublishes \/ BootChecksClosing
    BY <1>4, PlainSteps DEF BootPublishes, BootChecksClosing, Labels
  <1>5. CASE BootFinishesUnstarted
    BY <1>5, PlainSteps DEF BootFinishesUnstarted, Labels, Events
  <1>6. CASE BootReactorFails
    <2>1. "lateAnswer" \in Labels /\ "noReactorAnswer" \in Labels /\ "noReactor" \in Labels
      BY DEF Labels
    <2>2. ASSUME ThreadFails("reactor", "reactor", "noReactor") PROVE StatesOK' /\ SeenOK'
      BY <2>1, <2>2, PlainSteps DEF ThreadFails
    <2>3. ASSUME NEW f, FlagStep("boot", "noReactorFlags", f,
                                 IF plat.closeStarted THEN "lateAnswer" ELSE "noReactorAnswer")
          PROVE  StatesOK' /\ SeenOK'
      BY <2>1, <2>3, PlainSteps
    <2> QED
      BY <1>6, <2>2, <2>3, PlainSteps DEF BootReactorFails, Labels, Events
  <1>7. CASE BootWaiterFails
    BY <1>7, PlainSteps DEF BootWaiterFails, ThreadFails, Labels
  <1>8. CASE BootRuns
    BY <1>8, PlainSteps DEF BootRuns, Labels
  <1>9. CASE BootCancelled
    BY <1>9, PlainSteps DEF BootCancelled, Labels, Events
  <1>10. CASE \/ StartThread("reactor", "reactor", "top", "waiter")
              \/ StartThread("waiter", "waiter", "wait", "run")
    <2>1. "top" \in Labels /\ "waiter" \in Labels /\ "wait" \in Labels /\ "run" \in Labels
      BY DEF Labels
    <2> QED
      BY <1>10, <2>1, StartTypes
  <1>11. CASE PostStep("boot", "spawned", "SPAWNED", "release") \/ Ending("boot")
    BY <1>11, PlainSteps, EndTypes DEF Labels, Events
  <1> QED
    BY <1>1, <1>2, <1>3, <1>4, <1>5, <1>6, <1>7, <1>8, <1>9, <1>10, <1>11 DEF Boot

\* ... the reactor, the waiter and the close worker, ...
LEMMA WorkerTypes ==
  ASSUME StatesOK, SeenOK, log \in Seq(Events), dart.seen \in Nat, portOpen \in BOOLEAN,
         Reactor \/ ReactorSeesTerminal \/ ReactorLeaves \/ Waiter \/ Closer
  PROVE  StatesOK' /\ SeenOK'
  <1>1. CASE ReactorLoops \/ ReactorSeesTerminal
    BY <1>1, PlainSteps DEF ReactorLoops, ReactorSeesTerminal, Labels
  <1>2. CASE ReactorLeaves
    <2>1. CASE (~portOpen \/ abandoned) /\ PostStep("reactor", "work", "OUTPUT", "output")
      <3>1. pc' \in [Threads -> Labels]
        BY <2>1 DEF PostStep, Go, StatesOK, Labels
      <3>2. /\ call' = call \/ call' = [call EXCEPT !["reactor"] = "abandon"]
            /\ UNCHANGED <<log, dart, lifecycle, report, program, supervisor, stray>>
        BY <2>1 DEF PostStep, PostEvent, Abandon, callVars, processVars
      <3>3. call' \in [Threads -> CallPcs]
        BY <3>2 DEF StatesOK, CallPcs
      <3> QED
        BY <3>1, <3>2, <3>3 DEF StatesOK, SeenOK
    <2> QED
      BY <1>2, <2>1, PlainSteps DEF ReactorLeaves, Labels, Events
  <1>3. CASE ReactorEnds
    <2>1. CASE /\ At("reactor", "output") /\ Go("reactor", "input")
               /\ IF plat.outputClosed
                    THEN UNCHANGED <<callVars, abandoned, refCount, handed, dartVars>>
                    ELSE PostEvent("reactor", "OUTPUT_CLOSED")
               /\ UNCHANGED <<lifecycle, processVars>>
      <3>1. pc' \in [Threads -> Labels]
        BY <2>1 DEF Go, StatesOK, Labels
      <3>2. /\ call' = call \/ call' = [call EXCEPT !["reactor"] = "abandon"]
            /\ log' = log \/ log' = Append(log, "OUTPUT_CLOSED")
            /\ UNCHANGED <<dart, lifecycle, report, program, supervisor, stray>>
        <4>1. CASE plat.outputClosed
          BY <2>1, <4>1 DEF callVars, processVars, dartVars
        <4>2. CASE ~plat.outputClosed
          BY <2>1, <4>2 DEF PostEvent, Abandon, callVars, processVars
        <4> QED
          BY <4>1, <4>2
      <3>3. call' \in [Threads -> CallPcs]
        BY <3>2 DEF StatesOK, CallPcs
      <3>4. SeenOK'
        <4>1. Len(log) \in Nat /\ Len(Append(log, "OUTPUT_CLOSED")) = Len(log) + 1
          BY AppendProperties DEF Events
        <4> QED
          BY <3>2, <4>1 DEF SeenOK
      <3> QED
        BY <3>1, <3>2, <3>3, <3>4 DEF StatesOK
    <2> QED
      BY <1>3, <2>1, PlainSteps, EndTypes DEF ReactorEnds, Labels, Events
  <1>4. CASE WaiterReads
    <2>1. pc' \in [Threads -> Labels]
      BY <1>4 DEF WaiterReads, Go, StatesOK, Labels
    <2> QED
      BY <1>4, <2>1 DEF WaiterReads, StatesOK, SeenOK, callVars, sessionVars, dartVars
  <1>5. CASE WaiterRecords
    BY <1>5, PlainSteps DEF WaiterRecords, Labels
  <1>6. CASE WaiterEnds
    BY <1>6, PlainSteps, EndTypes DEF WaiterEnds, Labels, Events
  <1>7. CASE Closer
    BY <1>7, PlainSteps, EndTypes DEF Closer, Labels
  <1> QED
    BY <1>1, <1>2, <1>3, <1>4, <1>5, <1>6, <1>7 DEF Reactor, Waiter

\* ... of pty_session_abandon and pty_session_begin_close, ...
LEMMA CloseTypes ==
  ASSUME StatesOK, SeenOK, log \in Seq(Events), NEW t, BeginClose(t)
  PROVE  StatesOK' /\ SeenOK'
  <1>1. /\ lifecycle' \in {lifecycle, ClosingFrom(lifecycle), "CLOSED"}
        /\ log' = log \/ log' = Append(log, "SESSION_CLOSED")
        /\ report' = report /\ supervisor' = supervisor /\ dart' = dart
    BY DEF BeginClose, MarkAbandoned, CloseLifecycle, CloseClaim, CloseCreate, CloseUnretain,
           CloseCreateFails, CloseStop, CloseWake, CloseMaybe, CloseMark, ClosePost, StopProcess,
           closeFrame, sessionVars, processVars, dartVars
  <1>2. /\ program' \in {program, "exited"} /\ stray' \in {stray, TRUE, FALSE}
    BY DEF BeginClose, MarkAbandoned, CloseLifecycle, CloseClaim, CloseCreate, CloseUnretain,
           CloseCreateFails, CloseStop, CloseWake, CloseMaybe, CloseMark, ClosePost, StopProcess,
           closeFrame, processVars
  <1>3. pc' = pc \/ pc' = [pc EXCEPT !["closer"] = "stopping"]
    BY DEF BeginClose, MarkAbandoned, CloseLifecycle, CloseClaim, CloseCreate, CloseUnretain,
           CloseCreateFails, CloseStop, CloseWake, CloseMaybe, CloseMark, ClosePost, Inside, Return
  <1>4. \E c \in CallPcs : call' = [call EXCEPT ![t] = c]
    BY DEF BeginClose, MarkAbandoned, CloseLifecycle, CloseClaim, CloseCreate, CloseUnretain,
           CloseCreateFails, CloseStop, CloseWake, CloseMaybe, CloseMark, ClosePost, Inside, Return,
           Abandon, CallPcs
  <1>5. pc' \in [Threads -> Labels]
    BY <1>3 DEF StatesOK, Labels
  <1>6. call' \in [Threads -> CallPcs]
    BY <1>4 DEF StatesOK
  <1>7. lifecycle' \in {"STARTING", "RUNNING", "CLOSING", "CLOSED"}
    BY <1>1 DEF StatesOK, ClosingFrom
  <1>8. SeenOK'
    <2>1. Len(log) \in Nat /\ Len(Append(log, "SESSION_CLOSED")) = Len(log) + 1
      BY AppendProperties DEF Events
    <2> QED
      BY <1>1, <2>1 DEF SeenOK
  <1> QED
    BY <1>1, <1>2, <1>5, <1>6, <1>7, <1>8 DEF StatesOK

\* ... of the program and its supervisor, and of the isolate.
LEMMA OutsideTypes ==
  ASSUME StatesOK, SeenOK, log \in Seq(Events), dart \in DartType,
         \/ ProgramExits \/ SupervisorDies \/ Reap
         \/ DartReceives \/ UserCloses \/ DriverCloses \/ CloseFinishes
         \/ UserKills \/ UserKillWakes \/ IsolateExits \/ FinalizerAtExit \/ WrapperCollected,
         portOpen \in BOOLEAN
  PROVE  StatesOK' /\ SeenOK'
  <1>0. dart.seen \in Nat /\ Len(log) \in Nat
    BY LenProperties DEF DartType
  <1>1. CASE ProgramExits \/ SupervisorDies \/ Reap
    BY <1>1 DEF ProgramExits, SupervisorDies, Reap, processFrame, callVars, sessionVars, dartVars,
                StatesOK, SeenOK
  <1>2. CASE UserKills \/ UserKillWakes
    BY <1>0, <1>2, PlainSteps DEF UserKills, UserKillWakes, Labels
  <1>3. CASE \/ DartReceives \/ UserCloses \/ DriverCloses \/ CloseFinishes
             \/ IsolateExits \/ FinalizerAtExit \/ WrapperCollected
    <2>1. UNCHANGED <<pc, lifecycle, report, program, supervisor, stray>>
      BY <1>3 DEF DartReceives, UserCloses, DriverCloses, Close, CloseFinishes, IsolateExits,
                  FinalizerAtExit, WrapperCollected, RunFinalizer, sessionVars, processVars
    <2>2. call' = call \/ \E c \in CallPcs : call' = [call EXCEPT !["owner"] = c]
      BY <1>3 DEF DartReceives, UserCloses, DriverCloses, Close, CloseFinishes, IsolateExits,
                  FinalizerAtExit, WrapperCollected, RunFinalizer, OwnerCalls, Abandon, callVars,
                  CallPcs
    <2>3. call' \in [Threads -> CallPcs]
      BY <2>2 DEF StatesOK
    <2>4. CASE DartReceives
      <3>1. dart.seen < Len(log) /\ log' = log /\ dart'.seen = dart.seen + 1
        BY <2>4 DEF DartReceives, DartType
      <3> QED
        BY <1>0, <2>1, <2>3, <3>1 DEF StatesOK, SeenOK
    <2>5. CASE IsolateExits
      <3>1. log' = <<>> /\ dart'.seen = 0 /\ Len(<<>>) = 0
        BY <2>5 DEF IsolateExits, DartType
      <3> QED
        BY <2>1, <2>3, <3>1 DEF StatesOK, SeenOK
    <2>6. CASE UserCloses \/ DriverCloses \/ CloseFinishes \/ FinalizerAtExit \/ WrapperCollected
      <3>1. log' = log /\ dart'.seen = dart.seen
        BY <2>6 DEF UserCloses, DriverCloses, Close, CloseFinishes, FinalizerAtExit,
                    WrapperCollected, RunFinalizer, Detached, Abandon, DartType
      <3> QED
        BY <2>1, <2>3, <3>1 DEF StatesOK, SeenOK
    <2> QED
      BY <1>3, <2>4, <2>5, <2>6
  <1> QED
    BY <1>1, <1>2, <1>3

\* The types with the invariants they need.
TypedInv == HInv /\ StatesOK /\ SeenOK

\* Every step keeps them.
LEMMA NextTypes ==
  ASSUME TypedInv, [Next]_vars
  PROVE  StatesOK' /\ SeenOK'
  <1>1. /\ StatesOK /\ SeenOK /\ log \in Seq(Events) /\ portOpen \in BOOLEAN
        /\ dart \in DartType /\ dart.seen \in Nat
    BY DEF TypedInv, HInv, IInv, ToldOK, HandedOK, DartType
  <1>2. CASE UNCHANGED vars
    BY <1>1, <1>2 DEF vars, callVars, sessionVars, processVars, dartVars, StatesOK, SeenOK
  <1>3. CASE Boot
    BY <1>1, <1>3, BootTypes
  <1>4. CASE Reactor \/ ReactorSeesTerminal \/ ReactorLeaves \/ Waiter \/ Closer
    BY <1>1, <1>4, WorkerTypes
  <1>5. ASSUME NEW t \in Threads, BeginClose(t) PROVE StatesOK' /\ SeenOK'
    BY <1>1, <1>5, CloseTypes
  <1>6. CASE \/ ProgramExits \/ SupervisorDies \/ Reap
             \/ DartReceives \/ UserCloses \/ DriverCloses \/ CloseFinishes
             \/ UserKills \/ UserKillWakes \/ IsolateExits \/ FinalizerAtExit \/ WrapperCollected
    BY <1>1, <1>6, OutsideTypes
  <1> QED
    BY <1>2, <1>3, <1>4, <1>5, <1>6 DEF Next

\* They hold at first.
LEMMA InitTypes == Init => StatesOK /\ SeenOK
  <1> SUFFICES ASSUME Init PROVE StatesOK /\ SeenOK
    OBVIOUS
  <1>1. pc \in [Threads -> Labels]
    BY DEF Init, Labels
  <1>2. call \in [Threads -> CallPcs]
    BY DEF Init, CallPcs
  <1>3. SeenOK
    BY DEF Init, SeenOK
  <1> QED
    BY <1>1, <1>2, <1>3 DEF Init, StatesOK

\* They are the types: the reference count does not become negative, since Dart's
\* reference is released once and every thread releases what it holds.
LEMMA TypesHold == TypedInv => TypeOK
  <1> SUFFICES ASSUME TypedInv PROVE TypeOK
    OBVIOUS
  <1>1. /\ IInv /\ HInv /\ StatesOK /\ SeenOK /\ HandedOK /\ log \in Seq(Events)
        /\ plat \in [FlagNames -> BOOLEAN]
    BY DEF TypedInv, HInv, IInv, ToldOK, SafeInv
  <1>2. handed \in Nat /\ handed <= 1
    BY <1>1, HandedValues, HoldersHold DEF WorkersHoldSession
  <1>3. refCount \in Nat
    <2> DEFINE a == Held("boot")
               b == Held("reactor")
               c == Held("waiter")
               d == Held("closer")
               e == Held("owner")
    <2>1. /\ a \in {0, 1, 2} /\ b \in {0, 1, 2} /\ c \in {0, 1, 2} /\ d \in {0, 1, 2}
          /\ e \in {0, 1, 2}
      BY <1>1, HeldValues DEF Threads, Workers
    <2>2. refCount = 1 - handed + a + b + c + d + e
      BY <1>1, HeldValues
    <2> HIDE DEF a, b, c, d, e
    <2> QED
      BY <1>2, <2>1, <2>2
  <1>4. abandoning \subseteq Threads /\ abandoned \in BOOLEAN /\ portOpen \in BOOLEAN
    BY <1>1 DEF HandedOK
  <1> QED
    BY <1>1, <1>2, <1>3, <1>4 DEF TypeOK, StatesOK, SeenOK

\* A session's state keeps its types: no thread leaves its labels, no release
\* comes too many and the isolate reads no event that was not posted, as long as
\* startup is undisturbed as above.
THEOREM TypeCorrect ==
  ASSUME {"waiter", "io", "supervisor"} \cap Faults = {}
  PROVE  Spec => []TypeOK
  <1>1. TypedInv /\ [Next]_vars => TypedInv'
    BY NextHolds, NextTypes DEF TypedInv
  <1>2. Init => TypedInv
    BY InitHolds, InitTypes DEF TypedInv
  <1> QED
    BY <1>1, <1>2, TypesHold, PTL DEF Spec
=============================================================================
