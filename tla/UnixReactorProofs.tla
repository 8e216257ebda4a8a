-------------------------- MODULE UnixReactorProofs --------------------------
(***************************************************************************)
(* The safety of UnixReactor for every window, buffer, terminal capacity   *)
(* and set of misfortunes: the inductive invariant IInv, and from it the   *)
(* conservation of credit, the completeness of an uncut stream, the order  *)
(* of hangup and exit, and the refinement of OutputStream.                 *)
(***************************************************************************)
EXTENDS UnixReactor, TLAPS

\* The session starts with the whole window and nothing printed.
LEMMA InitIInv == Init => IInv
<1> SUFFICES ASSUME Init PROVE IInv
  OBVIOUS
<1> USE UnixReactorAssumption DEF Init
<1>1. TypeOK
  BY DEF TypeOK, KernelTypeOK, SessionTypeOK, PcTypeOK, LocalsTypeOK,
         DartTypeOK, ReactorPcs, Results
<1>2. ReadOK /\ ChunksOK /\ CreditConserved /\ BytesOK
  BY DEF ReadOK, ChunksOK, CreditConserved, Charged, BytesOK, InHand
<1>3. HangupOK /\ EndOK
  BY DEF HangupOK, HungUp, Writers, EndOK
<1> QED BY <1>1, <1>2, <1>3 DEF IInv

-----------------------------------------------------------------------------
(* The types of the reactor's locals after each way of moving on           *)

\* Leaving the turn resets its locals.
LEMMA LeaveType == ASSUME NEW pc, Leave(pc) PROVE LocalsTypeOK'
  BY Zenon DEF Leave, LocalsTypeOK, Results

\* A step to another label leaves the reactor's locals as they are.
LEMMA GotoType == ASSUME LocalsTypeOK, NEW pc, Goto(pc) PROVE LocalsTypeOK'
  BY DEF Goto, locals, LocalsTypeOK

\* Calling read_output only records the call site.
LEMMA CallReadType ==
  ASSUME LocalsTypeOK, NEW site \in {"exit", "in", "hup"}, CallRead(site)
  PROVE  LocalsTypeOK'
  BY DEF CallRead, LocalsTypeOK

\* Returning from read_output sets its result and drops its locals.
LEMMA ReturnType ==
  ASSUME LocalsTypeOK, NEW value \in Results, Return(value)
  PROVE  LocalsTypeOK'
  BY DEF Return, LocalsTypeOK

\* A step of another thread does not touch the reactor's locals.
LEMMA SameLocalsType == ASSUME LocalsTypeOK, UNCHANGED locals PROVE LocalsTypeOK'
  BY DEF locals, LocalsTypeOK

-----------------------------------------------------------------------------
(* Every step preserves the types                                          *)

\* The terminal and the processes on it keep their types.
LEMMA KernelTypeStep ==
  ASSUME KernelTypeOK, Next PROVE KernelTypeOK'
<1> USE DEF KernelTypeOK, kernelVars, loopFrame, SlaveAfterRead, SetConsumer
<1>1. CASE Top \/ Poll \/ PollFails \/ DrainWakePipe \/ CheckStopping \/
             CheckExit
  BY <1>1 DEF Top, Poll, PollFails, DrainWakePipe, CheckStopping, CheckExit
<1>2. CASE SkipFlush
  BY <1>2 DEF SkipFlush
<1>3. CASE Flush
  BY <1>3 DEF Flush
<1>4. CASE FlushFails
  BY <1>4 DEF FlushFails
<1>5. CASE In
  BY <1>5 DEF In
<1>6. CASE Hup
  BY <1>6 DEF Hup
<1>7. CASE NoHup
  BY <1>7 DEF NoHup
<1>8. CASE ReadStart \/ ReadData \/ ReadNothing \/ ReadFails
  BY <1>8 DEF ReadStart, ReadData, ReadNothing, ReadFails
<1>9. CASE Charge \/ PostOutput \/ PostOutputFails \/ ReturnToLoop
  BY <1>9 DEF Charge, PostOutput, PostOutputFails, ReturnToLoop
<1>10. CASE DoneOutput \/ DoneInput \/ DoneExit
  BY <1>10 DEF DoneOutput, DoneInput, DoneExit
<1>11. CASE Waiter
  BY <1>11 DEF Waiter, WaiterReadsExit, WaiterRecordsExit, WaiterWakesReactor,
         WaiterPostsExit
<1>12. CASE Closer
  BY <1>12 DEF Closer, CloserStops, CloserKills, CloserWakesReactor
<1>13. CASE Owner
  BY <1>13 DEF Owner, Ack, DiscardOutput, TryWrite, OwnerWakesReactor, Pause,
         Resume, Cancel, OwnerCloses, PortCloses, FinalizerAbandons
<1>14. CASE ProgramPrints
  BY <1>14 DEF ProgramPrints
<1>15. CASE ProgramExits
  BY <1>15 DEF ProgramExits
<1>16. CASE DescendantExits
  BY <1>16 DEF DescendantExits
<1>17. CASE ProgramReadsInput
  BY <1>17 DEF ProgramReadsInput
<1> QED BY <1>1, <1>2, <1>3, <1>4, <1>5, <1>6, <1>7, <1>8, <1>9, <1>10, <1>11,
          <1>12, <1>13, <1>14, <1>15, <1>16, <1>17 DEF Next, Reactor, Waiter,
          Closer, Owner, Environment

\* The session's counters and flags keep their types: the credit is never
\* charged below zero and never credited beyond the window.
LEMMA SessionTypeStep ==
  ASSUME TypeOK, ChunksOK, Next PROVE SessionTypeOK'
<1> USE DEF TypeOK, SessionTypeOK, LocalsTypeOK, DartTypeOK, ChunksOK,
            loopFrame, flagVars, PostSimple, MarkInputClosed, ChargedCredit,
            CreditAfterAck, Lesser, SetConsumer
<1>1. CASE Top
  BY <1>1 DEF Top
<1>2. CASE Poll
  BY <1>2 DEF Poll
<1>3. CASE PollFails
  BY <1>3 DEF PollFails
<1>4. CASE DrainWakePipe
  BY <1>4 DEF DrainWakePipe
<1>5. CASE CheckStopping
  BY <1>5 DEF CheckStopping
<1>6. CASE CheckExit
  BY <1>6 DEF CheckExit
<1>7. CASE SkipFlush
  BY <1>7 DEF SkipFlush
<1>8. CASE Flush
  <2>1. queued' \in Nat
    BY <1>8 DEF Flush
  <2>2. abandoned' \in BOOLEAN
    BY <1>8 DEF Flush
  <2> QED BY <1>8, <2>1, <2>2 DEF Flush
<1>9. CASE FlushFails
  BY <1>9 DEF FlushFails
<1>10. CASE In
  BY <1>10 DEF In
<1>11. CASE Hup
  BY <1>11 DEF Hup
<1>12. CASE NoHup
  BY <1>12 DEF NoHup
<1>13. CASE ReadStart
  BY <1>13 DEF ReadStart
<1>14. CASE ReadData
  BY <1>14 DEF ReadData
<1>15. CASE ReadNothing
  BY <1>15 DEF ReadNothing
<1>16. CASE ReadFails
  BY <1>16 DEF ReadFails
<1>17. CASE Charge
  BY <1>17 DEF Charge
<1>18. CASE PostOutput
  BY <1>18 DEF PostOutput
<1>19. CASE PostOutputFails
  BY <1>19 DEF PostOutputFails
<1>20. CASE ReturnToLoop
  BY <1>20 DEF ReturnToLoop
<1>21. CASE DoneOutput \/ DoneInput \/ DoneExit
  BY <1>21 DEF DoneOutput, DoneInput, DoneExit
<1>22. CASE WaiterReadsExit
  BY <1>22 DEF WaiterReadsExit
<1>23. CASE WaiterRecordsExit
  BY <1>23 DEF WaiterRecordsExit
<1>24. CASE WaiterWakesReactor
  BY <1>24 DEF WaiterWakesReactor
<1>25. CASE WaiterPostsExit
  BY <1>25 DEF WaiterPostsExit
<1>26. CASE Closer
  BY <1>26 DEF Closer, CloserStops, CloserKills, CloserWakesReactor
<1>27. CASE Ack
  BY <1>27, UnixReactorAssumption DEF Ack
<1>28. CASE DiscardOutput
  BY <1>28 DEF DiscardOutput
<1>29. CASE TryWrite
  BY <1>29 DEF TryWrite
<1>30. CASE OwnerWakesReactor
  BY <1>30 DEF OwnerWakesReactor
<1>31. CASE Pause
  BY <1>31 DEF Pause
<1>32. CASE Resume
  BY <1>32 DEF Resume
<1>33. CASE Cancel
  BY <1>33 DEF Cancel
<1>34. CASE OwnerCloses
  BY <1>34 DEF OwnerCloses
<1>35. CASE PortCloses
  BY <1>35 DEF PortCloses
<1>36. CASE FinalizerAbandons
  BY <1>36 DEF FinalizerAbandons
<1>37. CASE Environment
  BY <1>37 DEF Environment, ProgramPrints, ProgramExits, DescendantExits,
         ProgramReadsInput
<1> QED BY <1>1, <1>2, <1>3, <1>4, <1>5, <1>6, <1>7, <1>8, <1>9, <1>10, <1>11,
          <1>12, <1>13, <1>14, <1>15, <1>16, <1>17, <1>18, <1>19, <1>20,
          <1>21, <1>22, <1>23, <1>24, <1>25, <1>26, <1>27, <1>28, <1>29,
          <1>30, <1>31, <1>32, <1>33, <1>34, <1>35, <1>36, <1>37 DEF Next,
          Reactor, Waiter, Closer, Owner, Environment

\* The thread positions stay within their labels.
LEMMA PcTypeStep ==
  ASSUME PcTypeOK, Next PROVE PcTypeOK'
<1> USE DEF PcTypeOK, ReactorPcs, loopFrame, threadVars, Goto, Leave,
            CallRead, Return, PostSimple, BeginClose, MarkInputClosed,
            SetConsumer
<1>1. CASE Top \/ Poll \/ PollFails \/ DrainWakePipe \/ CheckStopping \/
             CheckExit
  BY <1>1 DEF Top, Poll, PollFails, DrainWakePipe, CheckStopping, CheckExit
<1>2. CASE SkipFlush \/ Flush \/ FlushFails \/ In \/ Hup \/ NoHup
  BY <1>2 DEF SkipFlush, Flush, FlushFails, In, Hup, NoHup
<1>3. CASE ReadStart \/ ReadData \/ ReadNothing \/ ReadFails
  BY <1>3 DEF ReadStart, ReadData, ReadNothing, ReadFails
<1>4. CASE Charge \/ PostOutput \/ PostOutputFails \/ ReturnToLoop
  BY <1>4 DEF Charge, PostOutput, PostOutputFails, ReturnToLoop
<1>5. CASE DoneOutput \/ DoneInput \/ DoneExit
  BY <1>5 DEF DoneOutput, DoneInput, DoneExit
<1>6. CASE Waiter
  BY <1>6 DEF Waiter, WaiterReadsExit, WaiterRecordsExit, WaiterWakesReactor,
         WaiterPostsExit
<1>7. CASE Closer
  BY <1>7 DEF Closer, CloserStops, CloserKills, CloserWakesReactor
<1>8. CASE Owner
  BY <1>8 DEF Owner, Ack, DiscardOutput, TryWrite, OwnerWakesReactor, Pause,
         Resume, Cancel, OwnerCloses, PortCloses, FinalizerAbandons
<1>9. CASE Environment
  BY <1>9 DEF Environment, ProgramPrints, ProgramExits, DescendantExits,
         ProgramReadsInput
<1> QED BY <1>1, <1>2, <1>3, <1>4, <1>5, <1>6, <1>7, <1>8, <1>9 DEF Next,
          Reactor, Waiter, Closer, Owner, Environment

\* The reactor's locals keep their types in every step.
LEMMA LocalsTypeStep ==
  ASSUME TypeOK, Next PROVE LocalsTypeOK'
<1> USE DEF TypeOK, threadVars, SetConsumer
<1>1. CASE Top
  <2>1. CASE stopping
    BY <1>1, <2>1, LeaveType DEF Top
  <2>2. CASE ~stopping
    BY <1>1, <2>2 DEF Top, LocalsTypeOK
  <2> QED BY <2>1, <2>2
<1>2. CASE Poll
  BY <1>2 DEF Poll, Ready, LocalsTypeOK
<1>3. CASE PollFails
  BY <1>3, LeaveType DEF PollFails
<1>4. CASE DrainWakePipe
  BY <1>4, GotoType DEF DrainWakePipe
<1>5. CASE CheckStopping
  BY <1>5, LeaveType, GotoType DEF CheckStopping
<1>6. CASE CheckExit
  BY <1>6, CallReadType, GotoType DEF CheckExit
<1>7. CASE SkipFlush
  BY <1>7, GotoType DEF SkipFlush
<1>8. CASE Flush
  BY <1>8, GotoType DEF Flush
<1>9. CASE FlushFails
  BY <1>9, LeaveType DEF FlushFails
<1>10. CASE In
  BY <1>10, CallReadType, GotoType DEF In
<1>11. CASE Hup
  BY <1>11, LeaveType, CallReadType DEF Hup
<1>12. CASE NoHup
  BY <1>12, LeaveType DEF NoHup
<1>13. CASE ReadStart
  <2>1. ReadCapacity \in Nat
    BY UnixReactorAssumption DEF ReadCapacity, Lesser, SessionTypeOK
  <2>2. CASE ~discard /\ credit = 0
    BY <1>13, <2>2, ReturnType DEF ReadStart, Results
  <2>3. CASE ~(~discard /\ credit = 0)
    BY <1>13, <2>1, <2>3 DEF ReadStart, LocalsTypeOK, SessionTypeOK
  <2> QED BY <2>2, <2>3
<1>14. CASE ReadData
  <2>1. PICK n \in 1 .. Lesser(amount, Buffered) :
               IF dropping
                 THEN Return("DATA")
                 ELSE /\ rpc' = "charge" /\ amount' = n
                      /\ UNCHANGED <<events, revents, result, caller, dropping>>
    BY <1>14 DEF ReadData
  <2>2. n \in Nat
    BY DEF Lesser, Buffered, LocalsTypeOK, KernelTypeOK
  <2>3. CASE dropping
    BY <2>1, <2>3, ReturnType DEF Results
  <2>4. CASE ~dropping
    BY <2>1, <2>2, <2>4 DEF LocalsTypeOK
  <2> QED BY <2>3, <2>4
<1>15. CASE ReadNothing
  BY <1>15, ReturnType DEF ReadNothing, Results
<1>16. CASE ReadFails
  BY <1>16, ReturnType DEF ReadFails, Results
<1>17. CASE Charge
  BY <1>17, ReturnType, GotoType DEF Charge, Results
<1>18. CASE PostOutput
  BY <1>18, ReturnType DEF PostOutput, Results
<1>19. CASE PostOutputFails
  BY <1>19, ReturnType DEF PostOutputFails, Results
<1>20. CASE ReturnToLoop
  <2>1. CASE EndsLoop \/ caller = "hup"
    BY <1>20, <2>1, LeaveType DEF ReturnToLoop
  <2>2. CASE ~EndsLoop /\ caller = "in"
    BY <1>20, <2>2, GotoType DEF ReturnToLoop
  <2>3. CASE ~EndsLoop /\ caller = "exit"
    BY <1>20, <2>3 DEF ReturnToLoop, LocalsTypeOK, Results
  <2> QED BY <2>1, <2>2, <2>3 DEF LocalsTypeOK
<1>21. CASE DoneOutput
  BY <1>21, GotoType DEF DoneOutput
<1>22. CASE DoneInput
  BY <1>22, GotoType DEF DoneInput
<1>23. CASE DoneExit
  BY <1>23, GotoType DEF DoneExit
<1>24. CASE Waiter
  BY SameLocalsType, <1>24 DEF Waiter, WaiterReadsExit, WaiterRecordsExit, WaiterWakesReactor,
         WaiterPostsExit
<1>25. CASE Closer
  BY SameLocalsType, <1>25 DEF Closer, CloserStops, CloserKills, CloserWakesReactor
<1>26. CASE Owner
  BY SameLocalsType, <1>26 DEF Owner, Ack, DiscardOutput, TryWrite, OwnerWakesReactor, Pause,
         Resume, Cancel, OwnerCloses, PortCloses, FinalizerAbandons
<1>27. CASE Environment
  BY SameLocalsType, <1>27 DEF Environment, ProgramPrints, ProgramExits, DescendantExits,
         ProgramReadsInput
<1> QED BY <1>1, <1>2, <1>3, <1>4, <1>5, <1>6, <1>7, <1>8, <1>9, <1>10, <1>11,
          <1>12, <1>13, <1>14, <1>15, <1>16, <1>17, <1>18, <1>19, <1>20,
          <1>21, <1>22, <1>23, <1>24, <1>25, <1>26, <1>27 DEF Next, Reactor,
          Waiter, Closer, Owner, Environment

\* The isolate's state keeps its type; a chunk's end is a byte position.
LEMMA DartTypeStep ==
  ASSUME TypeOK, Next PROVE DartTypeOK'
<1> USE DEF TypeOK, DartTypeOK, dartVars, loopFrame, LocalsTypeOK, SetConsumer
<1>1. CASE Top \/ Poll \/ PollFails \/ DrainWakePipe \/ CheckStopping \/
             CheckExit
  BY <1>1 DEF Top, Poll, PollFails, DrainWakePipe, CheckStopping, CheckExit
<1>2. CASE SkipFlush \/ Flush \/ FlushFails \/ In \/ Hup \/ NoHup
  BY <1>2 DEF SkipFlush, Flush, FlushFails, In, Hup, NoHup
<1>3. CASE ReadStart \/ ReadData \/ ReadNothing \/ ReadFails
  BY <1>3 DEF ReadStart, ReadData, ReadNothing, ReadFails
<1>4. CASE Charge
  BY <1>4 DEF Charge
<1>5. CASE PostOutput
  BY <1>5 DEF PostOutput
<1>6. CASE PostOutputFails
  BY <1>6 DEF PostOutputFails
<1>7. CASE ReturnToLoop
  BY <1>7 DEF ReturnToLoop
<1>8. CASE DoneOutput \/ DoneInput \/ DoneExit
  BY <1>8 DEF DoneOutput, DoneInput, DoneExit
<1>9. CASE Waiter
  BY <1>9 DEF Waiter, WaiterReadsExit, WaiterRecordsExit, WaiterWakesReactor,
         WaiterPostsExit
<1>10. CASE Closer
  BY <1>10 DEF Closer, CloserStops, CloserKills, CloserWakesReactor
<1>11. CASE Owner
  BY <1>11 DEF Owner, Ack, DiscardOutput, TryWrite, OwnerWakesReactor, Pause,
         Resume, Cancel, OwnerCloses, PortCloses, FinalizerAbandons
<1>12. CASE Environment
  BY <1>12 DEF Environment, ProgramPrints, ProgramExits, DescendantExits,
         ProgramReadsInput
<1> QED BY <1>1, <1>2, <1>3, <1>4, <1>5, <1>6, <1>7, <1>8, <1>9, <1>10, <1>11,
          <1>12 DEF Next, Reactor, Waiter, Closer, Owner, Environment

\* Type correctness is preserved by every step.
LEMMA TypeStep == ASSUME TypeOK, ChunksOK, Next PROVE TypeOK'
  BY KernelTypeStep, SessionTypeStep, PcTypeStep, LocalsTypeStep, DartTypeStep
  DEF TypeOK

-----------------------------------------------------------------------------
(* Every step preserves the rest of the invariant                          *)

SafetyOK ==
  ReadOK /\ ChunksOK /\ CreditConserved /\ BytesOK /\ HangupOK /\ EndOK

\* The rest of the inductive invariant is preserved by every step, action by
\* action.
LEMMA SafetyStep ==
  ASSUME IInv, Next PROVE SafetyOK'
<1> USE DEF IInv, SafetyOK, TypeOK, KernelTypeOK, SessionTypeOK, PcTypeOK,
            LocalsTypeOK, DartTypeOK, Results, ReactorPcs, ReadOK, ChunksOK,
            CreditConserved, Charged, BytesOK, InHand, HangupOK, HungUp,
            Writers, EndOK, Drained, Cut, kernelVars, loopFrame, flagVars,
            dartVars, threadVars, locals, Return, Goto, Leave, CallRead,
            PostSimple, CanPost, BeginClose, MarkInputClosed, Lesser,
            Buffered, SetConsumer
<1>1. CASE Top
  BY <1>1 DEF Top
<1>2. CASE Poll
  BY <1>2 DEF Poll, Ready
<1>3. CASE PollFails
  BY <1>3 DEF PollFails
<1>4. CASE DrainWakePipe
  BY <1>4 DEF DrainWakePipe
<1>5. CASE CheckStopping
  BY <1>5 DEF CheckStopping
<1>6. CASE CheckExit
  BY <1>6 DEF CheckExit, ExitDrainDue
<1>7. CASE SkipFlush
  BY <1>7 DEF SkipFlush
<1>8. CASE Flush
  BY <1>8 DEF Flush
<1>9. CASE FlushFails
  BY <1>9 DEF FlushFails
<1>10. CASE In
  BY <1>10 DEF In
<1>11. CASE Hup
  BY <1>11 DEF Hup
<1>12. CASE NoHup
  BY <1>12 DEF NoHup
<1>13. CASE ReadStart
  BY <1>13, UnixReactorAssumption DEF ReadStart, ReadCapacity
<1>14. CASE ReadData
  BY <1>14 DEF ReadData
<1>15. CASE ReadNothing
  BY <1>15 DEF ReadNothing
<1>16. CASE ReadFails
  BY <1>16 DEF ReadFails
<1>17. CASE Charge
  BY <1>17 DEF Charge, ChargedCredit
<1>18. CASE PostOutput
  BY <1>18 DEF PostOutput
<1>19. CASE PostOutputFails
  <2>1. ReadOK' /\ ChunksOK'
    BY <1>19 DEF PostOutputFails
  <2>2. CreditConserved'
    <3>1. /\ credit' = credit /\ posted' = posted /\ acked' = acked
          /\ rpc = "post" /\ rpc' = "return" /\ abandoned'
      BY <1>19 DEF PostOutputFails
    <3>2. credit + amount + (posted - acked) <= Window /\ acked <= posted
      BY <3>1
    <3>3. Charged' = 0
      BY <3>1
    <3> QED BY <3>1, <3>2, <3>3, UnixReactorAssumption
  <2>3. BytesOK'
    BY <1>19 DEF PostOutputFails
  <2>4. HangupOK' /\ EndOK'
    BY <1>19 DEF PostOutputFails
  <2> QED BY <2>1, <2>2, <2>3, <2>4
<1>20. CASE ReturnToLoop
  BY <1>20 DEF ReturnToLoop, EndsLoop, SlaveAfterRead
<1>21. CASE DoneOutput
  BY <1>21 DEF DoneOutput
<1>22. CASE DoneInput
  BY <1>22 DEF DoneInput
<1>23. CASE DoneExit
  BY <1>23 DEF DoneExit
<1>24. CASE WaiterReadsExit
  BY <1>24 DEF WaiterReadsExit
<1>25. CASE WaiterRecordsExit
  BY <1>25 DEF WaiterRecordsExit
<1>26. CASE WaiterWakesReactor
  BY <1>26 DEF WaiterWakesReactor
<1>27. CASE WaiterPostsExit
  BY <1>27 DEF WaiterPostsExit
<1>28. CASE CloserStops
  BY <1>28 DEF CloserStops
<1>29. CASE CloserKills
  BY <1>29 DEF CloserKills
<1>30. CASE CloserWakesReactor
  BY <1>30 DEF CloserWakesReactor
<1>31. CASE Ack
  BY <1>31, UnixReactorAssumption DEF Ack, CreditAfterAck
<1>32. CASE DiscardOutput
  BY <1>32 DEF DiscardOutput
<1>33. CASE TryWrite
  BY <1>33 DEF TryWrite
<1>34. CASE OwnerWakesReactor
  BY <1>34 DEF OwnerWakesReactor
<1>35. CASE Pause
  BY <1>35 DEF Pause
<1>36. CASE Resume
  BY <1>36 DEF Resume
<1>37. CASE Cancel
  BY <1>37 DEF Cancel
<1>38. CASE OwnerCloses
  BY <1>38 DEF OwnerCloses
<1>39. CASE PortCloses
  BY <1>39 DEF PortCloses
<1>40. CASE FinalizerAbandons
  BY <1>40 DEF FinalizerAbandons
<1>41. CASE ProgramPrints
  BY <1>41 DEF ProgramPrints
<1>42. CASE ProgramExits
  BY <1>42 DEF ProgramExits
<1>43. CASE DescendantExits
  BY <1>43 DEF DescendantExits
<1>44. CASE ProgramReadsInput
  BY <1>44 DEF ProgramReadsInput
<1> QED BY <1>1, <1>2, <1>3, <1>4, <1>5, <1>6, <1>7, <1>8, <1>9, <1>10, <1>11,
          <1>12, <1>13, <1>14, <1>15, <1>16, <1>17, <1>18, <1>19, <1>20,
          <1>21, <1>22, <1>23, <1>24, <1>25, <1>26, <1>27, <1>28, <1>29,
          <1>30, <1>31, <1>32, <1>33, <1>34, <1>35, <1>36, <1>37, <1>38,
          <1>39, <1>40, <1>41, <1>42, <1>43, <1>44 DEF Next, Reactor, Waiter,
          Closer, Owner, Environment

\* The invariant is inductive.
LEMMA NextIInv == IInv /\ [Next]_vars => IInv'
<1>1. ASSUME IInv, Next PROVE IInv'
  BY <1>1, TypeStep, SafetyStep DEF IInv, SafetyOK
<1>2. ASSUME IInv, UNCHANGED vars PROVE IInv'
  <2> USE <1>2 DEF IInv, vars, kernelVars, flagVars, threadVars, locals, dartVars
  <2>1. TypeOK'
    BY DEF TypeOK, KernelTypeOK, SessionTypeOK, PcTypeOK, LocalsTypeOK, DartTypeOK
  <2>2. ReadOK' /\ ChunksOK' /\ CreditConserved' /\ BytesOK'
    BY DEF ReadOK, ChunksOK, CreditConserved, Charged, BytesOK, InHand
  <2>3. HangupOK' /\ EndOK'
    BY DEF HangupOK, HungUp, Writers, EndOK, Drained, Cut
  <2> QED BY <2>1, <2>2, <2>3
<1> QED BY <1>1, <1>2

\* The invariant holds in every reachable state.
LEMMA Invariance == Spec => []IInv
  BY InitIInv, NextIInv, PTL DEF Spec

-----------------------------------------------------------------------------
(* The results                                                             *)

\* The types of the reactor's, the waiter's, the close worker's and the
\* isolate's state, in every reachable state.
THEOREM TypeCorrect == Spec => []TypeOK
<1>1. IInv => TypeOK
  BY DEF IInv
<1> QED BY <1>1, Invariance, PTL

\* The output window is conserved between read_output's charge, its post and
\* pty_session_ack_output: unacknowledged output never exceeds the window,
\* and the clamp of pty_output_credit_after_ack never loses credit.
THEOREM WindowConserved == Spec => []CreditConserved
<1>1. IInv => CreditConserved
  BY DEF IInv
<1> QED BY <1>1, Invariance, PTL

\* OUTPUT_CLOSED on an uncut stream comes after every printed byte, when no
\* process can print any more (reactor_worker's exit drain and hangup paths).
THEOREM EndIsComplete == Spec => []EndMeansDrained
<1>1. IInv => EndMeansDrained
  BY DEF IInv, EndMeansDrained, EndOK, Drained, BytesOK, InHand, Cut, TypeOK,
         KernelTypeOK, DartTypeOK, PcTypeOK
<1> QED BY <1>1, Invariance, PTL

\* The reactor takes a hangup of the terminal for real only after the exit of
\* the program is recorded, because the session holds the slave open.
THEOREM HangupFollowsExit == Spec => []HangupAfterExit
<1>1. IInv => HangupAfterExit
  BY DEF IInv, HangupAfterExit, HangupOK, HungUp
<1> QED BY <1>1, Invariance, PTL

-----------------------------------------------------------------------------
(* The refinement                                                          *)

\* Every step of the reactor's world is a step of the abstract stream, or
\* leaves what the stream sees alone.
LEMMA StreamStep == IInv /\ [Next]_vars => [Stream!Next]_(Stream!vars)
<1> SUFFICES ASSUME IInv, [Next]_vars
             PROVE  Stream!Next \/ UNCHANGED Stream!vars
  OBVIOUS
<1> USE DEF Stream!vars, Writers, Cut, kernelVars, loopFrame, flagVars, dartVars,
            threadVars, SetConsumer
<1>1. CASE UNCHANGED vars
  BY <1>1 DEF vars
<1>2. CASE Top \/ Poll \/ DrainWakePipe \/ CheckStopping \/ CheckExit
  BY <1>2 DEF Top, Poll, DrainWakePipe, CheckStopping, CheckExit
<1>3. CASE SkipFlush \/ Flush \/ FlushFails \/ In \/ Hup \/ NoHup
  BY <1>3 DEF SkipFlush, Flush, FlushFails, In, Hup, NoHup
<1>4. CASE ReadStart \/ ReadData \/ ReadNothing \/ Charge \/ ReturnToLoop
  BY <1>4 DEF ReadStart, ReadData, ReadNothing, Charge, ReturnToLoop
<1>5. CASE DoneInput \/ DoneExit
  BY <1>5 DEF DoneInput, DoneExit
<1>6. CASE Waiter
  BY <1>6 DEF Waiter, WaiterReadsExit, WaiterRecordsExit, WaiterWakesReactor,
              WaiterPostsExit
<1>7. CASE CloserWakesReactor
  BY <1>7 DEF CloserWakesReactor
<1>8. CASE TryWrite \/ OwnerWakesReactor \/ Pause \/ Resume \/ Cancel
  BY <1>8 DEF TryWrite, OwnerWakesReactor, Pause, Resume, Cancel
<1>9. CASE OwnerCloses \/ PortCloses \/ FinalizerAbandons
  BY <1>9 DEF OwnerCloses, PortCloses, FinalizerAbandons
<1>10. CASE ProgramReadsInput
  BY <1>10 DEF ProgramReadsInput
<1>11. CASE ProgramPrints
  <2>1. Stream!ProgramPrints
    BY <1>11 DEF ProgramPrints, Stream!ProgramPrints
  <2> QED BY <2>1 DEF Stream!Next
<1>12. CASE ProgramExits \/ DescendantExits \/ CloserKills
  <2>1. \/ Writers' = Writers
        \/ Writers /\ ~Writers'
    BY <1>12 DEF ProgramExits, DescendantExits, CloserKills, IInv, TypeOK,
                 KernelTypeOK
  <2>2. UNCHANGED <<printed, posted, acked, stopping, discard, ioFailed, outputClosed>>
    BY <1>12 DEF ProgramExits, DescendantExits, CloserKills
  <2>3. Stream!LastWriterLeaves \/ UNCHANGED Stream!vars
    BY <2>1, <2>2 DEF Stream!LastWriterLeaves
  <2> QED BY <2>3 DEF Stream!Next
<1>13. CASE PollFails \/ ReadFails \/ PostOutputFails \/ CloserStops \/ DiscardOutput
  <2>1. Stream!Cut
    BY <1>13 DEF PollFails, ReadFails, PostOutputFails, CloserStops,
                 DiscardOutput, Stream!Cut
  <2> QED BY <2>1 DEF Stream!Next
<1>14. CASE PostOutput
  <2> USE <1>14 DEF PostOutput, IInv
  <2>1. ~outputClosed
    BY DEF EndOK
  <2>2. /\ posted' = posted + amount /\ amount \in Nat /\ amount > 0
        /\ posted \in Nat /\ taken \in Nat /\ printed \in Nat /\ acked \in Nat
        /\ credit \in Nat
    BY DEF ReadOK, TypeOK, LocalsTypeOK, DartTypeOK, KernelTypeOK, SessionTypeOK
  <2>3. posted + amount <= taken /\ taken <= printed
    BY DEF BytesOK, InHand
  <2>4. posted' \in (posted + 1) .. printed
    BY <2>2, <2>3
  <2>5. credit + amount + (posted - acked) <= Window
    BY DEF CreditConserved, Charged
  <2>6. posted' <= acked + Window
    BY <2>2, <2>5, UnixReactorAssumption
  <2>7. UNCHANGED <<printed, Writers, acked, Cut, outputClosed>>
    OBVIOUS
  <2>8. Stream!Deliver
    BY <2>1, <2>4, <2>6, <2>7 DEF Stream!Deliver
  <2> QED BY <2>8 DEF Stream!Next
<1>15. CASE Ack
  <2>1. acked' \in (acked + 1) .. posted
    BY <1>15 DEF Ack, IInv, ChunksOK, TypeOK, DartTypeOK
  <2>2. UNCHANGED <<printed, Writers, posted, Cut, outputClosed>>
    BY <1>15 DEF Ack
  <2>3. Stream!Ack
    BY <2>1, <2>2 DEF Stream!Ack
  <2> QED BY <2>3 DEF Stream!Next
<1>16. CASE DoneOutput
  <2>1. ~outputClosed /\ outputClosed'
    BY <1>16 DEF DoneOutput, IInv, EndOK, TypeOK, SessionTypeOK
  <2>2. Cut \/ (~Writers /\ posted = printed)
    BY <1>16 DEF DoneOutput, IInv, EndOK, Drained, BytesOK, InHand, TypeOK,
                 DartTypeOK, KernelTypeOK
  <2>3. outputClosed' = TRUE /\ UNCHANGED <<printed, Writers, posted, acked, Cut>>
    BY <1>16 DEF DoneOutput
  <2>4. Stream!Close
    BY <2>1, <2>2, <2>3 DEF Stream!Close
  <2> QED BY <2>4 DEF Stream!Next
<1> QED
  BY <1>1, <1>2, <1>3, <1>4, <1>5, <1>6, <1>7, <1>8, <1>9, <1>10, <1>11,
     <1>12, <1>13, <1>14, <1>15, <1>16
  DEF Next, Reactor, Closer, Owner, Environment

\* The session's output half is a windowed byte stream: what the reactor posts
\* and when it announces the end is a behaviour of OutputStream.
THEOREM ReactorImplementsStream == Spec => ImplementsStream
<1>1. Init => Stream!Init
  BY DEF Init, Stream!Init, Writers, Cut
<1>2. IInv /\ [Next]_vars => [Stream!Next]_(Stream!vars)
  BY StreamStep
<1> QED BY <1>1, <1>2, Invariance, PTL DEF Spec, ImplementsStream, Stream!Spec

=============================================================================
