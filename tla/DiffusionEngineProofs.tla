------------------------ MODULE DiffusionEngineProofs ------------------------
(***************************************************************************)
(* Theorems about DiffusionEngine, for every value of its constants: it    *)
(* uses the scheduler only as the scheduler's specification allows, so all *)
(* that holds of the scheduler holds inside the engine, and no caller ever *)
(* receives the result of another call.                                    *)
(***************************************************************************)
EXTENDS DiffusionEngine, DiffusionSchedulerProofs

-----------------------------------------------------------------------------
(* The engine implements the scheduler's specification.                    *)

\* What the engine keeps so that its calls are legal: it aborts, finalizes and
\* fails only known ids and receives of the wave in flight, and a closing
\* thread touches the scheduler only after the busy loop has ended.
LoopInv ==
    /\ inbox \subseteq Request /\ batch \subseteq Request
    /\ resume \in {"wait", "aborts"}
    /\ pc = "finalize" => hand.id \in Request
    /\ pc \in {"prepared", "late"} => late \subseteq out.transfer
    /\ closer \in {"first", "second"} => pc = "exit"

LEMMA LoopInit == EngineInit => LoopInv
BY DEF EngineInit, LoopInv

\* What the engine asks of the scheduler: everything but preemption.
EngineCall ==
    \/ \E r \in Request, s \in Shape : AddRequest(r, s)
    \/ pc = "schedule" /\ ScheduleBegin
    \/ InSchedule \/ Publish
    \/ \E D \in SUBSET arrived : UpdateKvConnectorOutput(D)
    \/ \E T \in SUBSET out.transfer : FailIncompleteKvLoads(T)
    \/ DropEnded
    \/ \E S \in SUBSET Request : FinishRequestList(S, "ABORTED")
    \/ ReleaseKvDrains
    \/ \E result \in [Scheduled -> Status] :
           /\ \A r \in Scheduled : result[r] \in Results(r)
           /\ UpdateFromOutput(result)
    \/ \E r \in Request : PopRequestState(r)
    \/ \E w \in writes : WriteArrives(w)
    \/ Close

\* Every step of the engine is one of these or leaves the scheduler alone.
LEMMA StepIsEngineCall ==
    ASSUME LoopInv, [EngineNext]_allVars
    PROVE  [EngineCall]_vars
<1> USE DEF LoopInv
<1>1. ASSUME NEW r \in Request, NEW s \in Shape, Add(r, s) PROVE [EngineCall]_vars
  BY <1>1 DEF Add, EngineCall
<1>2. ASSUME NEW r \in Request, RequestAbort(r) PROVE [EngineCall]_vars
  BY <1>2 DEF RequestAbort
<1>3. ASSUME NEW i \in Calls, ReaderEnds(i) PROVE [EngineCall]_vars
  BY <1>3 DEF ReaderEnds
<1>4. CASE Closing
  BY <1>4 DEF Closing, CloseStops, CloseBegin, CloseWait, CloseFirst, CloseSecond,
              CloseDrainFails, CloseScheduler, IfAny, EngineCall
<1>5. CASE Arrival
  BY <1>5 DEF Arrival, EngineCall
<1>6. CASE Stopped \/ UNCHANGED allVars
  BY <1>6 DEF Stopped, allVars
<1>7. CASE BusyLoop
  <2>1. CASE LoopStops \/ NoAborts \/ TakeAborts \/ DrainAbortsFails
    BY <2>1 DEF LoopStops, NoAborts, TakeAborts, DrainAbortsFails
  <2>2. CASE ProcessAborts
    BY <2>2 DEF ProcessAborts, Abort, IfAny, EngineCall
  <2>3. CASE DrainAborts
    BY <2>3 DEF DrainAborts, EngineCall
  <2>4. CASE AbortDrained
    BY <2>4 DEF AbortDrained, Abort, IfAny, EngineCall
  <2>5. CASE CollectPending \/ (\E r \in Request : Capture(r)) \/ Put \/ Delivered
             \/ WaitEnds
    BY <2>5 DEF CollectPending, Capture, Put, Delivered, WaitEnds
  <2>6. CASE Finalize
    BY <2>6 DEF Finalize, Goto, EngineCall
  <2>7. CASE CallSchedule \/ ScheduleGoesOn \/ ScheduleReturns \/ ScheduleRaises
    BY <2>7 DEF CallSchedule, ScheduleGoesOn, ScheduleReturns, ScheduleRaises, Goto,
                EngineCall
  <2>8. CASE EmptyWave
    <3> DEFINE result == [r \in {} |-> "ERROR"]
    <3>1. Scheduled = {} /\ UpdateFromOutput(result)
      BY <2>8 DEF EmptyWave, IsEmpty
    <3>2. result \in [Scheduled -> Status] /\ \A r \in Scheduled : result[r] \in Results(r)
      BY <3>1
    <3> HIDE DEF result
    <3> QED BY <3>1, <3>2 DEF EngineCall
  <2>9. CASE StartWave \/ PrepareFails \/ EndDrainsFails \/ Execute \/ ExecuteRaises
             \/ FailBegin \/ FailStop
    BY <2>9 DEF StartWave, PrepareFails, EndDrainsFails, Execute, ExecuteRaises,
                FailBegin, FailStop
  <2>10. CASE Prepare \/ Poll
    BY <2>10 DEF Prepare, Poll, ReportReceives, IfAny, EngineCall
  <2>11. CASE FailLate
    BY <2>11 DEF FailLate, Goto, IfAny, EngineCall
  <2>12. CASE FilterEnded \/ EndDrains
    BY <2>12 DEF FilterEnded, EndDrains, IfAny, EngineCall
  <2>13. CASE Update
    <3>1. PICK result \in [Scheduled -> Status] :
              /\ \A r \in Scheduled :
                     result[r] \in IF ran THEN Results(r) ELSE {"ERROR"}
              /\ UpdateFromOutput(result)
      BY <2>13 DEF Update
    <3>2. \A r \in Scheduled : result[r] \in Results(r)
      BY <3>1 DEF Results
    <3> QED BY <3>1, <3>2 DEF EngineCall
  <2>14. CASE FailClose \/ FailHeld
    BY <2>14 DEF FailClose, FailHeld, CloseScheduler, IfAny, EngineCall
  <2> QED BY <1>7, <2>1, <2>2, <2>3, <2>4, <2>5, <2>6, <2>7, <2>8, <2>9, <2>10,
             <2>11, <2>12, <2>13, <2>14 DEF BusyLoop, ProcessAbortsQueue, PrepareKv
<1> QED BY <1>1, <1>2, <1>3, <1>4, <1>5, <1>6, <1>7 DEF EngineNext

\* So it is a step of the scheduler or leaves the scheduler alone.
LEMMA StepIsSchedulerStep ==
    ASSUME LoopInv, [EngineNext]_allVars
    PROVE  [Next]_vars
BY StepIsEngineCall DEF EngineCall, Next

LEMMA LoopStep ==
    ASSUME LoopInv, [EngineNext]_allVars
    PROVE  LoopInv'
<1> USE DEF LoopInv
<1>1. ASSUME NEW r \in Request, NEW s \in Shape, Add(r, s) PROVE LoopInv'
  BY <1>1 DEF Add, AddRequest, loopVars, downVars, waveVars
<1>2. ASSUME NEW r \in Request, RequestAbort(r) PROVE LoopInv'
  BY <1>2 DEF RequestAbort, loopVars, downVars, vars, waveVars
<1>3. ASSUME NEW i \in Calls, ReaderEnds(i) PROVE LoopInv'
  BY <1>3 DEF ReaderEnds, loopVars, downVars, vars, waveVars
<1>4. CASE Closing
  <2>1. CASE CloseBegin \/ CloseWait
    BY <2>1 DEF CloseBegin, CloseWait, loopVars, apiVars, vars, waveVars
  <2>2. CASE CloseFirst \/ CloseSecond \/ CloseDrainFails
    BY <2>2 DEF CloseFirst, CloseSecond, CloseDrainFails, loopVars, apiVars
  <2> QED BY <1>4, <2>1, <2>2 DEF Closing, CloseStops
<1>5. CASE Arrival
  BY <1>5 DEF Arrival, WriteArrives, waveVars, engineVars, loopVars, apiVars, downVars
<1>6. CASE Stopped \/ UNCHANGED allVars
  BY <1>6 DEF Stopped, allVars, engineVars, loopVars, apiVars, downVars, vars, waveVars
<1>7. CASE BusyLoop
  <2>1. CASE LoopStops \/ NoAborts \/ TakeAborts \/ DrainAbortsFails
    BY <2>1 DEF LoopStops, NoAborts, TakeAborts, DrainAbortsFails, Goto, AbortSite,
                Next4, apiVars, downVars, vars, waveVars
  <2>2. CASE ProcessAborts \/ AbortDrained
    <3>1. out' = out
      BY <2>2 DEF ProcessAborts, AbortDrained, Abort, IfAny, FinishRequestList,
                  vars, waveVars
    <3> QED BY <2>2, <3>1 DEF ProcessAborts, AbortDrained, GotoOrFailHeld, AbortSite,
                Next4, apiVars, downVars
  <2>3. CASE DrainAborts
    BY <2>3 DEF DrainAborts, UpdateKvConnectorOutput, engineVars, loopVars, apiVars,
                downVars, waveVars
  <2>4. CASE CollectPending \/ (\E r \in Request : Capture(r)) \/ Put \/ Delivered
             \/ WaitEnds \/ Finalize
    BY <2>4 DEF CollectPending, Capture, Put, Delivered, WaitEnds, Finalize, Goto,
                GotoOrFail, Empty, apiVars, downVars
  <2>5. CASE CallSchedule \/ ScheduleGoesOn \/ ScheduleReturns \/ ScheduleRaises
    BY <2>5 DEF CallSchedule, ScheduleGoesOn, ScheduleReturns, ScheduleRaises,
                Goto, engineVars, loopVars, apiVars, downVars
  <2>6. CASE Prepare
    BY <2>6 DEF Prepare, Goto, ReportReceives, IfAny, UpdateKvConnectorOutput,
                AwaitedRows, vars, waveVars, apiVars, downVars
  <2>7. CASE EmptyWave \/ StartWave \/ PrepareFails \/ FailLate \/ FilterEnded
             \/ EndDrains \/ EndDrainsFails
    BY <2>7 DEF EmptyWave, StartWave, PrepareFails, FailLate, FilterEnded, EndDrains,
                EndDrainsFails, Goto, GotoOrFail, apiVars, downVars
  <2>8. CASE Execute \/ ExecuteRaises \/ Poll \/ Update
    BY <2>8 DEF Execute, ExecuteRaises, Poll, Update, Goto, GotoOrFail, apiVars, downVars
  <2>9. CASE FailBegin \/ FailStop \/ FailClose \/ FailHeld
    BY <2>9 DEF FailBegin, FailStop, FailClose, FailHeld, Goto, apiVars
  <2> QED BY <1>7, <2>1, <2>2, <2>3, <2>4, <2>5, <2>6, <2>7, <2>8, <2>9
          DEF BusyLoop, ProcessAbortsQueue, PrepareKv
<1> QED BY <1>1, <1>2, <1>3, <1>4, <1>5, <1>6, <1>7 DEF EngineNext

\* The busy loop, the callers' threads and the two ways of stopping only do to
\* the scheduler what its own specification allows any client to do.
THEOREM EngineImplementsScheduler == EngineSafe => Spec
<1>1. EngineInit => Init /\ LoopInv
  BY LoopInit DEF EngineInit
<1>2. LoopInv /\ [EngineNext]_allVars => LoopInv' /\ [Next]_vars
  BY LoopStep, StepIsSchedulerStep
<1> QED BY <1>1, <1>2, PTL DEF EngineSafe, Spec

\* Inside the engine, too, no sender writes a page that has another owner.
THEOREM EngineWritesStayOwned == EngineSafe => []WritesOwned
BY EngineImplementsScheduler, WritesStayOwned, PTL

-----------------------------------------------------------------------------
(* Every output goes to the call that asked for it.                        *)

\* The i-th call is the last one that used the id r.
IsLast(i, r) == i \in 1 .. adds /\ caller[i] = r
                /\ \A j \in i + 1 .. adds : caller[j] # r

\* A known id has a last call, and a registered stream is that call's.  While
\* finished requests are delivered they stay known, each until its own turn,
\* so the stream that Capture read is still the one of the request that
\* Finalize removes.
CallInv ==
    /\ adds <= MaxAdds
    /\ \A r \in states : \E i \in Calls : IsLast(i, r)
    /\ \A r \in Request : streams[r] # 0 => IsLast(streams[r], r)
    /\ pc \in {"emit", "finalize", "put"} => todo \subseteq states
    /\ pc = "finalize" =>
           /\ hand.id \in states \ todo
           /\ hand.stream # 0 => IsLast(hand.stream, hand.id)
    /\ pc = "put" => hand.stream \in {0, hand.of}
    /\ StreamIsOwn

EngineInv == EngineTypeOK /\ CallInv

LEMMA LastIsUnique ==
    ASSUME TypeOK, NEW r, NEW i, NEW j, IsLast(i, r), IsLast(j, r)
    PROVE  i = j
<1>1. i \in Int /\ j \in Int /\ adds \in Int /\ i <= adds /\ j <= adds
  BY DEF IsLast, TypeOK
<1>2. CASE i < j
  BY <1>1, <1>2 DEF IsLast
<1>3. CASE j < i
  BY <1>1, <1>3 DEF IsLast
<1> QED BY <1>1, <1>2, <1>3

LEMMA LastIsCallOf ==
    ASSUME TypeOK, NEW r, NEW i, IsLast(i, r)
    PROVE  CallOf(r) = i
<1>1. \A j \in 1 .. adds :
          (caller[j] = r /\ \A k \in j + 1 .. adds : caller[k] # r) => j = i
  BY LastIsUnique DEF IsLast
<1>2. /\ i \in 1 .. adds
      /\ caller[i] = r /\ \A k \in i + 1 .. adds : caller[k] # r
  BY DEF IsLast
<1> QED BY <1>1, <1>2 DEF CallOf

\* Where the busy loop is when a known id may be forgotten.
Forgetting == {"finalize", "fail_close", "failing_held", "exit"}

\* Only add_request adds calls and makes ids known.
LEMMA SchedulerIsQuiet ==
    ASSUME LoopInv, BusyLoop \/ Closing \/ Arrival
    PROVE  /\ adds' = adds /\ states' \subseteq states
           /\ pc \notin Forgetting => states' = states
<1> USE DEF requestVars, Forgetting
<1>1. ASSUME NEW S, FinishRequestList(S, "ABORTED") PROVE adds' = adds /\ states' = states
  BY <1>1 DEF FinishRequestList
<1>2. ASSUME NEW D, UpdateKvConnectorOutput(D) PROVE adds' = adds /\ states' = states
  BY <1>2 DEF UpdateKvConnectorOutput
<1>3. ASSUME NEW result, UpdateFromOutput(result) PROVE adds' = adds /\ states' = states
  BY <1>3 DEF UpdateFromOutput
<1>4. ASSUME NEW T, FailIncompleteKvLoads(T) PROVE adds' = adds /\ states' = states
  BY <1>4 DEF FailIncompleteKvLoads
<1>5. ASSUME ScheduleBegin \/ ScheduleEnd \/ PrefetchSkip \/ Publish
             \/ DropEnded \/ ReleaseKvDrains
      PROVE  adds' = adds /\ states' = states
  BY <1>5 DEF ScheduleBegin, ScheduleEnd, PrefetchSkip, Publish, DropEnded,
              ReleaseKvDrains
<1>6. ASSUME NEW r \in Request, Admission(r) PROVE adds' = adds /\ states' = states
  BY <1>6 DEF Admission, AdmitDefer, AdmitReserved, AdmitTooLarge, AdmitNew,
              AdmitUnregistered
<1>7. ASSUME NEW r \in Request, NativePrefetch(r) PROVE adds' = adds /\ states' = states
  BY <1>7 DEF NativePrefetch, PrefetchStart, PrefetchUnregistered
<1>8. ASSUME NEW r, PopRequestState(r) PROVE adds' = adds /\ states' \subseteq states
  BY <1>8 DEF PopRequestState
<1>9. ASSUME CloseScheduler PROVE adds' = adds /\ states' \subseteq states
  BY <1>9 DEF CloseScheduler, IfAny, Close, vars
<1>10. ASSUME NEW w, WriteArrives(w) PROVE adds' = adds /\ states' = states
  BY <1>10 DEF WriteArrives
<1>11. ASSUME UNCHANGED vars PROVE adds' = adds /\ states' = states
  BY <1>11 DEF vars
<1>12. CASE Arrival
  BY <1>12, <1>10 DEF Arrival
<1>13. CASE Closing
  BY <1>13, <1>9, <1>11 DEF Closing, CloseStops, CloseBegin, CloseWait, CloseFirst,
                            CloseSecond, CloseDrainFails, LoopInv
<1>14. CASE BusyLoop
  <2>1. CASE LoopStops \/ NoAborts \/ TakeAborts \/ DrainAbortsFails
    BY <2>1, <1>11 DEF LoopStops, NoAborts, TakeAborts, DrainAbortsFails
  <2>2. CASE ProcessAborts \/ AbortDrained \/ DrainAborts
    BY <2>2, <1>1, <1>2, <1>11 DEF ProcessAborts, AbortDrained, DrainAborts, Abort, IfAny
  <2>3. CASE CollectPending \/ (\E r \in Request : Capture(r)) \/ Put \/ Delivered
             \/ WaitEnds \/ Finalize
    BY <2>3, <1>8, <1>11 DEF CollectPending, Capture, Put, Delivered, WaitEnds, Finalize,
                               Goto
  <2>4. CASE CallSchedule \/ ScheduleGoesOn \/ ScheduleReturns \/ ScheduleRaises
    BY <2>4, <1>5, <1>6, <1>7, <1>11 DEF CallSchedule, ScheduleGoesOn, InSchedule,
                                         ScheduleReturns, ScheduleRaises
  <2>5. CASE EmptyWave \/ StartWave \/ Prepare \/ PrepareFails \/ FailLate
             \/ FilterEnded \/ EndDrains \/ EndDrainsFails
    BY <2>5, <1>2, <1>3, <1>4, <1>5, <1>11
       DEF EmptyWave, StartWave, Prepare, PrepareFails, FailLate, FilterEnded,
           EndDrains, EndDrainsFails, ReportReceives, IfAny
  <2>6. CASE Execute \/ ExecuteRaises \/ Poll \/ Update
    BY <2>6, <1>2, <1>3, <1>11 DEF Execute, ExecuteRaises, Poll, Update,
                                   ReportReceives, IfAny
  <2>7. CASE FailBegin \/ FailStop \/ FailClose \/ FailHeld
    BY <2>7, <1>9, <1>11 DEF FailBegin, FailStop, FailClose, FailHeld, Goto
  <2> QED BY <1>14, <2>1, <2>2, <2>3, <2>4, <2>5, <2>6, <2>7
          DEF BusyLoop, ProcessAbortsQueue, PrepareKv
<1> QED BY <1>12, <1>13, <1>14

LEMMA EngineInvInit == EngineInit => EngineInv
<1> SUFFICES ASSUME EngineInit PROVE EngineInv
  OBVIOUS
<1>1. EngineTypeOK
  BY ConstantsAssumption DEF EngineInit, EngineTypeOK, Empty, AbortSite
<1>2. CallInv
  BY ConstantsAssumption, <1>1 DEF EngineInit, Init, CallInv, StreamIsOwn
<1> QED BY <1>1, <1>2 DEF EngineInv

LEMMA TellType ==
    ASSUME NEW told, EngineTypeOK, Tell(told)
    PROVE  reader' \in [Calls -> {"none", "open", "answered", "misled", "ended"}]
BY DEF Tell, EngineTypeOK

LEMMA EngineTypeStep ==
    ASSUME EngineInv, LoopInv, TypeOK, TypeOK', [EngineNext]_allVars
    PROVE  EngineTypeOK'
<1> USE ConstantsAssumption DEF EngineTypeOK, AbortSite, Calls
<1>a. EngineTypeOK
  BY DEF EngineInv
<1>1. ASSUME NEW r \in Request, NEW s \in Shape, Add(r, s) PROVE EngineTypeOK'
  <2>1. adds + 1 \in Calls
    BY <1>1 DEF Add, AddRequest, TypeOK
  <2> QED BY <1>1, <1>a, <2>1 DEF Add, loopVars, downVars
<1>2. ASSUME NEW r \in Request, RequestAbort(r) PROVE EngineTypeOK'
  BY <1>2, <1>a DEF RequestAbort, loopVars, downVars
<1>3. ASSUME NEW i \in Calls, ReaderEnds(i) PROVE EngineTypeOK'
  <2>1. reader' \in [Calls -> {"none", "open", "answered", "misled", "ended"}]
    BY <1>3, <1>a DEF ReaderEnds
  <2>2. streams' \in [Request -> Calls \cup {0}]
    BY <1>3, <1>a DEF ReaderEnds
  <2> QED BY <1>3, <1>a, <2>1, <2>2 DEF ReaderEnds, loopVars, downVars
<1>4. CASE Closing
  <2>1. CASE CloseBegin
    <3>1. reader' \in [Calls -> {"none", "open", "answered", "misled", "ended"}]
      BY <2>1, <1>a, TellType DEF CloseBegin
    <3> QED BY <2>1, <1>a, <3>1 DEF CloseBegin, loopVars
  <2>2. CASE CloseWait
    BY <2>2, <1>a DEF CloseWait, loopVars, apiVars
  <2>3. CASE CloseFirst
    BY <2>3, <1>a DEF CloseFirst, StopExecutor, loopVars, apiVars
  <2>4. CASE CloseSecond
    BY <2>4, <1>a DEF CloseSecond, StopExecutor, loopVars, apiVars
  <2>5. CASE CloseDrainFails
    BY <2>5, <1>a DEF CloseDrainFails, StopExecutor, loopVars, apiVars
  <2> QED BY <1>4, <2>1, <2>2, <2>3, <2>4, <2>5 DEF Closing, CloseStops
<1>5. CASE Arrival
  BY <1>5, <1>a DEF Arrival, engineVars, loopVars, apiVars, downVars
<1>6. CASE Stopped \/ UNCHANGED allVars
  BY <1>6, <1>a DEF Stopped, allVars, engineVars, loopVars, apiVars, downVars
<1>7. CASE BusyLoop
  <2>1. CASE LoopStops \/ NoAborts \/ TakeAborts \/ DrainAbortsFails
    BY <2>1, <1>a DEF LoopStops, NoAborts, TakeAborts, DrainAbortsFails, Goto,
                Next4, apiVars, downVars
  <2>2. CASE ProcessAborts \/ AbortDrained
    BY <2>2, <1>a DEF ProcessAborts, AbortDrained, GotoOrFailHeld, Next4, apiVars, downVars
  <2>3. CASE DrainAborts \/ ScheduleGoesOn
    BY <2>3, <1>a DEF DrainAborts, ScheduleGoesOn, engineVars, loopVars, apiVars, downVars
  <2>4. CASE CollectPending
    <3>1. todo' \subseteq Request
      BY <2>4 DEF CollectPending, ToDeliver, PendingFinished, TypeOK
    <3> QED BY <2>4, <1>a, <3>1 DEF CollectPending, GotoOrFail, apiVars, downVars
  <2>5. ASSUME NEW r \in Request, Capture(r) PROVE EngineTypeOK'
    BY <2>5, <1>a DEF Capture, Empty, Goto, apiVars, downVars
  <2>6. CASE Finalize
    <3>1. hand.id \in states
      BY <2>6 DEF Finalize, Goto, EngineInv, CallInv
    <3>2. CallOf(hand.id) \in Calls
      BY <3>1, LastIsCallOf DEF EngineInv, CallInv
    <3> QED BY <2>6, <1>a, <3>2 DEF Finalize, Goto, apiVars, downVars
  <2>7. CASE Put
    <3>1. reader' \in [Calls -> {"none", "open", "answered", "misled", "ended"}]
      <4>1. reader \in [Calls -> {"none", "open", "answered", "misled", "ended"}]
        BY <1>a
      <4>2. CASE Tell({CapturedStream})
        BY <1>a, <4>2, TellType
      <4>3. CASE reader' = [reader EXCEPT ![CapturedStream] =
                               IF @ = "open" THEN "misled" ELSE @]
        BY ONLY <4>1, <4>3
      <4> QED BY <2>7, <4>2, <4>3 DEF Put
    <3> QED BY <2>7, <1>a, <3>1 DEF Put, Empty, Goto, downVars
  <2>8. CASE Delivered \/ WaitEnds \/ CallSchedule \/ ScheduleReturns \/ ScheduleRaises
    BY <2>8, <1>a DEF Delivered, WaitEnds, CallSchedule, ScheduleReturns,
                      ScheduleRaises, Goto, apiVars, downVars
  <2>9. CASE EmptyWave \/ Update
    <3>1. surfaced' \subseteq Request
      BY DEF TypeOK
    <3>2. /\ UNCHANGED <<hand, late, batch, apiVars, downVars>>
          /\ todo' = surfaced' /\ resume' = "aborts" /\ ran' \in {ran, TRUE}
          /\ pc' \in {"emit", "failing"}
      BY <2>9 DEF EmptyWave, Update, GotoOrFail
    <3>3. ran' \in BOOLEAN
      BY <3>2, <1>a
    <3> QED BY <1>a, <3>1, <3>2, <3>3 DEF apiVars, downVars
  <2>10. CASE Prepare
    <3>1. late' \subseteq Rows
      BY <2>10 DEF Prepare, AwaitedRows, TypeOK, Output
    <3> QED BY <2>10, <1>a, <3>1 DEF Prepare, Goto, apiVars, downVars
  <2>11. CASE StartWave \/ PrepareFails \/ FailLate \/ FilterEnded \/ EndDrains
              \/ EndDrainsFails \/ Execute \/ ExecuteRaises \/ Poll
    <3>1. /\ UNCHANGED <<resume, todo, hand, batch, apiVars, downVars>>
          /\ late' \in {late, {}} /\ ran' \in {ran, TRUE, FALSE}
          /\ pc' \in {"execute", "prepare", "failing", "filter", "drains", "poll",
                     "executed", "exit", "polled"}
      BY <2>11 DEF StartWave, PrepareFails, FailLate, FilterEnded, EndDrains,
         EndDrainsFails, Execute, ExecuteRaises, Poll, Goto
    <3>2. pc' \in AbortSite \cup {"execute", "prepare", "failing", "filter", "drains",
                                  "poll", "exit"}
      BY <3>1
    <3>3. late' \subseteq Rows /\ ran' \in BOOLEAN
      BY <3>1, <1>a
    <3> QED BY <1>a, <3>1, <3>2, <3>3 DEF apiVars, downVars
  <2>12. CASE FailBegin \/ FailHeld
    <3>1. reader' \in [Calls -> {"none", "open", "answered", "misled", "ended"}]
      BY <2>12, <1>a, TellType DEF FailBegin, FailHeld
    <3>2. /\ UNCHANGED <<resume, todo, hand, late, ran, batch, inbox, caller, streams,
                        closer>>
          /\ stops' \in {stops, stops + 1} /\ pc' \in {"fail_stop", "exit"}
          /\ shutting_down' = TRUE /\ closed' = TRUE /\ complete' \in {complete, TRUE}
      BY <2>12 DEF FailBegin, FailHeld, Goto, StopExecutor
    <3>3. stops' \in Nat
      BY <3>2, <1>a
    <3>4. complete' \in BOOLEAN
      BY <3>2, <1>a
    <3> QED BY <1>a, <3>1, <3>2, <3>3, <3>4
  <2>13. CASE FailStop \/ FailClose
    <3>1. /\ UNCHANGED <<resume, todo, hand, late, ran, batch, apiVars, closed,
                        shutting_down, closer>>
          /\ stops' \in {stops, stops + 1} /\ pc' \in {"fail_close", "exit"}
          /\ complete' \in {complete, TRUE}
      BY <2>13 DEF FailStop, FailClose, Goto, StopExecutor
    <3>2. stops' \in Nat
      BY <3>1, <1>a
    <3>3. complete' \in BOOLEAN
      BY <3>1, <1>a
    <3> QED BY <1>a, <3>1, <3>2, <3>3 DEF apiVars
  <2> QED BY <1>7, <2>1, <2>2, <2>3, <2>4, <2>5, <2>6, <2>7, <2>8, <2>9, <2>10,
             <2>11, <2>12, <2>13 DEF BusyLoop, ProcessAbortsQueue, PrepareKv
<1> QED BY <1>1, <1>2, <1>3, <1>4, <1>5, <1>6, <1>7 DEF EngineNext

\* What a step that adds no call has to show.
LEMMA CallFrame ==
    ASSUME EngineInv, adds' = adds, caller' = caller, states' \subseteq states,
           \A r \in Request : streams'[r] \in {0, streams[r]},
           \A i \in Calls : reader'[i] = "misled" => reader[i] = "misled",
           pc' \in {"emit", "finalize", "put"} => todo' \subseteq states',
           pc' = "finalize" => /\ pc = "finalize" /\ hand' = hand
                               /\ states' = states /\ todo' = todo,
           pc' = "put" => hand'.stream \in {0, hand'.of}
    PROVE  CallInv'
<1>1. \A i, r : IsLast(i, r)' <=> IsLast(i, r)
  BY DEF IsLast
<1>2. /\ adds' <= MaxAdds
      /\ (\A r \in states : \E i \in Calls : IsLast(i, r))'
      /\ (\A r \in Request : streams[r] # 0 => IsLast(streams[r], r))'
  BY <1>1 DEF EngineInv, CallInv, Calls
<1>3. (pc = "finalize" => /\ hand.id \in states \ todo
                          /\ hand.stream # 0 => IsLast(hand.stream, hand.id))'
  BY <1>1 DEF EngineInv, CallInv
<1>4. StreamIsOwn'
  BY DEF EngineInv, CallInv, StreamIsOwn, Calls
<1> QED BY <1>2, <1>3, <1>4 DEF CallInv

\* A new call is the last one of its id; no other id is affected.
LEMMA AddKeepsCalls ==
    ASSUME EngineInv, TypeOK, NEW r \in Request, NEW s \in Shape, Add(r, s)
    PROVE  CallInv'
<1>1. /\ r \notin states /\ adds < MaxAdds
      /\ adds' = adds + 1 /\ states' = states \cup {r}
      /\ caller' = [caller EXCEPT ![adds + 1] = r]
      /\ streams' = [streams EXCEPT ![r] = adds + 1]
      /\ reader' = [reader EXCEPT ![adds + 1] = "open"]
      /\ UNCHANGED <<pc, hand, todo>>
  BY DEF Add, AddRequest, Admissible, loopVars
<1>2. /\ adds \in Nat /\ MaxAdds \in Nat /\ adds + 1 \in Calls
      /\ caller \in [Calls -> Request \cup {NoRequest}]
      /\ streams \in [Request -> Calls \cup {0}]
      /\ reader \in [Calls -> {"none", "open", "answered", "misled", "ended"}]
  BY <1>1, ConstantsAssumption DEF TypeOK, EngineInv, EngineTypeOK, Calls
<1>n. PICK n \in Calls : n = adds + 1
  BY <1>2
<1>3. IsLast(n, r)'
  <2>1. n \in (1 .. adds)' /\ caller'[n] = r
    BY <1>1, <1>2, <1>n
  <2>2. (n + 1 .. adds)' = {}
    BY <1>1, <1>2, <1>n
  <2> QED BY <2>1, <2>2 DEF IsLast
<1>4. ASSUME NEW x, NEW i, x # r, IsLast(i, x) PROVE IsLast(i, x)'
  <2>1. i \in 1 .. adds /\ caller[i] = x /\ \A j \in i + 1 .. adds : caller[j] # x
    BY <1>4 DEF IsLast
  <2>2. i \in (1 .. adds)' /\ caller'[i] = x
    BY <2>1, <1>1, <1>2, <1>4 DEF Calls
  <2>3. ASSUME NEW j \in (i + 1 .. adds)' PROVE caller'[j] # x
    BY <2>1, <1>1, <1>2, <1>4 DEF Calls
  <2> QED BY <2>2, <2>3 DEF IsLast
<1>5. (\A x \in states : \E i \in Calls : IsLast(i, x))'
  BY <1>1, <1>2, <1>3, <1>4 DEF EngineInv, CallInv, Calls
<1>6. (\A x \in Request : streams[x] # 0 => IsLast(streams[x], x))'
  <2>1. ASSUME NEW x \in Request, streams'[x] # 0 PROVE IsLast(streams[x], x)'
    <3>1. CASE x = r
      <4>1. streams'[x] = n
        BY <3>1, <1>1, <1>2, <1>n
      <4> QED BY <3>1, <4>1, <1>3 DEF IsLast
    <3>2. CASE x # r
      <4>1. streams'[x] = streams[x] /\ IsLast(streams[x], x)
        BY <2>1, <3>2, <1>1, <1>2 DEF EngineInv, CallInv
      <4>2. PICK i : i = streams[x]
        OBVIOUS
      <4>3. IsLast(i, x)'
        BY <4>1, <4>2, <3>2, <1>4
      <4> QED BY <4>1, <4>2, <4>3 DEF IsLast
    <3> QED BY <3>1, <3>2
  <2> QED BY <2>1
<1>7. (pc \in {"emit", "finalize", "put"} => todo \subseteq states)'
  BY <1>1 DEF EngineInv, CallInv
<1>8. (pc = "finalize" => /\ hand.id \in states \ todo
                          /\ hand.stream # 0 => IsLast(hand.stream, hand.id))'
  BY <1>1, <1>4 DEF EngineInv, CallInv
<1>9. (pc = "put" => hand.stream \in {0, hand.of})' /\ StreamIsOwn'
  BY <1>1, <1>2 DEF EngineInv, CallInv, StreamIsOwn, Calls
<1>10. adds' <= MaxAdds
  BY <1>1, <1>2
<1> QED BY <1>5, <1>6, <1>7, <1>8, <1>9, <1>10 DEF CallInv

LEMMA CallStep ==
    ASSUME EngineInv, LoopInv, TypeOK, TypeOK', SurfacedIsFinished',
           [EngineNext]_allVars
    PROVE  CallInv'
<1>a. /\ streams \in [Request -> Calls \cup {0}]
      /\ reader \in [Calls -> {"none", "open", "answered", "misled", "ended"}]
  BY DEF EngineInv, EngineTypeOK
<1>b. /\ pc \in {"emit", "finalize", "put"} => todo \subseteq states
      /\ pc = "put" => hand.stream \in {0, hand.of}
  BY DEF EngineInv, CallInv
<1>c. ASSUME NEW told, Tell(told)
      PROVE  \A i \in Calls : reader'[i] = "misled" => reader[i] = "misled"
  BY <1>a, <1>c DEF Tell
<1>1. ASSUME NEW r \in Request, NEW s \in Shape, Add(r, s) PROVE CallInv'
  BY <1>1, AddKeepsCalls
<1>2. ASSUME NEW r \in Request, RequestAbort(r) PROVE CallInv'
  BY <1>2, <1>b, CallFrame DEF RequestAbort, vars, requestVars, loopVars
<1>3. ASSUME NEW i \in Calls, ReaderEnds(i) PROVE CallInv'
  <2>1. \A r \in Request : streams'[r] \in {0, streams[r]}
    BY <1>3, <1>a DEF ReaderEnds
  <2>2. \A j \in Calls : reader'[j] = "misled" => reader[j] = "misled"
    BY <1>3, <1>a DEF ReaderEnds
  <2>3. UNCHANGED <<adds, caller, states, pc, todo, hand>>
    BY <1>3 DEF ReaderEnds, vars, requestVars, loopVars
  <2> QED BY <2>1, <2>2, <2>3, <1>b, CallFrame
<1>4. CASE Closing
  <2>1. CASE CloseBegin
    <3>1. UNCHANGED <<adds, caller, states, pc, todo, hand>>
      BY <2>1 DEF CloseBegin, vars, requestVars, loopVars
    <3>2. \A r \in Request : streams'[r] \in {0, streams[r]}
      BY <2>1 DEF CloseBegin
    <3>3. \A i \in Calls : reader'[i] = "misled" => reader[i] = "misled"
      BY <2>1, <1>c DEF CloseBegin
    <3> QED BY <3>1, <3>2, <3>3, <1>b, CallFrame
  <2>2. CASE CloseWait
    BY <2>2, <1>b, CallFrame DEF CloseWait, vars, requestVars, loopVars, apiVars
  <2>3. CASE CloseFirst \/ CloseSecond \/ CloseDrainFails
    <3>1. pc = "exit" /\ UNCHANGED <<loopVars, apiVars>>
      BY <2>3 DEF CloseFirst, CloseSecond, CloseDrainFails, LoopInv
    <3> QED BY <1>4, <3>1, SchedulerIsQuiet, CallFrame DEF loopVars, apiVars
  <2> QED BY <1>4, <2>1, <2>2, <2>3 DEF Closing, CloseStops
<1>5. CASE Arrival
  <2>1. UNCHANGED <<adds, states, engineVars>>
    BY <1>5 DEF Arrival, WriteArrives, requestVars
  <2> QED BY <2>1, <1>b, CallFrame DEF engineVars, loopVars, apiVars
<1>6. CASE Stopped \/ UNCHANGED allVars
  BY <1>6, <1>b, CallFrame
     DEF Stopped, allVars, vars, requestVars, engineVars, loopVars, apiVars
<1>7. CASE BusyLoop
  <2>0. adds' = adds /\ states' \subseteq states
    BY <1>7, SchedulerIsQuiet
  <2>1. CASE LoopStops \/ NoAborts \/ TakeAborts \/ DrainAbortsFails
             \/ ProcessAborts \/ AbortDrained
    <3>1. pc' \notin {"emit", "finalize", "put"} /\ UNCHANGED <<caller, reader, streams>>
      BY <2>1 DEF LoopStops, NoAborts, TakeAborts, DrainAbortsFails, ProcessAborts,
         AbortDrained, Goto, GotoOrFailHeld, AbortSite, Next4, apiVars
    <3> QED BY <3>1, <2>0, CallFrame
  <2>2. CASE DrainAborts \/ ScheduleGoesOn
    <3>1. pc \notin {"emit", "finalize", "put"} /\ UNCHANGED <<loopVars, apiVars>>
      BY <2>2 DEF DrainAborts, ScheduleGoesOn, AbortSite, engineVars
    <3> QED BY <3>1, <2>0, CallFrame DEF loopVars, apiVars
  <2>3. CASE CollectPending
    <3>1. /\ todo' \subseteq states' /\ pc' \in {"emit", "failing"}
          /\ UNCHANGED <<caller, reader, streams>>
      BY <2>3 DEF CollectPending, ToDeliver, PendingFinished, GotoOrFail, vars,
                  requestVars, apiVars
    <3> QED BY <3>1, <2>0, CallFrame
  <2>4. ASSUME NEW r \in Request, Capture(r) PROVE CallInv'
    <3>1. /\ pc' = "finalize" /\ r \in todo /\ todo' = todo \ {r}
          /\ hand'.id = r /\ hand'.stream = streams[r]
          /\ UNCHANGED <<states, adds, caller, reader, streams>>
      BY <2>4 DEF Capture, Goto, Empty, vars, requestVars, apiVars
    <3>2. todo \subseteq states
      BY <2>4, <1>b DEF Capture, Goto
    <3>3. \A i, x : IsLast(i, x)' <=> IsLast(i, x)
      BY <3>1 DEF IsLast
    <3>4. hand'.stream # 0 => IsLast(hand'.stream, r)
      BY <3>1 DEF EngineInv, CallInv
    <3>5. (hand.stream # 0 => IsLast(hand.stream, hand.id))'
      BY <3>1, <3>4 DEF IsLast
    <3> QED BY <3>1, <3>2, <3>3, <3>5 DEF EngineInv, CallInv, StreamIsOwn
  <2>5. CASE Finalize
    <3>1. /\ pc' = "put" /\ todo' = todo /\ states' = states \ {hand.id}
          /\ hand' = [hand EXCEPT !.of = CallOf(hand.id)]
          /\ UNCHANGED <<caller, reader, streams>>
      BY <2>5 DEF Finalize, PopRequestState, Goto, apiVars
    <3>2. /\ hand.id \in states \ todo /\ todo \subseteq states
          /\ hand.stream # 0 => IsLast(hand.stream, hand.id)
      BY <2>5 DEF Finalize, Goto, EngineInv, CallInv
    <3>3. hand.stream \in {0, CallOf(hand.id)}
      BY <3>2, LastIsCallOf
    <3>4. hand'.stream \in {0, hand'.of}
      BY <3>1, <3>3 DEF EngineInv, EngineTypeOK
    <3> QED BY <3>1, <3>2, <3>4, <2>0, CallFrame
  <2>6. CASE Put
    <3>1. /\ pc = "put" /\ pc' = "emit"
          /\ UNCHANGED <<states, todo, caller, streams>>
      BY <2>6 DEF Put, Goto, vars, requestVars
    <3>2. Tell({CapturedStream})
      BY <2>6, <3>1, <1>b DEF Put, CapturedStream
    <3> QED BY <3>1, <3>2, <2>0, <1>b, <1>c, CallFrame
  <2>7. CASE Delivered \/ WaitEnds \/ CallSchedule \/ ScheduleReturns \/ ScheduleRaises
             \/ StartWave \/ Prepare \/ PrepareFails \/ FailLate \/ FilterEnded
    <3>1. pc' \notin {"emit", "finalize", "put"} /\ UNCHANGED <<caller, reader, streams>>
      BY <2>7 DEF Delivered, WaitEnds, CallSchedule, ScheduleReturns, ScheduleRaises,
         StartWave, Prepare, PrepareFails, FailLate, FilterEnded, Goto, LoopInv, apiVars
    <3> QED BY <3>1, <2>0, CallFrame
  <2>8. CASE EndDrains \/ EndDrainsFails \/ Execute \/ ExecuteRaises \/ Poll
             \/ FailStop \/ FailClose
    <3>1. pc' \notin {"emit", "finalize", "put"} /\ UNCHANGED <<caller, reader, streams>>
      BY <2>8 DEF EndDrains, EndDrainsFails, Execute, ExecuteRaises, Poll, FailStop,
         FailClose, Goto, apiVars
    <3> QED BY <3>1, <2>0, CallFrame
  <2>9. CASE EmptyWave \/ Update
    <3>1. /\ todo' = surfaced' /\ pc' \in {"emit", "failing"}
          /\ UNCHANGED <<caller, reader, streams>>
      BY <2>9 DEF EmptyWave, Update, GotoOrFail, apiVars
    <3>2. surfaced' \subseteq states'
      BY DEF SurfacedIsFinished
    <3> QED BY <3>1, <3>2, <2>0, CallFrame
  <2>10. CASE FailBegin \/ FailHeld
    <3>1. /\ pc' \notin {"emit", "finalize", "put"} /\ Tell(FailTells)
          /\ UNCHANGED <<caller, streams>>
      BY <2>10 DEF FailBegin, FailHeld, Goto
    <3> QED BY <3>1, <2>0, <1>c, CallFrame
  <2> QED BY <1>7, <2>1, <2>2, <2>3, <2>4, <2>5, <2>6, <2>7, <2>8, <2>9, <2>10
          DEF BusyLoop, ProcessAbortsQueue, PrepareKv
<1> QED BY <1>1, <1>2, <1>3, <1>4, <1>5, <1>6, <1>7 DEF EngineNext

LEMMA EngineInvariant == EngineSafe => []EngineInv
<1>1. EngineInit => EngineInv /\ LoopInv
  BY EngineInvInit, LoopInit
<1>2. /\ EngineInv /\ LoopInv /\ TypeOK /\ TypeOK' /\ SurfacedIsFinished'
      /\ [EngineNext]_allVars
      => EngineInv' /\ LoopInv'
  BY CallStep, EngineTypeStep, LoopStep DEF EngineInv
<1>3. EngineSafe => []TypeOK /\ []SurfacedIsFinished
  BY EngineImplementsScheduler, TypeCorrect, SurfacedStayFinished, PTL
<1> QED BY <1>1, <1>2, <1>3, PTL DEF EngineSafe

\* Every variable of the engine keeps its type.
THEOREM EngineTypeCorrect == EngineSafe => []EngineTypeOK
<1>1. EngineInv => EngineTypeOK
  BY DEF EngineInv
<1> QED BY <1>1, EngineInvariant, PTL

\* No caller receives the result of another call, however ids are reused, for
\* any number of calls, readers that leave early and aborts.
THEOREM StreamsStayOwn == EngineSafe => []StreamIsOwn
<1>1. EngineInv => StreamIsOwn
  BY DEF EngineInv, CallInv
<1> QED BY <1>1, EngineInvariant, PTL

-----------------------------------------------------------------------------
(* However the engine stops, nobody is left waiting.                       *)

\* The result of the call i is on its way.
InHand(i) == pc \in {"finalize", "put"} /\ hand.stream = i

\* Who still waits can be told: its stream is registered with an engine that is
\* not closed, or its result is on its way.  A registered stream that waits
\* belongs to a known id, so that no new call can take its place, except while
\* its result is on its way.
AnswerInv ==
    /\ \A i \in Calls : reader[i] = "open" =>
           (~closed /\ i \in Registered) \/ InHand(i)
    /\ \A r \in Request : ~closed /\ streams[r] \in Calls /\ reader[streams[r]] = "open" =>
           r \in states \/ (pc = "put" /\ hand.stream = streams[r])
    /\ pc = "finalize" => streams[hand.id] \in {0, hand.stream}
    /\ pc \in {"exit", "fail_stop", "fail_close"} => closed

LEMMA AnswerInit == EngineInit => AnswerInv
BY DEF EngineInit, AnswerInv

\* Steps that tell nobody, forget no stream and no id, and leave a delivery alone.
LEMMA AnswerFrame ==
    ASSUME EngineTypeOK, AnswerInv, UNCHANGED <<reader, streams, closed>>,
           closed \/ states' = states,
           pc \in {"finalize", "put"} => pc' = pc /\ hand' = hand,
           pc' = "finalize" => pc = "finalize",
           pc' \in {"exit", "fail_stop", "fail_close"} => closed
    PROVE  AnswerInv'
<1>1. Registered' = Registered
  BY DEF Registered
<1>2. \A i : InHand(i) => InHand(i)'
  BY DEF InHand
<1> QED BY <1>1, <1>2 DEF AnswerInv

\* Steps after which the engine is closed and no call that was registered waits.
LEMMA TellingAll ==
    ASSUME LoopInv, AnswerInv, ~closed, closed', Tell(Registered),
           \A r \in Request : streams'[r] \in {0, streams[r]},
           hand' = hand, pc \in {"finalize", "put"} => pc' = pc,
           pc' = "finalize" => pc = "finalize"
    PROVE  AnswerInv'
<1>1. ASSUME NEW i \in Calls, reader'[i] = "open" PROVE InHand(i)'
  <2>1. reader[i] = "open" /\ i \notin Registered
    BY <1>1 DEF Tell
  <2>2. InHand(i)
    BY <2>1 DEF AnswerInv
  <2> QED BY <2>2 DEF InHand
<1>2. ASSUME pc' = "finalize" PROVE streams'[hand'.id] \in {0, hand'.stream}
  <2>1. pc = "finalize" /\ streams[hand.id] \in {0, hand.stream}
    BY <1>2 DEF AnswerInv
  <2> QED BY <2>1, <1>2 DEF LoopInv
<1> QED BY <1>1, <1>2 DEF AnswerInv

LEMMA AnswerStep ==
    ASSUME EngineInv, AnswerInv, LoopInv, TypeOK, TypeOK', [EngineNext]_allVars
    PROVE  AnswerInv'
<1>t. EngineTypeOK /\ adds \in Nat
  BY DEF EngineInv, TypeOK
<1>1. ASSUME NEW r \in Request, NEW s \in Shape, Add(r, s) PROVE AnswerInv'
  <2>1. /\ ~closed /\ r \notin states /\ adds + 1 \in Calls
        /\ states' = states \cup {r}
        /\ streams' = [streams EXCEPT ![r] = adds + 1]
        /\ reader' = [reader EXCEPT ![adds + 1] = "open"]
        /\ UNCHANGED <<pc, hand, closed>>
    BY <1>1, ConstantsAssumption
       DEF Add, AddRequest, Admissible, loopVars, downVars, Calls, TypeOK
  <2>n. PICK n \in Calls : n = adds + 1
    BY <2>1
  <2>s. /\ streams'[r] = n
        /\ \A x \in Request \ {r} : streams'[x] = streams[x] /\ streams[x] # n
    <3>1. \A x \in Request : streams[x] # 0 => streams[x] <= adds
      BY DEF EngineInv, CallInv, IsLast
    <3> QED BY <2>1, <2>n, <3>1, <1>t, ConstantsAssumption DEF EngineTypeOK, Calls
  <2>r. reader'[n] = "open" /\ \A j \in Calls \ {n} : reader'[j] = reader[j]
    BY <2>1, <2>n, <1>t DEF EngineTypeOK
  <2>2. ASSUME NEW i \in Calls, reader'[i] = "open"
        PROVE  (~closed /\ i \in Registered)' \/ InHand(i)'
    <3>1. CASE i = n
      BY <3>1, <2>s, <2>1 DEF Registered
    <3>2. CASE i # n /\ InHand(i)
      BY <3>2, <2>1 DEF InHand
    <3>3. CASE i # n /\ ~InHand(i)
      <4>1. PICK x \in Request : streams[x] = i /\ reader[i] = "open"
        BY <2>2, <3>3, <2>r DEF AnswerInv, Registered
      <4>2. x # r
        BY <4>1, <2>1, <3>3 DEF AnswerInv, InHand
      <4> QED BY <4>1, <4>2, <2>s, <2>1 DEF Registered
    <3> QED BY <3>1, <3>2, <3>3
  <2>3. ASSUME NEW x \in Request, streams'[x] \in Calls, reader'[streams'[x]] = "open"
        PROVE  x \in states' \/ (pc' = "put" /\ hand'.stream = streams'[x])
    <3>1. CASE x = r
      BY <3>1, <2>1
    <3>2. CASE x # r
      <4>1. streams[x] \in Calls /\ reader[streams[x]] = "open"
        BY <2>3, <3>2, <2>s, <2>r
      <4> QED BY <4>1, <3>2, <2>s, <2>1 DEF AnswerInv
    <3> QED BY <3>1, <3>2
  <2>4. pc = "finalize" => hand.id # r
    BY <2>1 DEF EngineInv, CallInv
  <2>5. pc' = "finalize" => streams'[hand'.id] \in {0, hand'.stream}
    BY <2>4, <2>1, <2>s DEF AnswerInv, LoopInv
  <2> QED BY <2>1, <2>2, <2>3, <2>5 DEF AnswerInv
<1>2. ASSUME NEW r \in Request, RequestAbort(r) PROVE AnswerInv'
  BY <1>2, <1>t, AnswerFrame DEF RequestAbort, vars, requestVars, loopVars, downVars, AnswerInv
<1>3. ASSUME NEW i \in Calls, ReaderEnds(i) PROVE AnswerInv'
  <2>1. /\ reader' = [reader EXCEPT ![i] = "ended"]
        /\ streams' \in {streams, [streams EXCEPT ![caller[i]] = 0]}
        /\ OwnStream(i) \/ streams' = streams
        /\ UNCHANGED <<pc, hand, closed, states>>
    BY <1>3 DEF ReaderEnds, loopVars, downVars, vars, requestVars
  <2>2. \A x \in Request : streams'[x] = streams[x] \/ (streams'[x] = 0 /\ streams[x] = i)
    BY <2>1, <1>t DEF EngineTypeOK, OwnStream
  <2>3. reader'[i] = "ended" /\ \A j \in Calls \ {i} : reader'[j] = reader[j]
    BY <2>1, <1>t DEF EngineTypeOK
  <2>4. ASSUME NEW j \in Calls, reader'[j] = "open"
        PROVE  (~closed /\ j \in Registered)' \/ InHand(j)'
    <3>1. j # i /\ reader[j] = "open"
      BY <2>3, <2>4
    <3>2. CASE InHand(j)
      BY <3>2, <2>1 DEF InHand
    <3>3. CASE ~InHand(j)
      <4>1. PICK x \in Request : streams[x] = j /\ ~closed
        BY <3>1, <3>3 DEF AnswerInv, Registered
      <4> QED BY <4>1, <3>1, <2>1, <2>2 DEF Registered
    <3> QED BY <3>2, <3>3
  <2>5. ASSUME NEW x \in Request, ~closed', streams'[x] \in Calls,
               reader'[streams'[x]] = "open"
        PROVE  x \in states' \/ (pc' = "put" /\ hand'.stream = streams'[x])
    <3>1. streams'[x] = streams[x] /\ streams[x] # i
      BY <2>5, <2>2, <2>3, ConstantsAssumption DEF Calls
    <3>2. reader[streams[x]] = "open"
      BY <3>1, <2>3, <2>5
    <3> QED BY <3>1, <3>2, <2>5, <2>1 DEF AnswerInv
  <2>6. pc' = "finalize" => streams'[hand'.id] \in {0, hand'.stream}
    BY <2>1, <2>2 DEF AnswerInv, LoopInv
  <2> QED BY <2>1, <2>4, <2>5, <2>6 DEF AnswerInv
<1>4. CASE Closing
  <2>1. CASE CloseBegin /\ closed
    BY <2>1, <1>t, AnswerFrame DEF CloseBegin, loopVars, AnswerInv
  <2>2. CASE CloseBegin /\ ~closed
    BY <2>2, <1>t, TellingAll DEF CloseBegin, loopVars
  <2>3. CASE CloseWait
    BY <2>3, <1>t, AnswerFrame
       DEF CloseWait, vars, requestVars, loopVars, apiVars, AnswerInv
  <2>4. CASE CloseStops \/ CloseSecond
    <3>1. pc = "exit" /\ UNCHANGED <<loopVars, apiVars, closed>>
      BY <2>4 DEF CloseStops, CloseFirst, CloseSecond, CloseDrainFails, LoopInv
    <3>2. closed
      BY <3>1 DEF AnswerInv
    <3> QED BY <3>1, <3>2, <1>t, AnswerFrame DEF loopVars, apiVars
  <2> QED BY <1>4, <2>1, <2>2, <2>3, <2>4 DEF Closing
<1>5. CASE Arrival
  <2>1. UNCHANGED <<states, engineVars>>
    BY <1>5 DEF Arrival, WriteArrives, requestVars
  <2> QED BY <2>1, <1>t, AnswerFrame DEF engineVars, loopVars, apiVars, downVars, AnswerInv
<1>6. CASE Stopped \/ UNCHANGED allVars
  BY <1>6, <1>t, AnswerFrame
     DEF Stopped, allVars, vars, requestVars, engineVars, loopVars, apiVars, downVars, AnswerInv
<1>7. CASE BusyLoop
  <2>q. pc \notin Forgetting => states' = states
    BY <1>7, SchedulerIsQuiet
  <2>1. CASE LoopStops
    <3>1. /\ pc \notin {"finalize", "put"} /\ pc' = "exit" /\ closed
          /\ UNCHANGED <<reader, streams, closed>>
      BY <2>1 DEF LoopStops, apiVars, downVars
    <3> QED BY <3>1, <1>t, AnswerFrame
  <2>2. CASE ProcessAbortsQueue \/ CollectPending \/ Delivered \/ WaitEnds
    <3>1. /\ pc \notin {"finalize", "put"} /\ pc \notin Forgetting
          /\ pc' \notin {"finalize", "exit", "fail_stop", "fail_close"}
          /\ UNCHANGED <<reader, streams, closed>>
      BY <2>2 DEF ProcessAbortsQueue, NoAborts, ProcessAborts, TakeAborts, DrainAborts,
         AbortDrained, DrainAbortsFails, CollectPending, Delivered, WaitEnds, Goto,
         GotoOrFail, GotoOrFailHeld, AbortSite, Next4, Forgetting, LoopInv,
         engineVars, loopVars, apiVars, downVars
    <3> QED BY <3>1, <2>q, <1>t, AnswerFrame
  <2>3. CASE CallSchedule \/ ScheduleGoesOn \/ ScheduleReturns \/ ScheduleRaises
             \/ EmptyWave \/ StartWave \/ PrepareKv \/ FailLate \/ FilterEnded
             \/ EndDrains \/ EndDrainsFails
    <3>1. /\ pc \notin {"finalize", "put"} /\ pc \notin Forgetting
          /\ pc' \notin {"finalize", "exit", "fail_stop", "fail_close"}
          /\ UNCHANGED <<reader, streams, closed>>
      BY <2>3 DEF CallSchedule, ScheduleGoesOn, ScheduleReturns, ScheduleRaises,
         EmptyWave, StartWave, PrepareKv, Prepare, Poll, PrepareFails, FailLate,
         FilterEnded, EndDrains, EndDrainsFails, Goto, GotoOrFail, Forgetting,
         engineVars, loopVars, apiVars, downVars
    <3> QED BY <3>1, <2>q, <1>t, AnswerFrame
  <2>4. CASE Execute \/ ExecuteRaises \/ Update
    <3>1. /\ pc \notin {"finalize", "put"} /\ pc \notin Forgetting
          /\ pc' \notin {"finalize", "fail_stop", "fail_close"}
          /\ pc' = "exit" => closed
          /\ UNCHANGED <<reader, streams, closed>>
      BY <2>4 DEF Execute, ExecuteRaises, Update, Goto, GotoOrFail, Forgetting,
         apiVars, downVars
    <3> QED BY <3>1, <2>q, <1>t, AnswerFrame
  <2>5. ASSUME NEW r \in Request, Capture(r) PROVE AnswerInv'
    <3>1. /\ pc = "emit" /\ pc' = "finalize" /\ states' = states
          /\ hand'.id = r /\ hand'.stream = streams[r]
          /\ UNCHANGED <<reader, streams, closed>>
      BY <2>5 DEF Capture, Goto, Empty, vars, requestVars, apiVars, downVars
    <3>2. Registered' = Registered /\ \A i : ~InHand(i)
      BY <3>1 DEF Registered, InHand
    <3> QED BY <3>1, <3>2 DEF AnswerInv
  <2>6. CASE Finalize
    <3>1. /\ pc = "finalize" /\ pc' = "put" /\ states' = states \ {hand.id}
          /\ hand'.stream = hand.stream
          /\ UNCHANGED <<reader, streams, closed>>
      BY <2>6, <1>t DEF Finalize, PopRequestState, Goto, apiVars, downVars, EngineTypeOK
    <3>2. Registered' = Registered /\ \A i : InHand(i) => InHand(i)'
      BY <3>1 DEF Registered, InHand
    <3>3. ASSUME NEW x \in Request, ~closed, streams[x] \in Calls,
                 reader[streams[x]] = "open"
          PROVE  x \in states' \/ hand'.stream = streams[x]
      <4>1. CASE x = hand.id
        BY <4>1, <3>1, <3>3, ConstantsAssumption DEF AnswerInv, Calls
      <4>2. CASE x # hand.id
        BY <4>2, <3>1, <3>3 DEF AnswerInv
      <4> QED BY <4>1, <4>2
    <3> QED BY <3>1, <3>2, <3>3 DEF AnswerInv
  <2>7. CASE Put
    <3>1. /\ pc = "put" /\ pc' = "emit" /\ states' = states
          /\ UNCHANGED <<streams, closed>>
      BY <2>7 DEF Put, Goto, vars, requestVars, downVars
    <3>2. Tell({hand.stream})
      BY <2>7, <3>1 DEF Put, CapturedStream, EngineInv, CallInv
    <3>3. \A i \in Calls : reader'[i] = "open" => reader[i] = "open" /\ i # hand.stream
      BY <3>2 DEF Tell
    <3>4. Registered' = Registered
      BY <3>1 DEF Registered
    <3> QED BY <3>1, <3>3, <3>4 DEF AnswerInv, InHand
  <2>8. CASE FailBegin \/ FailHeld
    <3>1. /\ pc \in {"failing", "failing_held"} /\ pc' \in {"fail_stop", "exit"}
          /\ closed' /\ Tell(Registered) /\ UNCHANGED streams
      BY <2>8 DEF FailBegin, FailHeld, FailTells, Goto
    <3>2. ASSUME NEW i \in Calls PROVE reader'[i] # "open"
      BY <3>1 DEF Tell, AnswerInv, InHand
    <3> QED BY <3>1, <3>2 DEF AnswerInv
  <2>9. CASE FailStop \/ FailClose
    <3>1. /\ pc \in {"fail_stop", "fail_close"} /\ pc' \in {"fail_close", "exit"}
          /\ UNCHANGED <<reader, streams, closed>>
      BY <2>9 DEF FailStop, FailClose, Goto, apiVars
    <3>2. closed
      BY <3>1 DEF AnswerInv
    <3> QED BY <3>1, <3>2, <1>t, AnswerFrame
  <2> QED BY <1>7, <2>1, <2>2, <2>3, <2>4, <2>5, <2>6, <2>7, <2>8, <2>9 DEF BusyLoop
<1> QED BY <1>1, <1>2, <1>3, <1>4, <1>5, <1>6, <1>7 DEF EngineNext

\* Whichever way the engine stops, close(), a failure inside or outside the lock,
\* or both at once, when the busy loop has ended no caller waits for an answer.
THEOREM NobodyLeftWaiting == EngineSafe => []AllAnsweredAtExit
<1>1. EngineInit => AnswerInv /\ LoopInv
  BY AnswerInit, LoopInit
<1>2. /\ EngineInv /\ LoopInv /\ AnswerInv /\ TypeOK /\ TypeOK'
      /\ [EngineNext]_allVars
      => AnswerInv' /\ LoopInv'
  BY AnswerStep, LoopStep
<1>3. AnswerInv => AllAnsweredAtExit
  BY DEF AnswerInv, AllAnsweredAtExit, InHand
<1>4. EngineSafe => []TypeOK /\ []EngineInv
  BY EngineImplementsScheduler, TypeCorrect, EngineInvariant, PTL
<1> QED BY <1>1, <1>2, <1>3, <1>4, PTL DEF EngineSafe
=============================================================================
