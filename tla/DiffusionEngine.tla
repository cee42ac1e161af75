--------------------------- MODULE DiffusionEngine ---------------------------
(***************************************************************************)
(* The DiffusionEngine of vllm_omni/diffusion/diffusion_engine.py around   *)
(* the scheduler: its busy loop (one thread, pc), the calls that other     *)
(* threads make (add_request, abort, close), the output streams of the     *)
(* callers, and the two ways of stopping, close() and _fail_engine.        *)
(*                                                                         *)
(* Every step of the engine is a step of the scheduler or leaves it alone. *)
(* The condition variable _cv is held wherever the busy loop is in the     *)
(* middle of schedule() or of an abort, see Locked; update_from_output,    *)
(* fail_incomplete_kv_loads and the handling of drains run without it.     *)
(*                                                                         *)
(* A "variant" definition is a plausible mistake, see DiffusionScheduler.  *)
(***************************************************************************)
EXTENDS DiffusionScheduler

VARIABLES
    pc,             \* where the busy loop is
    resume,         \* where it goes after delivering finished requests
    todo,           \* finished ids still to deliver
    hand,           \* the delivery in progress: id, its stream, whose result
    late,           \* receives that prepare_kv_for_forward did not complete
    ran,            \* execute_fn returned; FALSE if it raised
    inbox,          \* abort_queue, as a set
    batch,          \* aborts whose receives are being drained (prefetch mode)
    caller,         \* the id that the i-th add_request call submitted
    reader,         \* what the reader of that call's stream has seen
    streams,        \* _out_streams: the call whose stream is registered, or 0
    closed,         \* _closed; the stop_event is set together with it
    shutting_down,  \* _shutting_down
    complete,       \* _shutdown_complete
    stops,          \* how often executor.shutdown() ran
    closer          \* where the thread calling close() is

loopVars == <<pc, resume, todo, hand, late, ran, batch>>
apiVars  == <<inbox, caller, reader, streams>>
downVars == <<closed, shutting_down, complete, stops, closer>>
engineVars == <<loopVars, apiVars, downVars>>
allVars == <<vars, engineVars>>

Calls == 1 .. MaxAdds
Empty == [id |-> NoRequest, stream |-> 0, of |-> 0]

EngineInit ==
    /\ Init
    /\ pc = "aborts" /\ resume = "wait" /\ todo = {} /\ hand = Empty
    /\ late = {} /\ ran = TRUE /\ inbox = {} /\ batch = {}
    /\ caller = [i \in Calls |-> NoRequest] /\ reader = [i \in Calls |-> "none"]
    /\ streams = [r \in Request |-> 0]
    /\ closed = FALSE /\ shutting_down = FALSE /\ complete = FALSE
    /\ stops = 0 /\ closer = "none"

-----------------------------------------------------------------------------
\* The busy loop holds _cv.
Locked == \/ phase \in {"admit", "prefetch", "publish"}
          \/ batch # {} \/ pc = "failing_held"

\* The call that the current request with this id came from.
CallOf(r) == CHOOSE i \in 1 .. adds :
                 caller[i] = r /\ \A j \in i + 1 .. adds : caller[j] # r

\* A reader waits for its first final output and ignores later ones.
Tell(told) == reader' = [i \in Calls |->
                  IF reader[i] = "open" /\ i \in told THEN "answered" ELSE reader[i]]
Registered == {streams[r] : r \in Request}

\* A step of the scheduler that may have nothing to do.
IfAny(cond, A) == (cond /\ A) \/ (~cond /\ UNCHANGED vars)

Abort(S) ==
    IfAny(Finishing([x \in S |-> "ABORTED"]) # {}, FinishRequestList(S, "ABORTED"))
ReportReceives == IfAny(arrived # {}, UpdateKvConnectorOutput(arrived))

-----------------------------------------------------------------------------
(***************************************************************************)
(* Calls of other threads.                                                 *)
(***************************************************************************)
Add(r, s) ==
    /\ ~Locked /\ ~closed
    /\ AddRequest(r, s)
    /\ caller' = [caller EXCEPT ![adds + 1] = r]
    /\ reader' = [reader EXCEPT ![adds + 1] = "open"]
    /\ streams' = [streams EXCEPT ![r] = adds + 1]
    /\ UNCHANGED <<loopVars, inbox, downVars>>

RequestAbort(r) ==
    /\ ~Locked /\ ~closed /\ \E i \in Calls : caller[i] = r
    /\ inbox' = inbox \cup {r}
    /\ UNCHANGED <<vars, loopVars, caller, reader, streams, downVars>>

\* get_output_stream ends: after the final output, or because its caller left.
\* It only removes its own stream; a new request may have replaced it.
\* variant: it removes whatever is registered for its id
AnyStream(i) == TRUE
OwnStream(i) == streams[caller[i]] = i

ReaderEnds(i) ==
    /\ ~Locked /\ reader[i] \in {"open", "answered", "misled"}
    /\ reader' = [reader EXCEPT ![i] = "ended"]
    /\ streams' = IF OwnStream(i) THEN [streams EXCEPT ![caller[i]] = 0] ELSE streams
    /\ UNCHANGED <<vars, loopVars, inbox, caller, downVars>>

\* close() answers and forgets the streams, waits for the busy loop, which may
\* time out, and then stops the scheduler and the executor.  A close() that
\* finds the engine closed but not shut down goes on from the wait.
CloseBegin ==
    /\ closer = "none" /\ ~Locked /\ ~(closed /\ complete)
    /\ closed' = TRUE
    /\ IF closed THEN UNCHANGED <<reader, streams>>
       ELSE Tell(Registered) /\ streams' = [r \in Request |-> 0]
    /\ closer' = "join"
    /\ UNCHANGED <<vars, loopVars, inbox, caller, shutting_down, complete, stops>>

CloseWait ==
    /\ closer = "join"
    /\ closer' = IF pc = "exit" THEN "first" ELSE "none"
    /\ UNCHANGED <<vars, loopVars, apiVars, closed, shutting_down, complete, stops>>

CloseScheduler == IfAny(phase # "closed", Close)
StopExecutor   == stops' = stops + 1

\* With native prefetch, close() waits for all receives and then stops the
\* executor first; without it the scheduler is closed first.
CloseFirst ==
    /\ closer = "first"
    /\ IF Prefetch
       THEN /\ RowsOfAll(kv_loading) \subseteq arrived \cup kv_received
            /\ StopExecutor /\ UNCHANGED vars
       ELSE CloseScheduler /\ UNCHANGED stops
    /\ closer' = "second"
    /\ UNCHANGED <<loopVars, apiVars, closed, shutting_down, complete>>

CloseSecond ==
    /\ closer = "second"
    /\ IF Prefetch THEN CloseScheduler /\ UNCHANGED stops
                   ELSE StopExecutor /\ UNCHANGED vars
    /\ closer' = "none" /\ complete' = TRUE
    /\ UNCHANGED <<loopVars, apiVars, closed, shutting_down>>

\* The receives do not complete in time: _fail_engine stops everything.
CloseDrainFails ==
    /\ closer = "first" /\ Prefetch /\ kv_loading # {}
    /\ CloseScheduler /\ StopExecutor
    /\ closer' = "none" /\ shutting_down' = TRUE /\ complete' = TRUE
    /\ UNCHANGED <<loopVars, apiVars, closed>>

-----------------------------------------------------------------------------
(***************************************************************************)
(* The busy loop.  Goto(p, q) is a step of it from p to q.                 *)
(***************************************************************************)
Goto(p, q) == pc = p /\ pc' = q

\* An executor call of the step may raise, and _fail_engine is called: without
\* _cv, or ("failing_held") inside it.
GotoOrFail(p, q)     == pc = p /\ pc' \in {q, "failing"}
GotoOrFailHeld(p, q) == pc = p /\ pc' \in {q, "failing_held"}

\* _process_aborts_queue is called at four places, with these continuations.
AbortSite == {"aborts", "prepared", "polled", "executed"}
Next4(p)  == CASE p = "aborts"   -> "pending"   [] p = "prepared" -> "late"
               [] p = "polled"   -> "executed"  [] p = "executed" -> "update"

LoopStops ==
    /\ pc \in {"aborts", "wait"} /\ closed /\ batch = {}
    /\ pc' = "exit"
    /\ UNCHANGED <<vars, resume, todo, hand, late, ran, batch, apiVars, downVars>>

NoAborts ==
    /\ pc \in AbortSite /\ inbox = {} /\ batch = {}
    /\ Goto(pc, Next4(pc))
    /\ UNCHANGED <<vars, resume, todo, hand, late, ran, batch, apiVars, downVars>>

\* The queued aborts are applied, then the workers told.
ProcessAborts ==
    /\ pc \in AbortSite /\ inbox # {} /\ ~Prefetch
    /\ Abort(inbox)
    /\ inbox' = {}
    /\ GotoOrFailHeld(pc, Next4(pc))
    /\ UNCHANGED <<resume, todo, hand, late, ran, batch, caller, reader,
                   streams, downVars>>

\* With native prefetch their receives are completed first.
TakeAborts ==
    /\ pc \in AbortSite /\ inbox # {} /\ Prefetch
    /\ batch' = inbox /\ inbox' = {}
    /\ UNCHANGED <<vars, pc, resume, todo, hand, late, ran, caller, reader,
                   streams, downVars>>

\* variant: aborts are applied without waiting for their receives
NoneLoading(S)  == {}
LoadingRows(S)  == RowsOfAll(S \cap kv_loading)

DrainAborts ==
    /\ pc \in AbortSite /\ batch # {} /\ kv_loading # {}
    /\ LoadingRows(batch) \subseteq arrived \cup kv_received
    /\ arrived # {} /\ UpdateKvConnectorOutput(arrived)
    /\ UNCHANGED engineVars

AbortDrained ==
    /\ pc \in AbortSite /\ batch # {}
    /\ LoadingRows(batch) = {}
    /\ Abort(batch)
    /\ batch' = {}
    /\ GotoOrFailHeld(pc, Next4(pc))
    /\ UNCHANGED <<resume, todo, hand, late, ran, apiVars, downVars>>

\* The receives do not complete in time.
DrainAbortsFails ==
    /\ pc \in AbortSite /\ batch # {} /\ kv_loading # {}
    /\ batch' = {}
    /\ Goto(pc, "failing_held")
    /\ UNCHANGED <<vars, resume, todo, hand, late, ran, apiVars, downVars>>

\* Aborting the last request leaves no wave to report it.
\* variant: only waves report finished requests
NoPending  == {}
ToDeliver  == PendingFinished

CollectPending ==
    /\ GotoOrFail("pending", "emit")
    /\ todo' = ToDeliver /\ resume' = "wait"
    /\ pc' = "failing" => todo' # {}
    /\ UNCHANGED <<vars, hand, late, ran, batch, apiVars, downVars>>

\* _emit_finished_request: look up the stream, pop the request, put the result.
Capture(r) ==
    /\ Goto("emit", "finalize")
    /\ r \in todo
    /\ hand' = [Empty EXCEPT !.id = r, !.stream = streams[r]]
    /\ todo' = todo \ {r}
    /\ UNCHANGED <<vars, resume, late, ran, batch, apiVars, downVars>>

Finalize ==
    /\ Goto("finalize", "put")
    /\ PopRequestState(hand.id)
    /\ hand' = [hand EXCEPT !.of = CallOf(hand.id)]
    /\ UNCHANGED <<resume, todo, late, ran, batch, apiVars, downVars>>

\* variant: the stream is looked up when the result is put
LatestStream   == streams[hand.id]
CapturedStream == hand.stream

Put ==
    /\ Goto("put", "emit")
    /\ LET i == CapturedStream IN
       IF i = hand.of \/ i = 0 THEN Tell({i})
       ELSE reader' = [reader EXCEPT ![i] = IF @ = "open" THEN "misled" ELSE @]
    /\ hand' = Empty
    /\ UNCHANGED <<vars, resume, todo, late, ran, batch, inbox, caller, streams,
                   downVars>>

Delivered ==
    /\ todo = {} /\ Goto("emit", resume)
    /\ resume' = "wait"
    /\ UNCHANGED <<vars, todo, hand, late, ran, batch, apiVars, downVars>>

\* The wait ends with work to schedule, or with aborts only.
WaitEnds ==
    /\ ~closed
    /\ \/ HasRequests /\ Goto("wait", "schedule")
       \/ ~HasRequests /\ inbox # {} /\ Goto("wait", "aborts")
    /\ UNCHANGED <<vars, resume, todo, hand, late, ran, batch, apiVars, downVars>>

\* schedule(), after the admission wait, which releases the lock.
CallSchedule ==
    /\ Goto("schedule", "scheduling") /\ ScheduleBegin
    /\ UNCHANGED <<resume, todo, hand, late, ran, batch, apiVars, downVars>>

ScheduleGoesOn == pc = "scheduling" /\ InSchedule /\ UNCHANGED engineVars

ScheduleReturns ==
    /\ Goto("scheduling", "started") /\ Publish
    /\ UNCHANGED <<resume, todo, hand, late, ran, batch, apiVars, downVars>>

ScheduleRaises ==
    /\ Goto("scheduling", "failing_held")
    /\ UNCHANGED <<vars, resume, todo, hand, late, ran, batch, apiVars, downVars>>

\* is_empty, and the early return of _prepare_kv_for_forward.
IsEmpty      == Scheduled = {} /\ ~out.metadata /\ out.required = {}
NothingToDo  == ~out.metadata /\ out.required = {}

\* An empty output only reports finished requests.
EmptyWave ==
    /\ IsEmpty /\ GotoOrFail("started", "emit")
    /\ UpdateFromOutput([r \in {} |-> "ERROR"])
    /\ todo' = surfaced' /\ resume' = "aborts"
    /\ pc' = "failing" => todo' # {}
    /\ UNCHANGED <<hand, late, ran, batch, apiVars, downVars>>

StartWave ==
    /\ ~IsEmpty /\ Goto("started", IF NothingToDo THEN "execute" ELSE "prepare")
    /\ UNCHANGED <<vars, resume, todo, hand, late, ran, batch, apiVars, downVars>>

\* prepare_kv_for_forward returns what is complete when the receives of this
\* output are, or when they time out; native prefetch requires its rows.
\* variant: the ids of requests where those of their sequences belong
TransferIds  == {d[1] : d \in out.transfer}
\* variant: the prefetched receives are awaited as well
TransferRows == out.transfer
AwaitedRows  == IF Prefetch THEN out.required ELSE out.transfer

Prepare ==
    /\ Goto("prepare", "prepared")
    /\ Prefetch => out.required \subseteq arrived \cup kv_received
    /\ ReportReceives
    /\ late' = AwaitedRows \ (arrived \cup kv_received)
    /\ UNCHANGED <<resume, todo, hand, ran, batch, apiVars, downVars>>

\* A rank is missing, pages are invalid, a required receive timed out, or a
\* worker refused the update.
PrepareFails ==
    /\ pc \in {"prepare", "poll"} /\ pc' = "failing"
    /\ UNCHANGED <<vars, resume, todo, hand, late, ran, batch, apiVars, downVars>>

FailLate ==
    /\ Goto("late", "filter")
    /\ LET S == {r \in kv_loading \cap states : RowsOf(r) \cap late # {}} IN
       IfAny(Finishing([r \in S |-> "ERROR"]) # {}, FailIncompleteKvLoads(late))
    /\ late' = {}
    /\ UNCHANGED <<resume, todo, hand, ran, batch, apiVars, downVars>>

FilterEnded ==
    /\ Goto("filter", "drains")
    /\ IfAny(Ended # {}, DropEnded)
    /\ UNCHANGED <<resume, todo, hand, late, ran, batch, apiVars, downVars>>

EndDrains ==
    /\ Goto("drains", "execute")
    /\ IfAny(CompletedKvDrains # {}, ReleaseKvDrains)
    /\ UNCHANGED <<resume, todo, hand, late, ran, batch, apiVars, downVars>>

EndDrainsFails ==
    /\ CompletedKvDrains # {} /\ Goto("drains", "failing")
    /\ UNCHANGED <<vars, resume, todo, hand, late, ran, batch, apiVars, downVars>>

\* Native prefetch polls after the forward while receives are in flight.
Execute ==
    /\ Goto("execute", IF Prefetch /\ kv_loading # {} THEN "poll" ELSE "executed")
    /\ ran' = TRUE
    /\ UNCHANGED <<vars, resume, todo, hand, late, batch, apiVars, downVars>>

ExecuteRaises ==
    /\ Scheduled # {} /\ Goto("execute", IF closed THEN "exit" ELSE "executed")
    /\ ran' = FALSE
    /\ UNCHANGED <<vars, resume, todo, hand, late, batch, apiVars, downVars>>

Poll ==
    /\ Goto("poll", "polled")
    /\ ReportReceives
    /\ UNCHANGED <<resume, todo, hand, late, ran, batch, apiVars, downVars>>

Update ==
    /\ GotoOrFail("update", "emit")
    /\ \E result \in [Scheduled -> Status] :
           /\ \A r \in Scheduled :
                  result[r] \in IF ran THEN Results(r) ELSE {"ERROR"}
           /\ UpdateFromOutput(result)
    /\ todo' = surfaced' /\ resume' = "aborts" /\ ran' = TRUE
    /\ pc' = "failing" => todo' # {}
    /\ UNCHANGED <<hand, late, batch, apiVars, downVars>>

\* _fail_engine: answer every caller, stop the executor, close the scheduler.
\* It does nothing if it already ran.
\* variant: the callers are not told
TellNobody == {}
FailTells  == Registered

FailBegin ==
    /\ ~shutting_down /\ ~complete /\ Goto("failing", "fail_stop")
    /\ shutting_down' = TRUE /\ closed' = TRUE
    /\ Tell(FailTells)
    /\ UNCHANGED <<vars, resume, todo, hand, late, ran, batch, inbox, caller, streams,
                   complete, stops, closer>>

FailStop ==
    /\ Goto("fail_stop", "fail_close")
    /\ StopExecutor
    /\ UNCHANGED <<vars, resume, todo, hand, late, ran, batch, apiVars, closed,
                   shutting_down, complete, closer>>

FailClose ==
    /\ Goto("fail_close", "exit")
    /\ CloseScheduler
    /\ complete' = TRUE
    /\ UNCHANGED <<resume, todo, hand, late, ran, batch, apiVars, closed,
                   shutting_down, stops, closer>>

\* Inside _cv no other thread sees the steps in between.
FailHeld ==
    /\ ~shutting_down /\ ~complete /\ Goto("failing_held", "exit")
    /\ CloseScheduler /\ StopExecutor
    /\ Tell(FailTells)
    /\ shutting_down' = TRUE /\ closed' = TRUE /\ complete' = TRUE
    /\ UNCHANGED <<resume, todo, hand, late, ran, batch, inbox, caller, streams,
                   closer>>

-----------------------------------------------------------------------------
ProcessAbortsQueue ==
    /\ pc \in AbortSite
    /\ \/ NoAborts \/ ProcessAborts \/ TakeAborts \/ DrainAborts
       \/ AbortDrained \/ DrainAbortsFails

\* The two calls of prepare_kv_for_forward in the loop.
PrepareKv == pc \in {"prepare", "poll"} /\ (Prepare \/ Poll \/ PrepareFails)

BusyLoop ==
    \/ LoopStops \/ ProcessAbortsQueue
    \/ CollectPending \/ (\E r \in Request : Capture(r)) \/ Finalize \/ Put
    \/ Delivered \/ WaitEnds
    \/ CallSchedule \/ ScheduleGoesOn \/ ScheduleReturns \/ ScheduleRaises
    \/ EmptyWave \/ StartWave \/ PrepareKv \/ FailLate
    \/ FilterEnded \/ EndDrains \/ EndDrainsFails
    \/ Execute \/ ExecuteRaises \/ Update
    \/ FailBegin \/ FailStop \/ FailClose \/ FailHeld

\* close() once the busy loop has ended.
CloseStops == closer = "first" /\ (CloseFirst \/ CloseDrainFails)

Closing == CloseBegin \/ CloseWait \/ CloseStops \/ CloseSecond

Arrival == \E w \in writes : WriteArrives(w) /\ UNCHANGED engineVars

Stopped == pc = "exit" /\ complete /\ closer = "none" /\ UNCHANGED allVars

EngineNext ==
    \/ \E r \in Request, s \in Shape : Add(r, s)
    \/ \E r \in Request : RequestAbort(r)
    \/ \E i \in Calls : ReaderEnds(i)
    \/ BusyLoop \/ Closing \/ Arrival \/ Stopped

EngineSafe == EngineInit /\ [][EngineNext]_allVars

\* The busy loop is a running thread; the sender completes what it started (it
\* keeps writing during schedule(), when WriteArrives is not enabled); and the
\* connector does not put off the same request for ever.
Answered(r) ==
    /\ pc = "scheduling"
    /\ \/ AdmitReserved(r) \/ AdmitTooLarge(r)
       \/ \E x \in Reservations(r) : AdmitNew(r, x)
       \/ AdmitUnregistered(r)
    /\ UNCHANGED engineVars

EngineSpec ==
    /\ EngineSafe
    /\ WF_allVars(BusyLoop) /\ SF_allVars(Arrival)
    /\ \A r \in Request : SF_allVars(Answered(r))

-----------------------------------------------------------------------------
(***************************************************************************)
(* Properties.                                                             *)
(***************************************************************************)
EngineTypeOK ==
    /\ pc \in AbortSite \cup
              {"pending", "emit", "finalize", "put", "wait", "schedule",
               "scheduling", "started", "prepare", "late", "filter", "drains",
               "execute", "poll", "update", "failing", "failing_held",
               "fail_stop", "fail_close", "exit"}
    /\ resume \in {"wait", "aborts"} /\ todo \subseteq Request
    /\ hand \in [id : Request \cup {NoRequest}, stream : Calls \cup {0},
                of : Calls \cup {0}]
    /\ late \subseteq Rows /\ ran \in BOOLEAN
    /\ inbox \subseteq Request /\ batch \subseteq Request
    /\ caller \in [Calls -> Request \cup {NoRequest}]
    /\ reader \in [Calls -> {"none", "open", "answered", "misled", "ended"}]
    /\ streams \in [Request -> Calls \cup {0}]
    /\ closed \in BOOLEAN /\ shutting_down \in BOOLEAN /\ complete \in BOOLEAN
    /\ stops \in Nat /\ closer \in {"none", "join", "first", "second"}

\* A caller only receives the result of its own request, although the id may be
\* used again between the removal of the request and the delivery.
StreamIsOwn == \A i \in Calls : reader[i] # "misled"

\* What reaches the model: open requests whose pages are reserved and whose
\* receives are complete.  Requests that were aborted or timed out after
\* schedule() returned never get there.
ExecutesBacked ==
    pc = "execute" =>
        \A r \in Scheduled :
            /\ r \in states /\ r \notin kv_loading /\ status[r] = "RUNNING"
            /\ \A q \in shape[r].rows : \E b \in Block : <<r, q, b>> \in owned

\* When the loop finds nothing to schedule, nothing is left behind: no request
\* waits for a delivery, no page is reserved, no receive is open.
IdleIsClean ==
    pc = "wait" /\ ~HasRequests /\ phase = "idle" =>
        /\ states = {} /\ owned = {} /\ kv_loading = {} /\ kv_received = {}
        /\ \A r \in Request : generation[r] = 0

\* The steps that run without _cv never rebuild the waiting queue, to which
\* add_request may be appending in another thread.
LockFree == {"late", "filter", "drains", "update", "started"}
KeepsQueue == pc' # pc /\ pc \in LockFree => waiting' = waiting
LockFreeStepsKeepQueue == [][KeepsQueue]_allVars

\* However the engine stops, no caller is left without an answer.
AllAnsweredAtExit ==
    pc = "exit" => \A i \in Calls : reader[i] # "open"

\* With native prefetch no pages are ever quarantined: an abort completes the
\* receive before the request is finished, and a timeout stops the engine.
PrefetchNeverDrains == Prefetch /\ ~closed => kv_draining = {}

\* Every call gets its final output, unless its reader leaves.
EveryCallAnswered ==
    \A i \in Calls : reader[i] = "open" ~> reader[i] # "open"

\* Quarantined pages return to the pool of a working engine, also when no
\* request follows that would start another wave.
QuarantineEnds ==
    \A r \in Request : r \in kv_draining ~> (r \notin kv_draining \/ closed)

\* "repeating executor.shutdown() is unsafe" (_fail_engine).
ShutdownOnce == stops <= 1
=============================================================================
