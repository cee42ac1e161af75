------------------------- MODULE DiffusionWaveProofs -------------------------
(***************************************************************************)
(* Theorems about DiffusionEngine that need the scheduler's whole          *)
(* invariant: a wave that reaches the model is backed by pages and         *)
(* received data, and an engine without work has nothing left behind.      *)
(***************************************************************************)
EXTENDS DiffusionEngineProofs, DiffusionQueueProofs

-----------------------------------------------------------------------------
(***************************************************************************)
(* What reaches the model.  Requests start to run, and receives start, in  *)
(* schedule() only, so the argument follows the receives of the wave: the  *)
(* rows that prepare_kv_for_forward awaits cover them all, those which it  *)
(* did not complete fail their request, and filtering drops it.            *)
(***************************************************************************)
WaveLoads == running \cap kv_loading

AwaitsWave ==
    /\ \A r \in WaveLoads : RowsOf(r) \subseteq AwaitedRows
    /\ out.transfer # {} => out.metadata

\* What the scheduler keeps, for a client that never preempts.
InCall == phase \in {"admit", "prefetch", "publish"}

ScheduledInv ==
    /\ \A r \in Scheduled : r \in states /\ (r \in running \/ IsFinished(r))
    /\ InCall => Scheduled \subseteq running
    /\ phase = "idle" => Scheduled = {}
    /\ phase = "prefetch" => Prefetch
    /\ ~Prefetch => \A r \in Request : HasPages(r) => ~Queuing(r)
    /\ \A r \in kv_loading : ~(RowsOf(r) \subseteq kv_received)
    /\ phase = "admit" /\ ~Prefetch =>
           \A r \in WaveLoads : RowsOf(r) \subseteq kv_transfer
    /\ phase \in {"prefetch", "publish"} => AwaitsWave

\* Where the receives of the wave are over.
WaveReceived == {"filter", "drains", "execute", "poll", "polled", "executed",
                 "update", "emit", "finalize", "put", "aborts", "pending",
                 "wait", "schedule"}

LaunchInv ==
    /\ pc \in {"started", "prepare"} => AwaitsWave
    /\ pc \in {"prepared", "late"} => \A r \in WaveLoads : RowsOf(r) \cap late # {}
    /\ pc \in WaveReceived => WaveLoads = {}
    /\ pc \in {"started", "drains", "execute"} => Scheduled \subseteq running

\* Steps that touch neither the wave nor its receives.
LEMMA ScheduledFrame ==
    ASSUME ScheduledInv,
           UNCHANGED <<states, status, shape, running, kv_loading, kv_received,
                       kv_transfer, out, phase>>,
           \A r \in Request : HasPages(r)' /\ Queuing(r)' => HasPages(r) /\ Queuing(r)
    PROVE  ScheduledInv'
BY DEF ScheduledInv, Scheduled, InCall, WaveLoads, AwaitsWave, AwaitedRows, RowsOf,
       IsFinished

\* Finished requests stay listed and lose nothing but their place.
LEMMA FinishScheduled ==
    ASSUME TypeOK, ScheduledInv, NEW outcome,
           \A r \in DOMAIN outcome : outcome[r] \in Terminal,
           FinishRequests(outcome),
           InCall => Finishing(outcome) \cap running = {},
           phase' = phase \/ (phase = "prefetch" /\ phase' = "publish"),
           UNCHANGED <<states, shape, deferred, kv_loading, kv_received, kv_transfer,
                       out>>
    PROVE  ScheduledInv'
<1> DEFINE done == Finishing(outcome)
<1>1. /\ running' = running \ done /\ waiting' = Without(waiting, done)
      /\ owned' = {o \in owned : o[1] \notin Releasable(done)}
  BY DEF FinishRequests
<1>2. \A r \in Request : IsFinished(r)' <=> IsFinished(r) \/ r \in done
  BY DEF FinishRequests, Finishing, IsFinished
<1>3. \A r : Queuing(r)' => Queuing(r)
  <2>1. waiting \in Seq(Request)
    BY DEF TypeOK
  <2>2. \A x : InSeq(x, waiting') <=> InSeq(x, waiting) /\ x \notin done
    BY <1>1, <2>1, WithoutProperties
  <2> QED BY <2>2 DEF Queuing
<1>4. \A r : HasPages(r)' => HasPages(r)
  BY <1>1 DEF HasPages
<1>5. Scheduled' = Scheduled /\ Scheduled \subseteq Request
  BY DEF Scheduled, TypeOK, Output
<1> HIDE DEF done
<1>6. \A r \in Scheduled' : r \in states' /\ (r \in running' \/ IsFinished(r)')
  BY <1>1, <1>2, <1>5 DEF ScheduledInv
<1>7. InCall' => Scheduled' \subseteq running'
  BY <1>1, <1>5 DEF ScheduledInv, InCall, done
<1>8. WaveLoads' \subseteq WaveLoads /\ \A r : RowsOf(r)' = RowsOf(r)
  BY <1>1 DEF WaveLoads, RowsOf
<1>9. AwaitsWave => AwaitsWave'
  BY <1>8 DEF AwaitsWave, AwaitedRows
<1> QED BY <1>3, <1>4, <1>5, <1>6, <1>7, <1>8, <1>9 DEF ScheduledInv

\* A new receive has no row received.
LEMMA ReserveLoads ==
    ASSUME PageInv, ScheduledInv, NEW r \in Request,
           NEW res \in Reservations(r), ~HasPages(r),
           Reserve(r, res), UNCHANGED <<shape, kv_received>>
    PROVE  /\ r \notin kv_loading
           /\ \A x \in kv_loading' : ~(RowsOf(x)' \subseteq kv_received')
<1>1. r \notin kv_loading
  BY DEF PageInv, LoadingIsHeld
<1>2. PICK q \in shape[r].rows : TRUE
  BY ShapeFields DEF PageInv, TypeOK
<1>3. <<r, q>> \in RowsOf(r) /\ <<r, q>> \notin kv_received
  <2>1. <<r, q>> \notin RowsOfAll(kv_loading)
    BY <1>1, RowsOfAllElements
  <2> QED BY <1>2, <2>1 DEF RowsOf, PageInv, ReceivesAccounted
<1>4. kv_loading' \subseteq kv_loading \cup {r}
  BY DEF Reserve
<1>5. \A x : RowsOf(x)' = RowsOf(x)
  BY DEF RowsOf
<1> QED BY <1>1, <1>3, <1>4, <1>5 DEF ScheduledInv

\* The request at the head of the queue joins the wave.
LEMMA StartScheduled ==
    ASSUME TypeOK, ScheduledInv, QueueInv', NEW r \in Request, AtHead(r), StartRunning(r),
           UNCHANGED <<states, shape, deferred, kv_received, phase>>,
           \A x \in Request \ {r} : HasPages(x)' => HasPages(x),
           \A x \in kv_loading' : ~(RowsOf(x)' \subseteq kv_received'),
           ~Prefetch => \A x \in WaveLoads' : RowsOf(x)' \subseteq kv_transfer'
    PROVE  ScheduledInv'
<1>1. /\ waiting # <<>> /\ waiting \in Seq(Request) /\ r = Head(waiting)
      /\ waiting' = Tail(waiting) /\ running' = running \cup {r} /\ r \in states
      /\ status' = [status EXCEPT ![r] = "RUNNING"] /\ phase = "admit"
      /\ Scheduled' = Scheduled \cup {r}
  BY DEF AtHead, StartRunning, TypeOK, Output, Scheduled
<1>2. \A x : InSeq(x, waiting) <=> x = r \/ InSeq(x, waiting')
  BY <1>1, HeadAndTail
<1>3. \A x : Queuing(x)' => Queuing(x)
  BY <1>2 DEF Queuing
<1>4. Scheduled' \subseteq running' /\ Scheduled' \subseteq states'
  BY <1>1 DEF ScheduledInv, InCall
<1>5. ~Queuing(r)'
  BY <1>1 DEF QueueInv, QueueParts
<1> QED BY <1>1, <1>3, <1>4, <1>5 DEF ScheduledInv, InCall

LEMMA ScheduledStep ==
    ASSUME PageInv, QueueInv, QueueInv', HoldInv, ScheduledInv, [EngineCall]_vars,
           pc = "schedule" => WaveLoads = {}
    PROVE  ScheduledInv'
<1>a. /\ TypeOK /\ QueueParts /\ LoadingIsHeld
      /\ waiting \in Seq(Request) /\ deferred \in Seq(Request)
      /\ states \subseteq Request /\ running \subseteq Request
      /\ kv_loading \subseteq Request /\ Scheduled \subseteq Request
  BY DEF PageInv, QueueInv, TypeOK, Output, Scheduled
<1>b. \A x \in running : x \in states /\ ~IsFinished(x) /\ ~Queuing(x)
  BY <1>a DEF QueueParts, Unfinished
<1>c. waiting # <<>> => Queuing(Head(waiting))
  BY <1>a, HeadAndTail DEF Queuing
<1>1. ASSUME NEW r \in Request, NEW s \in Shape, AddRequest(r, s)
      PROVE  ScheduledInv'
  <2>1. /\ r \notin states /\ r \notin kv_draining /\ phase \in {"idle", "flight"}
        /\ states' = states \cup {r} /\ waiting' = Append(waiting, r)
        /\ status' = [status EXCEPT ![r] = "WAITING"]
        /\ shape' = [shape EXCEPT ![r] = s]
        /\ UNCHANGED <<running, deferred, owned, kv_loading, kv_received, kv_transfer,
                       out, phase>>
    BY <1>1 DEF AddRequest, Admissible, pageVars, kvVars, waveVars
  <2>2. r \notin running /\ r \notin kv_loading /\ r \notin Scheduled /\ ~HasPages(r)
    BY <2>1, <1>a, <1>b DEF LoadingIsHeld, ScheduledInv, HoldInv, Unfinished
  <2>3. \A x \in Request \ {r} : /\ IsFinished(x)' = IsFinished(x)
                                /\ RowsOf(x)' = RowsOf(x)
    BY <2>1, <1>a DEF IsFinished, RowsOf, TypeOK
  <2>4. \A x : Queuing(x)' <=> Queuing(x) \/ x = r
    BY <2>1, <1>a, InAppend DEF Queuing
  <2>5. \A x : HasPages(x)' <=> HasPages(x)
    BY <2>1 DEF HasPages
  <2>6. /\ Scheduled' = Scheduled
        /\ \A x \in Scheduled' : x \in states' /\ (x \in running' \/ IsFinished(x)')
    BY <2>1, <2>2, <2>3, <1>a DEF Scheduled, ScheduledInv
  <2>7. \A x \in kv_loading' : ~(RowsOf(x)' \subseteq kv_received')
    BY <2>1, <2>2, <2>3, <1>a DEF ScheduledInv
  <2> QED BY <2>1, <2>2, <2>4, <2>5, <2>6, <2>7 DEF ScheduledInv, InCall
<1>2. CASE pc = "schedule" /\ ScheduleBegin
  <2>1. /\ phase' = "admit" /\ deferred' = <<>> /\ Scheduled' = running
        /\ UNCHANGED <<states, status, shape, running, waiting, owned, kv_loading,
                       kv_received>>
    BY <1>2 DEF ScheduleBegin, requestVars, queueVars, pageVars, kvVars, Scheduled,
                EmptyOutput
  <2>2. \A x : Queuing(x)' => Queuing(x)
    BY <2>1, EmptyQueue DEF Queuing
  <2>3. WaveLoads' = {}
    BY <1>2, <2>1 DEF WaveLoads
  <2>4. \A x : (HasPages(x)' <=> HasPages(x)) /\ RowsOf(x)' = RowsOf(x)
    BY <2>1 DEF HasPages, RowsOf
  <2> QED BY <2>1, <2>2, <2>3, <2>4, <1>b DEF ScheduledInv, InCall
<1>3. ASSUME NEW r \in Request, AdmitDefer(r) PROVE ScheduledInv'
  <2>1. /\ waiting # <<>> /\ r = Head(waiting) /\ waiting' = Tail(waiting)
        /\ deferred' = Append(deferred, r)
        /\ UNCHANGED <<states, status, shape, running, owned, kv_loading, kv_received,
                       kv_transfer, out, phase>>
    BY <1>3 DEF AdmitDefer, AtHead, requestVars, pageVars, kvVars
  <2>2. \A x : Queuing(x)' => Queuing(x)
    <3>1. \A x : InSeq(x, waiting) <=> x = r \/ InSeq(x, waiting')
      BY <2>1, <1>a, HeadAndTail
    <3>2. \A x : InSeq(x, deferred') <=> InSeq(x, deferred) \/ x = r
      BY <2>1, <1>a, InAppend
    <3> QED BY <3>1, <3>2 DEF Queuing
  <2>3. \A x : HasPages(x)' <=> HasPages(x)
    BY <2>1 DEF HasPages
  <2> QED BY <2>1, <2>2, <2>3, ScheduledFrame
<1>4. ASSUME NEW r \in Request, AdmitReserved(r) PROVE ScheduledInv'
  <2>1. /\ AtHead(r) /\ HasPages(r) /\ StartRunning(r) /\ Queuing(r)
        /\ UNCHANGED <<states, shape, deferred, owned, kv_loading, kv_received,
                       kv_transfer, phase>>
    BY <1>4, <1>c DEF AdmitReserved, AtHead, pageVars
  <2>2. Prefetch
    BY <2>1 DEF ScheduledInv
  <2>3. \A x : (HasPages(x)' <=> HasPages(x)) /\ RowsOf(x)' = RowsOf(x)
    BY <2>1 DEF HasPages, RowsOf
  <2>4. \A x \in kv_loading' : ~(RowsOf(x)' \subseteq kv_received')
    BY <2>1, <2>3 DEF ScheduledInv
  <2> QED BY <2>1, <2>2, <2>3, <2>4, <1>a, StartScheduled
<1>5. ASSUME NEW r \in Request, NEW res \in Reservations(r),
             AdmitNew(r, res)
      PROVE  ScheduledInv'
  <2>1. /\ AtHead(r) /\ ~HasPages(r) /\ StartRunning(r) /\ Reserve(r, res)
        /\ UNCHANGED <<states, shape, deferred, kv_received, phase>>
        /\ phase = "admit"
    BY <1>5 DEF AdmitNew, AtHead
  <2>2. \A x : x # r => (HasPages(x)' <=> HasPages(x))
    BY <2>1, <1>a, ReservePages DEF Reserve
  <2>3. /\ r \notin kv_loading
        /\ \A x \in kv_loading' : ~(RowsOf(x)' \subseteq kv_received')
    BY <2>1, ReserveLoads
  <2>4. \A x : RowsOf(x)' = RowsOf(x)
    BY <2>1 DEF RowsOf
  <2>5. ASSUME ~Prefetch, NEW x \in WaveLoads' PROVE RowsOf(x)' \subseteq kv_transfer'
    <3>1. kv_transfer \subseteq kv_transfer'
      BY <2>1 DEF Reserve
    <3>2. CASE x = r
      BY <2>1, <2>3, <2>4, <2>5, <3>2 DEF Reserve, WaveLoads
    <3>3. CASE x # r
      <4>1. x \in WaveLoads
        BY <2>1, <2>5, <3>3 DEF WaveLoads, StartRunning, Reserve
      <4> QED BY <4>1, <3>1, <2>1, <2>4, <2>5 DEF ScheduledInv
    <3> QED BY <3>2, <3>3
  <2> QED BY <2>1, <2>2, <2>3, <2>5, <1>a, StartScheduled
<1>6. ASSUME NEW r \in Request, AdmitTooLarge(r) \/ AdmitUnregistered(r)
      PROVE  ScheduledInv'
  <2>1. /\ FinishRequests([x \in {r} |-> "ERROR"]) /\ r \notin running
        /\ UNCHANGED <<states, shape, deferred, kv_loading, kv_received, kv_transfer,
                       out, phase>>
    BY <1>6, <1>b, <1>c DEF AdmitTooLarge, AdmitUnregistered, AtHead
  <2>2. Finishing([x \in {r} |-> "ERROR"]) \cap running = {}
    BY <2>1 DEF Finishing
  <2> QED BY <2>1, <2>2, <1>a, FinishScheduled DEF Terminal
<1>7. CASE ScheduleEnd
  <2>1. /\ phase = "admit" /\ phase' = IF Prefetch THEN "prefetch" ELSE "publish"
        /\ Scheduled' = Scheduled /\ waiting' = deferred \o waiting /\ deferred' = <<>>
        /\ UNCHANGED <<states, status, shape, running, owned, kv_loading, kv_received>>
    BY <1>7, <1>a DEF ScheduleEnd, Requeued, requestVars, pageVars, Scheduled, TypeOK,
                      Output
  <2>2. \A x : Queuing(x)' => Queuing(x)
    BY <2>1, <1>a, InConcat, EmptyQueue DEF Queuing
  <2>3. \A x : (HasPages(x)' <=> HasPages(x)) /\ RowsOf(x)' = RowsOf(x)
    BY <2>1 DEF HasPages, RowsOf
  <2>4. /\ out'.transfer = kv_transfer
        /\ kv_transfer # {} => out'.metadata
        /\ Prefetch => out'.required = RowsOfAll(WaveLoads)
    BY <1>7, <1>a DEF ScheduleEnd, WaveLoads, TypeOK, Output
  <2>5. \A x \in WaveLoads : RowsOf(x) \subseteq RowsOfAll(WaveLoads)
    BY DEF RowsOfAll
  <2>6. AwaitsWave'
    <3>1. WaveLoads' = WaveLoads
      BY <2>1 DEF WaveLoads
    <3>2. \A x \in WaveLoads' : RowsOf(x)' \subseteq AwaitedRows'
      BY <2>1, <2>3, <2>4, <2>5, <3>1 DEF AwaitedRows, ScheduledInv
    <3> QED BY <2>4, <3>2 DEF AwaitsWave
  <2>7. \A x \in Scheduled' : x \in states' /\ x \in running'
    BY <2>1, <1>b DEF ScheduledInv, InCall
  <2>8. \A x \in kv_loading' : ~(RowsOf(x)' \subseteq kv_received')
    BY <2>1, <2>3 DEF ScheduledInv
  <2> QED BY <2>1, <2>2, <2>3, <2>6, <2>7, <2>8 DEF ScheduledInv
<1>8. ASSUME NEW r \in Request, NEW res \in Reservations(r),
             PrefetchStart(r, res)
      PROVE  ScheduledInv'
  <2>1. /\ phase = "prefetch" /\ phase' = "publish" /\ ~HasPages(r) /\ Reserve(r, res)
        /\ r \notin running
        /\ UNCHANGED <<states, status, shape, running, waiting, deferred, kv_received,
                       out>>
    BY <1>8, <1>b, <1>c DEF PrefetchStart, Prefetchable, queueVars
  <2>2. \A x \in kv_loading' : ~(RowsOf(x)' \subseteq kv_received')
    BY <2>1, ReserveLoads
  <2>3. WaveLoads' \subseteq WaveLoads
    BY <2>1 DEF WaveLoads, Reserve
  <2>4. AwaitsWave'
    BY <2>1, <2>3 DEF ScheduledInv, AwaitsWave, AwaitedRows, RowsOf
  <2>5. Prefetch
    BY <2>1 DEF ScheduledInv
  <2>6. /\ Scheduled' = Scheduled
        /\ \A x \in Scheduled' : x \in states' /\ x \in running'
    BY <2>1, <1>b DEF Scheduled, ScheduledInv, InCall
  <2> QED BY <2>1, <2>2, <2>4, <2>5, <2>6 DEF ScheduledInv
<1>9. ASSUME NEW r \in Request, PrefetchUnregistered(r) PROVE ScheduledInv'
  <2>1. /\ FinishRequests([x \in {r} |-> "ERROR"]) /\ r \notin running
        /\ phase = "prefetch" /\ phase' = "publish"
        /\ UNCHANGED <<states, shape, deferred, kv_loading, kv_received, kv_transfer,
                       out>>
    BY <1>9, <1>b, <1>c DEF PrefetchUnregistered, Prefetchable
  <2>2. Finishing([x \in {r} |-> "ERROR"]) \cap running = {}
    BY <2>1 DEF Finishing
  <2> QED BY <2>1, <2>2, <1>a, FinishScheduled DEF Terminal
<1>10. CASE PrefetchSkip \/ Publish
  <2>1. /\ phase \in {"prefetch", "publish"} /\ phase' \in {"publish", "flight"}
        /\ Scheduled' = Scheduled
        /\ UNCHANGED <<states, status, shape, running, waiting, deferred, owned,
                       kv_loading, kv_received>>
    BY <1>10, <1>a DEF PrefetchSkip, Publish, requestVars, queueVars, pageVars, kvVars,
                       Scheduled, TypeOK, Output
  <2>2. \A x : /\ HasPages(x)' <=> HasPages(x)
               /\ Queuing(x)' <=> Queuing(x)
               /\ IsFinished(x)' <=> IsFinished(x)
               /\ RowsOf(x)' = RowsOf(x)
    BY <2>1 DEF HasPages, Queuing, IsFinished, RowsOf
  <2>3. phase' = "publish" => AwaitsWave'
    <3>1. phase' = "publish" => UNCHANGED <<running, kv_loading, shape, out>>
      BY <1>10 DEF PrefetchSkip, Publish, requestVars, queueVars, kvVars
    <3> QED BY <3>1, <2>1 DEF ScheduledInv, AwaitsWave, AwaitedRows, WaveLoads, RowsOf
  <2> QED BY <2>1, <2>2, <2>3 DEF ScheduledInv, InCall
<1>11. ASSUME NEW D \in SUBSET arrived, UpdateKvConnectorOutput(D) PROVE ScheduledInv'
  <2> DEFINE got == kv_received \cup {d \in D : d[1] \in kv_loading}
  <2>1. /\ phase \in {"idle", "flight"}
        /\ kv_loading' = kv_loading \ CompletedLoads(got)
        /\ kv_received' = got \ RowsOfAll(CompletedLoads(got))
        /\ UNCHANGED <<states, status, shape, running, waiting, deferred, owned, out,
                       phase>>
    BY <1>11 DEF UpdateKvConnectorOutput, Unlocked, requestVars, queueVars, pageVars,
                 waveVars
  <2> HIDE DEF got
  <2>2. \A x \in kv_loading' : ~(RowsOf(x)' \subseteq kv_received')
    BY <2>1 DEF CompletedLoads, RowsOf
  <2> QED BY <2>1, <2>2 DEF ScheduledInv, Scheduled, InCall, HasPages, Queuing, IsFinished
<1>12. ASSUME NEW T \in SUBSET out.transfer, FailIncompleteKvLoads(T) PROVE ScheduledInv'
  <2> DEFINE failing == {r \in kv_loading \cap states : RowsOf(r) \cap T # {}}
             outcome == [r \in failing |-> "ERROR"]
  <2>1. /\ FinishRequests(outcome) /\ phase = "flight"
        /\ UNCHANGED <<states, shape, deferred, kv_loading, kv_received, kv_transfer,
                       out, phase>>
    BY <1>12 DEF FailIncompleteKvLoads, waveVars
  <2>2. \A r \in DOMAIN outcome : outcome[r] \in Terminal
    BY DEF Terminal
  <2> HIDE DEF outcome
  <2> QED BY <2>1, <2>2, <1>a, FinishScheduled DEF InCall
<1>13. CASE DropEnded
  <2>1. /\ Scheduled' = Scheduled \ Ended /\ phase = "flight"
        /\ UNCHANGED <<states, status, shape, running, waiting, deferred, owned,
                       kv_loading, kv_received, kv_transfer, phase>>
    BY <1>13, <1>a DEF DropEnded, Scheduled, TypeOK, Output, requestVars, queueVars,
                       pageVars, kvVars
  <2> QED BY <2>1 DEF ScheduledInv, InCall, HasPages, Queuing, IsFinished, RowsOf
<1>14. ASSUME NEW S \in SUBSET Request, FinishRequestList(S, "ABORTED") PROVE ScheduledInv'
  <2>1. /\ FinishRequests([x \in S |-> "ABORTED"]) /\ phase \in {"idle", "flight"}
        /\ UNCHANGED <<states, shape, deferred, kv_loading, kv_received, kv_transfer,
                       out, phase>>
    BY <1>14 DEF FinishRequestList, Unlocked, waveVars
  <2> QED BY <2>1, <1>a, FinishScheduled DEF InCall, Terminal
<1>15. CASE ReleaseKvDrains
  <2>1. UNCHANGED <<states, status, shape, running, waiting, deferred, kv_loading,
                    kv_received, kv_transfer, out, phase>>
    BY <1>15 DEF ReleaseKvDrains, requestVars, queueVars, waveVars
  <2>2. \A x : (HasPages(x)' => HasPages(x)) /\ (Queuing(x)' <=> Queuing(x))
    BY <1>15, <2>1 DEF ReleaseKvDrains, HasPages, Queuing
  <2> QED BY <2>1, <2>2, ScheduledFrame
<1>16. ASSUME NEW result \in [Scheduled -> Status], UpdateFromOutput(result)
       PROVE  ScheduledInv'
  <2> DEFINE open     == {r \in Scheduled : r \in states /\ ~IsFinished(r)}
             terminal == [r \in {x \in open : result[x] \in Terminal} |-> result[r]]
             done     == Finishing(terminal)
  <2>1. /\ phase' = "idle" /\ FinishRequests(terminal) /\ out' = EmptyOutput
        /\ UNCHANGED <<states, shape, kv_loading, kv_received, deferred>>
    BY <1>16 DEF UpdateFromOutput
  <2> HIDE DEF terminal
  <2>2. /\ waiting' = Without(waiting, done)
        /\ owned' = {o \in owned : o[1] \notin Releasable(done)}
    BY <2>1 DEF FinishRequests
  <2> HIDE DEF done
  <2>3. \A x : (HasPages(x)' => HasPages(x)) /\ RowsOf(x)' = RowsOf(x)
    BY <2>1, <2>2 DEF HasPages, RowsOf
  <2>4. \A x : Queuing(x)' => Queuing(x)
    <3>1. \A x : InSeq(x, waiting') <=> InSeq(x, waiting) /\ x \notin done
      BY <2>2, <1>a, WithoutProperties
    <3> QED BY <3>1, <2>1 DEF Queuing
  <2>5. Scheduled' = {}
    BY <2>1 DEF Scheduled, EmptyOutput
  <2> QED BY <2>1, <2>3, <2>4, <2>5 DEF ScheduledInv, InCall
<1>17. ASSUME NEW r \in Request, PopRequestState(r) PROVE ScheduledInv'
  <2>1. /\ phase = "idle" /\ r \in surfaced \cup PendingFinished
        /\ UNCHANGED <<status, shape, running, waiting, deferred, owned, kv_loading,
                       kv_received, kv_transfer, out, phase>>
    BY <1>17 DEF PopRequestState, queueVars, kvVars
  <2>2. Scheduled = {}
    BY <2>1 DEF ScheduledInv
  <2> QED BY <2>1, <2>2
          DEF ScheduledInv, Scheduled, InCall, HasPages, Queuing, IsFinished, RowsOf
<1>18. ASSUME NEW w \in writes, WriteArrives(w) PROVE ScheduledInv'
  <2>1. UNCHANGED <<states, status, shape, running, waiting, deferred, owned,
                    kv_loading, kv_received, kv_transfer, out, phase>>
    BY <1>18 DEF WriteArrives, requestVars, queueVars, pageVars, kvVars, waveVars
  <2> QED BY <2>1, ScheduledFrame DEF HasPages, Queuing
<1>19. CASE Close
  BY <1>19, EmptyQueue DEF Close, ScheduledInv, InCall, Scheduled, EmptyOutput, HasPages
<1>20. CASE UNCHANGED vars
  <2>1. UNCHANGED <<states, status, shape, running, waiting, deferred, owned,
                    kv_loading, kv_received, kv_transfer, out, phase>>
    BY <1>20 DEF vars, requestVars, queueVars, pageVars, kvVars, waveVars
  <2> QED BY <2>1, ScheduledFrame DEF HasPages, Queuing
<1> QED
  BY <1>1, <1>2, <1>3, <1>4, <1>5, <1>6, <1>7, <1>8, <1>9, <1>10, <1>11, <1>12,
     <1>13, <1>14, <1>15, <1>16, <1>17, <1>18, <1>19, <1>20
     DEF EngineCall, InSchedule, Admission, NativePrefetch

\* Steps that start no request and no receive, and go where less is promised.
LEMMA LaunchFrame ==
    ASSUME LaunchInv,
           running' \subseteq running, kv_loading' \subseteq kv_loading,
           \A r \in running : RowsOf(r)' = RowsOf(r),
           late' = late, out' = out,
           \/ pc' = pc
           \/ pc \in WaveReceived /\ pc' \in WaveReceived \ {"drains", "execute"}
           \/ pc = "prepared" /\ pc' = "late",
           pc' \in {"started", "drains", "execute"} => running' = running
    PROVE  LaunchInv'
<1>1. WaveLoads' \subseteq WaveLoads /\ WaveLoads \subseteq running
  BY DEF WaveLoads
<1>2. AwaitsWave => AwaitsWave'
  BY <1>1 DEF AwaitsWave, AwaitedRows
<1>3. Scheduled' = Scheduled
  BY DEF Scheduled
<1> QED BY <1>1, <1>2, <1>3 DEF LaunchInv, WaveReceived

\* Nothing is promised while schedule() runs or the engine stops.
Promised == WaveReceived \cup {"started", "prepare", "prepared", "late"}

LEMMA NotPromised == pc' \notin Promised => LaunchInv'
BY DEF LaunchInv, Promised, WaveReceived

\* An output that asks for no preparation has no receives in its wave.
LEMMA NothingAwaited == TypeOK /\ AwaitsWave /\ NothingToDo => WaveLoads = {}
<1> SUFFICES ASSUME TypeOK, AwaitsWave, NothingToDo, NEW r \in WaveLoads PROVE FALSE
  OBVIOUS
<1>1. AwaitedRows = {}
  BY DEF AwaitsWave, NothingToDo, AwaitedRows
<1>2. PICK q \in shape[r].rows : TRUE
  BY ShapeFields DEF WaveLoads, TypeOK
<1>3. <<r, q>> \in RowsOf(r)
  BY <1>2 DEF RowsOf
<1> QED BY <1>1, <1>3 DEF AwaitsWave

\* What the scheduler's operations do to the wave.
LEMMA WaveShrinks ==
    /\ \A S : FinishRequestList(S, "ABORTED") =>
           running' \subseteq running /\ UNCHANGED <<kv_loading, shape, out>>
    /\ \A D : UpdateKvConnectorOutput(D) =>
           kv_loading' \subseteq kv_loading /\ UNCHANGED <<running, shape, out>>
    /\ \A result : UpdateFromOutput(result) =>
           running' \subseteq running /\ UNCHANGED kv_loading
BY DEF FinishRequestList, FinishRequests, UpdateKvConnectorOutput, UpdateFromOutput,
       requestVars, queueVars, waveVars

\* The receives of a wave that prepare_kv_for_forward leaves open are late.
LEMMA PrepareFindsLate ==
    ASSUME ScheduledInv, AwaitsWave, ReportReceives,
           late' = AwaitedRows \ (arrived \cup kv_received)
    PROVE  \A r \in WaveLoads' : RowsOf(r)' \cap late' # {}
<1> SUFFICES ASSUME NEW r \in WaveLoads' PROVE RowsOf(r)' \cap late' # {}
  OBVIOUS
<1>1. running' = running /\ shape' = shape /\ kv_loading' \subseteq kv_loading
  BY DEF ReportReceives, IfAny, UpdateKvConnectorOutput, vars, requestVars, queueVars,
         kvVars
<1>2. r \in WaveLoads /\ RowsOf(r)' = RowsOf(r)
  BY <1>1 DEF WaveLoads, RowsOf
<1>3. RowsOf(r) \subseteq AwaitedRows
  BY <1>2 DEF AwaitsWave
<1>4. PICK d \in RowsOf(r) : d \notin kv_received /\ d \notin arrived
  <2>1. CASE arrived = {}
    BY <2>1, <1>2 DEF ScheduledInv, WaveLoads
  <2>2. CASE arrived # {}
    <3> DEFINE got == kv_received \cup {d \in arrived : d[1] \in kv_loading}
    <3>1. kv_loading' = kv_loading \ CompletedLoads(got)
      BY <2>2 DEF ReportReceives, IfAny, UpdateKvConnectorOutput
    <3> HIDE DEF got
    <3>2. PICK d \in RowsOf(r) : d \notin got
      BY <3>1, <1>2 DEF WaveLoads, CompletedLoads
    <3>3. d[1] = r /\ r \in kv_loading
      BY <1>2 DEF RowsOf, WaveLoads
    <3> QED BY <3>2, <3>3 DEF got
  <2> QED BY <2>1, <2>2
<1> QED BY <1>2, <1>3, <1>4

\* Failing the late receives ends the last receives of the wave.
LEMMA FailLateEnds ==
    ASSUME TypeOK, QueueInv, FailLate, \A r \in WaveLoads : RowsOf(r) \cap late # {}
    PROVE  WaveLoads' = {}
<1> DEFINE S       == {r \in kv_loading \cap states : RowsOf(r) \cap late # {}}
           outcome == [r \in S |-> "ERROR"]
<1>1. WaveLoads \subseteq Finishing(outcome)
  <2>1. \A r \in WaveLoads : r \in kv_loading /\ r \in states /\ ~IsFinished(r)
    BY DEF WaveLoads, QueueInv, QueueParts, Unfinished, TypeOK
  <2> QED BY <2>1 DEF Finishing
<1>2. \/ FailIncompleteKvLoads(late)
      \/ Finishing(outcome) = {} /\ UNCHANGED vars
  BY DEF FailLate, IfAny
<1>3. CASE FailIncompleteKvLoads(late)
  <2>1. running' = running \ Finishing(outcome) /\ kv_loading' = kv_loading
    BY <1>3 DEF FailIncompleteKvLoads, FinishRequests
  <2> QED BY <2>1, <1>1 DEF WaveLoads
<1>4. CASE Finishing(outcome) = {} /\ UNCHANGED vars
  BY <1>4, <1>1 DEF WaveLoads, vars, queueVars, kvVars
<1> QED BY <1>2, <1>3, <1>4

LEMMA LaunchStep ==
    ASSUME PageInv, QueueInv, LoopInv, ScheduledInv, LaunchInv, [EngineNext]_allVars
    PROVE  LaunchInv'
<1> USE DEF RowsOf
<1>t. TypeOK
  BY DEF PageInv
<1>1. ASSUME NEW r \in Request, NEW s \in Shape, Add(r, s) PROVE LaunchInv'
  <2>1. /\ r \notin states /\ shape' = [shape EXCEPT ![r] = s]
        /\ UNCHANGED <<running, kv_loading, out, pc, late>>
    BY <1>1 DEF Add, AddRequest, Admissible, kvVars, waveVars, loopVars
  <2>2. \A x \in running : x \in Request /\ x # r
    BY <2>1, <1>t DEF QueueInv, QueueParts, Unfinished, TypeOK
  <2>3. \A x \in running : shape'[x] = shape[x]
    BY <2>1, <2>2, <1>t DEF TypeOK
  <2> QED BY <2>1, <2>3, LaunchFrame
<1>2. CASE \/ \E r \in Request : RequestAbort(r)
           \/ \E i \in Calls : ReaderEnds(i)
           \/ CloseBegin \/ CloseWait \/ Stopped \/ UNCHANGED allVars
  <2>1. UNCHANGED <<running, kv_loading, shape, out, pc, late>>
    BY <1>2 DEF RequestAbort, ReaderEnds, CloseBegin, CloseWait, Stopped, allVars, vars,
                engineVars, loopVars, requestVars, queueVars, kvVars, waveVars
  <2> QED BY <2>1, LaunchFrame
<1>3. CASE CloseStops \/ CloseSecond
  <2>1. pc' = "exit"
    BY <1>3 DEF CloseStops, CloseFirst, CloseSecond, CloseDrainFails, LoopInv, loopVars
  <2> QED BY <2>1, NotPromised DEF Promised, WaveReceived
<1>4. CASE Arrival
  <2>1. UNCHANGED <<running, kv_loading, shape, out, pc, late>>
    BY <1>4 DEF Arrival, WriteArrives, requestVars, queueVars, kvVars, waveVars,
                engineVars, loopVars
  <2> QED BY <2>1, LaunchFrame
<1>5. CASE BusyLoop
  <2>1. CASE LoopStops \/ DrainAbortsFails \/ CallSchedule \/ ScheduleGoesOn
             \/ ScheduleRaises \/ PrepareFails \/ EndDrainsFails
             \/ FailBegin \/ FailStop \/ FailClose \/ FailHeld
    <3>1. pc' \notin Promised
      BY <2>1 DEF LoopStops, DrainAbortsFails, CallSchedule, ScheduleGoesOn,
         ScheduleRaises, PrepareFails, EndDrainsFails, FailBegin, FailStop, FailClose,
         FailHeld, Goto, Promised, WaveReceived, engineVars, loopVars
    <3> QED BY <3>1, NotPromised
  <2>2. CASE ProcessAbortsQueue /\ ~DrainAbortsFails
    <3>1. /\ running' \subseteq running /\ kv_loading' \subseteq kv_loading
          /\ UNCHANGED <<shape, out>>
      BY <2>2, WaveShrinks
         DEF ProcessAbortsQueue, NoAborts, ProcessAborts, TakeAborts, DrainAborts,
             AbortDrained, Abort, IfAny, vars, requestVars, queueVars, kvVars, waveVars
    <3>2. /\ late' = late /\ pc \in AbortSite
          /\ pc' \in {pc, Next4(pc), "failing_held"}
      BY <2>2 DEF ProcessAbortsQueue, NoAborts, ProcessAborts, TakeAborts, DrainAborts,
         AbortDrained, Goto, GotoOrFailHeld, engineVars, loopVars
    <3>3. CASE pc' = "failing_held"
      BY <3>3, NotPromised DEF Promised, WaveReceived
    <3>4. CASE pc' \in {pc, Next4(pc)}
      <4>1. \/ pc' = pc
            \/ pc \in WaveReceived /\ pc' \in WaveReceived \ {"drains", "execute"}
            \/ pc = "prepared" /\ pc' = "late"
        BY <3>2, <3>4 DEF AbortSite, Next4, WaveReceived
      <4>2. pc' \notin {"started", "drains", "execute"}
        BY <3>2, <3>4 DEF AbortSite, Next4
      <4> QED BY <3>1, <3>2, <4>1, <4>2, LaunchFrame
    <3> QED BY <3>2, <3>3, <3>4
  <2>3. CASE CollectPending \/ (\E r \in Request : Capture(r)) \/ Finalize \/ Put
             \/ Delivered \/ WaitEnds \/ Execute \/ ExecuteRaises \/ Poll
    <3>1. /\ running' = running /\ kv_loading' \subseteq kv_loading
          /\ UNCHANGED <<shape, late>>
      BY <2>3, WaveShrinks
         DEF CollectPending, Capture, Finalize, Put, Delivered, WaitEnds, Execute,
             ExecuteRaises, Poll, ReportReceives, IfAny, PopRequestState, vars,
             requestVars, queueVars, kvVars
    <3>2. /\ pc \in WaveReceived
          /\ pc' \in (WaveReceived \ {"drains", "execute"}) \cup {"failing", "exit"}
      BY <2>3 DEF CollectPending, Capture, Finalize, Put, Delivered, WaitEnds, Execute,
         ExecuteRaises, Poll, Goto, GotoOrFail, WaveReceived, LoopInv
    <3>3. out' = out
      BY <2>3, WaveShrinks
         DEF CollectPending, Capture, Finalize, Put, Delivered, WaitEnds, Execute,
             ExecuteRaises, Poll, ReportReceives, IfAny, PopRequestState, vars, waveVars
    <3> QED BY <3>1, <3>2, <3>3, LaunchFrame, NotPromised DEF Promised, WaveReceived
  <2>4. CASE ScheduleReturns
    <3>1. /\ phase = "publish" /\ pc' = "started"
          /\ UNCHANGED <<running, kv_loading, shape>>
      BY <2>4 DEF ScheduleReturns, Publish, Goto, requestVars
    <3>2. /\ out'.required = out.required /\ out'.new = out.new
          /\ out'.cached = out.cached
          /\ out'.transfer = out.transfer \cup kv_transfer
          /\ out.metadata \/ kv_transfer # {} => out'.metadata
      BY <2>4, <1>t DEF ScheduleReturns, Publish, TypeOK, Output
    <3>3. AwaitsWave /\ Scheduled \subseteq running
      BY <3>1 DEF ScheduledInv, InCall
    <3>4. AwaitsWave'
      BY <3>1, <3>2, <3>3 DEF AwaitsWave, AwaitedRows, WaveLoads
    <3>5. Scheduled' \subseteq running'
      BY <3>1, <3>2, <3>3 DEF Scheduled
    <3> QED BY <3>1, <3>4, <3>5 DEF LaunchInv, WaveReceived
  <2>5. CASE EmptyWave \/ Update
    <3>1. /\ pc' \in {"emit", "failing"}
          /\ running' \subseteq running /\ kv_loading' = kv_loading
      BY <2>5, WaveShrinks DEF EmptyWave, Update, GotoOrFail
    <3>2. WaveLoads = {}
      BY <2>5, <1>t, NothingAwaited
         DEF EmptyWave, Update, GotoOrFail, IsEmpty, NothingToDo, LaunchInv, WaveReceived
    <3>3. WaveLoads' = {}
      BY <3>1, <3>2 DEF WaveLoads
    <3> QED BY <3>1, <3>3 DEF LaunchInv
  <2>6. CASE StartWave
    <3>1. /\ pc = "started" /\ pc' = IF NothingToDo THEN "execute" ELSE "prepare"
          /\ UNCHANGED <<running, kv_loading, shape, out>>
      BY <2>6 DEF StartWave, Goto, vars, requestVars, queueVars, kvVars, waveVars
    <3>2. AwaitsWave /\ Scheduled \subseteq running
      BY <3>1 DEF LaunchInv
    <3>3. AwaitsWave' /\ Scheduled' \subseteq running' /\ WaveLoads' = WaveLoads
      BY <3>1, <3>2 DEF AwaitsWave, AwaitedRows, WaveLoads, Scheduled
    <3>4. CASE NothingToDo
      BY <3>1, <3>2, <3>3, <3>4, <1>t, NothingAwaited DEF LaunchInv
    <3>5. CASE ~NothingToDo
      BY <3>1, <3>3, <3>5 DEF LaunchInv, WaveReceived
    <3> QED BY <3>4, <3>5
  <2>7. CASE Prepare
    <3>1. AwaitsWave /\ pc' = "prepared"
      BY <2>7 DEF Prepare, Goto, LaunchInv
    <3>2. \A r \in WaveLoads' : RowsOf(r)' \cap late' # {}
      BY <2>7, <3>1, PrepareFindsLate DEF Prepare
    <3> QED BY <3>1, <3>2 DEF LaunchInv, WaveReceived
  <2>8. CASE FailLate
    <3>1. pc = "late" /\ pc' = "filter"
      BY <2>8 DEF FailLate, Goto
    <3>2. WaveLoads' = {}
      BY <2>8, <3>1, <1>t, FailLateEnds DEF LaunchInv
    <3> QED BY <3>1, <3>2 DEF LaunchInv
  <2>9. CASE FilterEnded
    <3>1. /\ pc = "filter" /\ pc' = "drains"
          /\ UNCHANGED <<running, kv_loading>>
      BY <2>9 DEF FilterEnded, Goto, IfAny, DropEnded, vars, queueVars, kvVars
    <3>2. Scheduled' = Scheduled \ Ended
      <4>1. CASE Ended # {} /\ DropEnded
        BY <4>1, <1>t DEF DropEnded, Scheduled, TypeOK, Output
      <4>2. CASE Ended = {} /\ UNCHANGED vars
        <5>1. Scheduled' = Scheduled
          BY <4>2 DEF Scheduled, vars, waveVars
        <5> QED BY <5>1, <4>2
      <4> QED BY <2>9, <4>1, <4>2 DEF FilterEnded, IfAny
    <3>3. Scheduled' \subseteq running'
      BY <3>1, <3>2 DEF Ended, ScheduledInv
    <3> QED BY <3>1, <3>3 DEF LaunchInv, WaveReceived, WaveLoads
  <2>10. CASE EndDrains
    <3>1. /\ pc = "drains" /\ pc' = "execute"
          /\ UNCHANGED <<running, kv_loading, out>>
      BY <2>10 DEF EndDrains, Goto, IfAny, ReleaseKvDrains, vars, queueVars, kvVars,
                   waveVars
    <3> QED BY <3>1 DEF LaunchInv, WaveReceived, WaveLoads, Scheduled
  <2> QED BY <1>5, <2>1, <2>2, <2>3, <2>4, <2>5, <2>6, <2>7, <2>8, <2>9, <2>10
          DEF BusyLoop, PrepareKv
<1> QED BY <1>1, <1>2, <1>3, <1>4, <1>5 DEF EngineNext, Closing

LEMMA WaveInit == EngineInit => ScheduledInv /\ LaunchInv
BY EmptyQueue
   DEF EngineInit, Init, ScheduledInv, LaunchInv, InCall, Scheduled, EmptyOutput,
       WaveLoads, HasPages, Queuing

LEMMA WaveInvariant == EngineSafe => [](WholeInv /\ ScheduledInv /\ LaunchInv)
<1>1. EngineInit => ScheduledInv /\ LaunchInv /\ LoopInv
  BY WaveInit, LoopInit
<1>2. /\ WholeInv /\ WholeInv' /\ LoopInv /\ ScheduledInv /\ LaunchInv
      /\ [EngineNext]_allVars
      => LoopInv' /\ ScheduledInv' /\ LaunchInv'
  <2> SUFFICES ASSUME WholeInv, WholeInv', LoopInv, ScheduledInv, LaunchInv,
                      [EngineNext]_allVars
               PROVE  LoopInv' /\ ScheduledInv' /\ LaunchInv'
    OBVIOUS
  <2>1. [EngineCall]_vars
    BY StepIsEngineCall
  <2>2. pc = "schedule" => WaveLoads = {}
    BY DEF LaunchInv, WaveReceived
  <2>3. ScheduledInv'
    BY <2>1, <2>2, ScheduledStep DEF WholeInv
  <2>4. LaunchInv'
    BY LaunchStep DEF WholeInv
  <2> QED BY <2>3, <2>4, LoopStep
<1>3. EngineSafe => []WholeInv
  BY EngineImplementsScheduler, WholeInvariant, PTL
<1> QED BY <1>1, <1>2, <1>3, PTL DEF EngineSafe

\* Every request that reaches the model is open, holds its pages, and has all
\* its data: no abort, timeout or late receive that overtakes the wave, in any
\* mode, leaves a request in the output that is executed.
THEOREM ExecutionStaysBacked == EngineSafe => []ExecutesBacked
<1>1. WholeInv /\ ScheduledInv /\ LaunchInv => ExecutesBacked
  <2> SUFFICES ASSUME WholeInv, LaunchInv, pc = "execute", NEW r \in Scheduled
               PROVE  /\ r \in states /\ r \notin kv_loading /\ status[r] = "RUNNING"
                      /\ \A q \in shape[r].rows : \E b \in Block : <<r, q, b>> \in owned
    BY DEF ExecutesBacked
  <2>1. r \in running /\ r \notin kv_loading /\ r \in Request
    BY DEF LaunchInv, WaveReceived, WaveLoads, WholeInv, QueueInv, TypeOK
  <2>2. r \in states /\ status[r] = "RUNNING"
    BY <2>1 DEF WholeInv, QueueInv, QueueParts, Unfinished
  <2>3. Whole(r)
    BY <2>1 DEF WholeInv, HoldInv
  <2> QED BY <2>1, <2>2, <2>3 DEF Whole
<1> QED BY <1>1, WaveInvariant, PTL

-----------------------------------------------------------------------------
(* An engine without work.                                                 *)

\* An id with a generation is known or quarantined.
GenerationInv ==
    \A r \in Request : generation[r] # 0 => r \in states \cup kv_draining

\* Where no wave is in flight, and the finished requests that are then left.
BetweenWaves == {"aborts", "pending", "emit", "finalize", "put", "wait", "schedule"}
Undelivered  == todo \cup (IF pc = "finalize" THEN {hand.id} ELSE {})

DeliveryInv ==
    /\ pc \in BetweenWaves => phase = "idle"
    /\ pc \in {"aborts", "pending", "wait", "schedule"} => surfaced = {}
    /\ pc \in {"emit", "finalize", "put"} => surfaced \subseteq Undelivered
    /\ pc \in {"emit", "finalize", "put"} /\ resume = "wait" =>
           {r \in states : IsFinished(r)} \subseteq Undelivered
    /\ pc = "wait" => {r \in states : IsFinished(r)} = {}

LEMMA GenerationStep ==
    ASSUME PageInv, GenerationInv, [Next]_vars PROVE GenerationInv'
<1>t. TypeOK
  BY DEF PageInv
<1>1. ASSUME generation' = generation, states \subseteq states',
             kv_draining \subseteq kv_draining'
      PROVE  GenerationInv'
  BY <1>1 DEF GenerationInv
<1>2. ASSUME NEW r \in states, NEW n, generation' = [generation EXCEPT ![r] = n],
             states' = states, kv_draining \subseteq kv_draining'
      PROVE  GenerationInv'
  BY <1>2, <1>t DEF GenerationInv, TypeOK
<1>3. ASSUME NEW r \in Request, Admission(r) \/ NativePrefetch(r) PROVE GenerationInv'
  <2>1. CASE AdmitDefer(r) \/ AdmitReserved(r) \/ AdmitTooLarge(r)
    BY <2>1, <1>1 DEF AdmitDefer, AdmitReserved, AdmitTooLarge, FinishRequests,
                      requestVars, pageVars, kvVars
  <2>2. CASE \/ \E res \in Reservations(r) :
                   AdmitNew(r, res) \/ PrefetchStart(r, res)
             \/ AdmitUnregistered(r)
             \/ PrefetchUnregistered(r)
    BY <2>2, <1>2 DEF AdmitNew, PrefetchStart, AdmitUnregistered, PrefetchUnregistered,
                      Prefetchable, AtHead, Reserve, FinishRequests
  <2> QED BY <1>3, <2>1, <2>2 DEF Admission, NativePrefetch
<1>4. CASE ReleaseKvDrains
  <2>1. /\ kv_draining' = kv_draining \ CompletedKvDrains /\ states' = states
        /\ generation' = [r \in Request |->
                             IF r \in CompletedKvDrains \ states THEN 0 ELSE generation[r]]
    BY <1>4 DEF ReleaseKvDrains, requestVars
  <2> QED BY <2>1 DEF GenerationInv
<1>5. ASSUME NEW r \in Request, PopRequestState(r) PROVE GenerationInv'
  <2>1. /\ states' = states \ {r} /\ kv_draining' = kv_draining
        /\ generation' = IF r \in kv_draining THEN generation
                                               ELSE [generation EXCEPT ![r] = 0]
    BY <1>5 DEF PopRequestState, kvVars
  <2> QED BY <2>1, <1>t DEF GenerationInv, TypeOK
<1>6. CASE Close
  BY <1>6 DEF Close, GenerationInv
<1>7. CASE \/ \E r \in Request, s \in Shape : AddRequest(r, s)
           \/ ScheduleBegin \/ ScheduleEnd \/ PrefetchSkip \/ Publish \/ DropEnded
           \/ \E D \in SUBSET arrived : UpdateKvConnectorOutput(D)
           \/ \E r \in Request : Preempt(r)
           \/ \E w \in writes : WriteArrives(w)
           \/ UNCHANGED vars
  BY <1>7, <1>1 DEF AddRequest, ScheduleBegin, ScheduleEnd, PrefetchSkip, Publish,
     DropEnded, UpdateKvConnectorOutput, Preempt, WriteArrives, vars, requestVars,
     pageVars, kvVars
<1>8. CASE \/ \E T \in SUBSET out.transfer : FailIncompleteKvLoads(T)
           \/ \E S \in SUBSET Request : FinishRequestList(S, "ABORTED")
           \/ \E result \in [Scheduled -> Status] : UpdateFromOutput(result)
  BY <1>8, <1>1 DEF FailIncompleteKvLoads, FinishRequestList, UpdateFromOutput,
     FinishRequests
<1> QED BY <1>3, <1>4, <1>5, <1>6, <1>7, <1>8 DEF Next, InSchedule

\* Steps that finish nothing and deliver nothing.
LEMMA DeliveryFrame ==
    ASSUME DeliveryInv, UNCHANGED <<phase, surfaced, todo, hand, pc, resume>>,
           {r \in states' : IsFinished(r)'} \subseteq {r \in states : IsFinished(r)}
    PROVE  DeliveryInv'
<1>1. Undelivered' = Undelivered
  BY DEF Undelivered
<1> QED BY <1>1 DEF DeliveryInv

LEMMA NoDelivery == pc' \notin BetweenWaves => DeliveryInv'
BY DEF DeliveryInv, BetweenWaves

LEMMA DeliveryStep ==
    ASSUME TypeOK, NothingReported, NoStrandedResult, LoopInv, DeliveryInv,
           [EngineNext]_allVars
    PROVE  DeliveryInv'
<1>1. ASSUME NEW r \in Request, NEW s \in Shape, Add(r, s) PROVE DeliveryInv'
  <2>1. /\ states' = states \cup {r} /\ status' = [status EXCEPT ![r] = "WAITING"]
        /\ UNCHANGED <<phase, surfaced, todo, hand, pc, resume>>
    BY <1>1 DEF Add, AddRequest, waveVars, loopVars
  <2>2. \A x \in states' : IsFinished(x)' => x \in states /\ IsFinished(x)
    <3>1. \A x \in Request : status'[x] = IF x = r THEN "WAITING" ELSE status[x]
      BY <2>1 DEF TypeOK
    <3>2. states' \subseteq Request
      BY <2>1 DEF TypeOK
    <3> QED BY <2>1, <3>1, <3>2 DEF IsFinished, Terminal
  <2> QED BY <2>1, <2>2, DeliveryFrame
<1>2. CASE \/ \E r \in Request : RequestAbort(r)
           \/ \E i \in Calls : ReaderEnds(i)
           \/ CloseBegin \/ CloseWait \/ Stopped \/ UNCHANGED allVars \/ Arrival
  <2>1. UNCHANGED <<states, status, phase, surfaced, todo, hand, pc, resume>>
    BY <1>2 DEF RequestAbort, ReaderEnds, CloseBegin, CloseWait, Stopped, Arrival,
                WriteArrives, allVars, vars, engineVars, loopVars, requestVars, waveVars
  <2> QED BY <2>1, DeliveryFrame DEF IsFinished
<1>3. CASE CloseStops \/ CloseSecond
  <2>1. pc' = "exit"
    BY <1>3 DEF CloseStops, CloseFirst, CloseSecond, CloseDrainFails, LoopInv, loopVars
  <2> QED BY <2>1, NoDelivery DEF BetweenWaves
<1>4. CASE BusyLoop
  <2>1. CASE LoopStops \/ DrainAbortsFails \/ CallSchedule \/ ScheduleGoesOn
             \/ ScheduleReturns \/ ScheduleRaises \/ StartWave \/ PrepareKv
             \/ FailLate \/ FilterEnded \/ EndDrains \/ EndDrainsFails
             \/ Execute \/ ExecuteRaises
             \/ FailBegin \/ FailStop \/ FailClose \/ FailHeld
    <3>1. pc' \notin BetweenWaves
      BY <2>1 DEF LoopStops, DrainAbortsFails, CallSchedule, ScheduleGoesOn,
         ScheduleReturns, ScheduleRaises, StartWave, PrepareKv, Prepare, Poll,
         PrepareFails, FailLate, FilterEnded, EndDrains, EndDrainsFails, Execute,
         ExecuteRaises, FailBegin, FailStop, FailClose, FailHeld, Goto, BetweenWaves,
         engineVars, loopVars
    <3> QED BY <3>1, NoDelivery
  <2>2. CASE ProcessAbortsQueue /\ ~DrainAbortsFails
    <3>1. UNCHANGED <<phase, surfaced>>
      BY <2>2 DEF ProcessAbortsQueue, NoAborts, ProcessAborts, TakeAborts, DrainAborts,
         AbortDrained, Abort, IfAny, FinishRequestList, UpdateKvConnectorOutput, vars,
         waveVars
    <3>2. pc \in AbortSite /\ pc' \in {pc, Next4(pc), "failing_held"}
      BY <2>2 DEF ProcessAbortsQueue, NoAborts, ProcessAborts, TakeAborts, DrainAborts,
         AbortDrained, Goto, GotoOrFailHeld, engineVars, loopVars
    <3>3. \/ pc = "aborts" /\ pc' \in {"aborts", "pending"}
          \/ pc' \notin BetweenWaves
      BY <3>2 DEF AbortSite, Next4, BetweenWaves
    <3> QED BY <3>1, <3>3, NoDelivery DEF DeliveryInv, BetweenWaves
  <2>3. CASE CollectPending
    <3>1. /\ pc = "pending" /\ pc' \in {"emit", "failing"} /\ todo' = PendingFinished
          /\ UNCHANGED <<states, status, phase, surfaced>>
      BY <2>3 DEF CollectPending, GotoOrFail, ToDeliver, vars, requestVars, waveVars
    <3>2. phase = "idle" /\ surfaced = {} /\ out.finished = {}
      BY <3>1 DEF DeliveryInv, BetweenWaves, NothingReported
    <3>3. {r \in states : IsFinished(r)} \subseteq todo'
      BY <3>1, <3>2 DEF NoStrandedResult, PendingFinished
    <3> QED BY <3>1, <3>2, <3>3 DEF DeliveryInv, Undelivered, IsFinished
  <2>4. ASSUME NEW r \in Request, Capture(r) PROVE DeliveryInv'
    <3>1. /\ pc = "emit" /\ pc' = "finalize" /\ todo' = todo \ {r} /\ hand'.id = r
          /\ UNCHANGED <<states, status, phase, surfaced, resume>>
      BY <2>4 DEF Capture, Goto, Empty, vars, requestVars, waveVars
    <3>2. Undelivered \subseteq Undelivered'
      BY <3>1 DEF Undelivered
    <3> QED BY <3>1, <3>2 DEF DeliveryInv, BetweenWaves, IsFinished
  <2>5. CASE Finalize
    <3>1. /\ pc = "finalize" /\ pc' = "put" /\ states' = states \ {hand.id}
          /\ surfaced' = surfaced \ {hand.id}
          /\ UNCHANGED <<status, phase, todo, resume>>
      BY <2>5 DEF Finalize, PopRequestState, Goto
    <3>2. Undelivered \ {hand.id} \subseteq Undelivered'
      BY <3>1 DEF Undelivered
    <3> QED BY <3>1, <3>2 DEF DeliveryInv, BetweenWaves, IsFinished
  <2>6. CASE Put
    <3>1. /\ pc = "put" /\ pc' = "emit"
          /\ UNCHANGED <<states, status, phase, surfaced, todo, resume>>
      BY <2>6 DEF Put, Goto, vars, requestVars, waveVars
    <3>2. Undelivered' = Undelivered
      BY <3>1 DEF Undelivered
    <3> QED BY <3>1, <3>2 DEF DeliveryInv, BetweenWaves, IsFinished
  <2>7. CASE Delivered
    <3>1. /\ pc = "emit" /\ pc' = resume /\ resume \in {"wait", "aborts"}
          /\ UNCHANGED <<states, status, phase, surfaced>> /\ Undelivered = {}
      BY <2>7 DEF Delivered, Goto, LoopInv, Undelivered, vars, requestVars, waveVars
    <3> QED BY <3>1 DEF DeliveryInv, BetweenWaves, IsFinished
  <2>8. CASE WaitEnds
    <3>1. /\ pc = "wait" /\ pc' \in {"schedule", "aborts"}
          /\ UNCHANGED <<phase, surfaced>>
      BY <2>8 DEF WaitEnds, Goto, vars, waveVars
    <3> QED BY <3>1 DEF DeliveryInv, BetweenWaves
  <2>9. CASE EmptyWave \/ Update
    <3>1. /\ pc' \in {"emit", "failing"} /\ phase' = "idle" /\ todo' = surfaced'
          /\ resume' = "aborts"
      BY <2>9 DEF EmptyWave, Update, GotoOrFail, UpdateFromOutput
    <3> QED BY <3>1 DEF DeliveryInv, Undelivered
  <2> QED BY <1>4, <2>1, <2>2, <2>3, <2>4, <2>5, <2>6, <2>7, <2>8, <2>9
          DEF BusyLoop
<1> QED BY <1>1, <1>2, <1>3, <1>4 DEF EngineNext, Closing

LEMMA DeliveryInvariant == EngineSafe => [](WholeInv /\ GenerationInv /\ DeliveryInv)
<1>1. EngineInit => GenerationInv /\ DeliveryInv /\ LoopInv
  <2>1. EngineInit => GenerationInv /\ DeliveryInv
    BY DEF EngineInit, Init, GenerationInv, DeliveryInv
  <2> QED BY <2>1, LoopInit
<1>2. /\ WholeInv /\ LoopInv /\ GenerationInv /\ DeliveryInv
      /\ [EngineNext]_allVars
      => LoopInv' /\ GenerationInv' /\ DeliveryInv'
  <2> SUFFICES ASSUME WholeInv, LoopInv, GenerationInv, DeliveryInv,
                      [EngineNext]_allVars
               PROVE  LoopInv' /\ GenerationInv' /\ DeliveryInv'
    OBVIOUS
  <2>1. GenerationInv'
    BY StepIsSchedulerStep, GenerationStep DEF WholeInv
  <2>2. DeliveryInv'
    BY DeliveryStep DEF WholeInv, PageInv
  <2> QED BY <2>1, <2>2, LoopStep
<1>3. EngineSafe => []WholeInv
  BY EngineImplementsScheduler, WholeInvariant, PTL
<1> QED BY <1>1, <1>2, <1>3, PTL DEF EngineSafe

\* When the loop finds nothing to schedule, no request waits for a delivery, no
\* page is reserved and no receive is open, after any history of aborts, id
\* reuse, quarantines and requests that failed inside schedule().
THEOREM IdleStaysClean == EngineSafe => []IdleIsClean
<1>1. WholeInv /\ GenerationInv /\ DeliveryInv => IdleIsClean
  <2> SUFFICES ASSUME WholeInv, GenerationInv, DeliveryInv,
                      pc = "wait", ~HasRequests, phase = "idle"
               PROVE  /\ states = {} /\ owned = {} /\ kv_loading = {}
                      /\ kv_received = {} /\ \A r \in Request : generation[r] = 0
    BY DEF IdleIsClean
  <2>1. waiting = <<>> /\ deferred = <<>> /\ running = {} /\ kv_draining = {}
    BY DEF HasRequests, WholeInv, QueueInv, DeferredInLoop
  <2>2. \A r \in Request : ~Unfinished(r)
    BY <2>1, EmptyQueue DEF WholeInv, QueueInv, QueueParts, Queuing
  <2>3. states = {}
    BY <2>2 DEF DeliveryInv, Unfinished, WholeInv, QueueInv, TypeOK
  <2>4. \A r \in Request : ~HasPages(r)
    BY <2>1, <2>2 DEF WholeInv, HoldInv
  <2>5. owned = {}
    <3> SUFFICES ASSUME NEW o \in owned PROVE FALSE
      OBVIOUS
    <3>1. o[1] \in Request
      BY DEF WholeInv, QueueInv, TypeOK
    <3> QED BY <3>1, <2>4 DEF HasPages
  <2>6. kv_loading = {}
    BY <2>5 DEF WholeInv, PageInv, LoadingIsHeld, HasPages
  <2>7. kv_received = {}
    BY <2>6 DEF WholeInv, PageInv, ReceivesAccounted, RowsOfAll
  <2> QED BY <2>1, <2>3, <2>5, <2>6, <2>7 DEF GenerationInv
<1> QED BY <1>1, DeliveryInvariant, PTL
-----------------------------------------------------------------------------
(***************************************************************************)
(* Native prefetch never quarantines, and the steps outside the lock leave *)
(* the waiting queue alone.                                                *)
(***************************************************************************)

\* With native prefetch the rows that are required are complete when
\* prepare_kv_for_forward returns.
DrainInv ==
    Prefetch => /\ kv_draining = {}
                /\ pc \in {"prepared", "late"} => late = {}

\* What UpdateFromOutput may finish has no receive any more and has left the
\* queue long ago.
LEMMA ResultsAreReceived ==
    ASSUME QueueInv, ScheduledInv, LaunchInv, EmptyWave \/ Update
    PROVE  \E outcome :
               /\ FinishRequests(outcome)
               /\ \A r \in Finishing(outcome) : r \in running /\ r \notin kv_loading
<1>1. PICK result :
          /\ UpdateFromOutput(result)
          /\ Scheduled = {} \/ pc = "update"
  BY DEF EmptyWave, Update, IsEmpty, GotoOrFail
<1> DEFINE open     == {r \in Scheduled : r \in states /\ ~IsFinished(r)}
           terminal == [r \in {x \in open : result[x] \in Terminal} |-> result[r]]
<1>2. FinishRequests(terminal)
  BY <1>1 DEF UpdateFromOutput
<1>3. \A r \in Finishing(terminal) : r \in Scheduled /\ ~IsFinished(r)
  BY DEF Finishing
<1> HIDE DEF terminal
<1>4. \A r \in Finishing(terminal) : r \in running /\ r \notin kv_loading
  BY <1>1, <1>3 DEF ScheduledInv, LaunchInv, WaveReceived, WaveLoads
<1> QED BY <1>2, <1>4

LEMMA NothingDrains ==
    \A outcome : FinishRequests(outcome) /\ Finishing(outcome) \cap kv_loading = {}
                => kv_draining' = kv_draining
BY DEF FinishRequests

LEMMA DrainStep ==
    ASSUME PageInv, QueueInv, LoopInv, ScheduledInv, LaunchInv, DrainInv,
           [EngineNext]_allVars
    PROVE  DrainInv'
<1> SUFFICES ASSUME Prefetch
             PROVE  /\ kv_draining' = {}
                    /\ pc' \in {"prepared", "late"} => late' = {}
  BY DEF DrainInv
<1>a. /\ kv_draining = {}
      /\ pc \in {"prepared", "late"} => late = {}
  BY DEF DrainInv
<1>t. TypeOK
  BY DEF PageInv
<1>1. CASE \/ \E r \in Request, s \in Shape : Add(r, s)
           \/ \E r \in Request : RequestAbort(r)
           \/ \E i \in Calls : ReaderEnds(i)
           \/ CloseBegin \/ CloseWait \/ Stopped \/ UNCHANGED allVars \/ Arrival
  <2>1. UNCHANGED <<kv_draining, pc, late>>
    BY <1>1 DEF Add, AddRequest, RequestAbort, ReaderEnds, CloseBegin, CloseWait, Stopped,
                Arrival, WriteArrives, allVars, vars, engineVars, loopVars, kvVars
  <2> QED BY <2>1, <1>a
<1>2. CASE CloseStops \/ CloseSecond
  <2>1. pc' = "exit" /\ kv_draining' \in {{}, kv_draining}
    BY <1>2 DEF CloseStops, CloseFirst, CloseSecond, CloseDrainFails, CloseScheduler,
                IfAny, Close, LoopInv, loopVars, vars, kvVars
  <2> QED BY <2>1, <1>a
<1>3. CASE BusyLoop
  <2>1. CASE ProcessAbortsQueue
    <3>1. pc' \in {"prepared", "late"} => pc \in {"prepared", "late"} /\ late' = late
      BY <2>1 DEF ProcessAbortsQueue, NoAborts, ProcessAborts, TakeAborts, DrainAborts,
         AbortDrained, DrainAbortsFails, Goto, GotoOrFailHeld, AbortSite, Next4,
         engineVars, loopVars
    <3>2. CASE NoAborts \/ TakeAborts \/ DrainAborts \/ DrainAbortsFails
      <4>1. kv_draining' = kv_draining
        BY <3>2 DEF NoAborts, TakeAborts, DrainAborts, DrainAbortsFails,
           UpdateKvConnectorOutput, vars, kvVars
      <4> QED BY <4>1, <3>1, <1>a
    <3>3. CASE AbortDrained
      <4>1. ASSUME NEW r \in batch \cap kv_loading PROVE FALSE
        <5>1. PICK q \in shape[r].rows : TRUE
          BY <1>t, ShapeFields DEF TypeOK
        <5>2. <<r, q>> \in LoadingRows(batch)
          BY <5>1, RowsOfAllElements DEF LoadingRows
        <5> QED BY <5>2, <3>3 DEF AbortDrained
      <4>2. \/ UNCHANGED vars
            \/ FinishRequests([x \in batch |-> "ABORTED"])
        BY <3>3 DEF AbortDrained, Abort, IfAny, FinishRequestList
      <4>3. Finishing([x \in batch |-> "ABORTED"]) \cap kv_loading = {}
        BY <4>1 DEF Finishing
      <4>4. kv_draining' = kv_draining
        BY <4>2, <4>3, NothingDrains DEF vars, kvVars
      <4> QED BY <4>4, <3>1, <1>a
    <3>4. CASE ProcessAborts
      BY <3>4 DEF ProcessAborts
    <3> QED BY <2>1, <3>2, <3>3, <3>4 DEF ProcessAbortsQueue
  <2>2. CASE ScheduleGoesOn
    <3>1. pc' \notin {"prepared", "late"}
      BY <2>2 DEF ScheduleGoesOn, engineVars, loopVars
    <3>2. ASSUME NEW r \in Request,
                 \/ AdmitTooLarge(r)
                 \/ AdmitUnregistered(r)
                 \/ PrefetchUnregistered(r)
          PROVE  kv_draining' = kv_draining
      <4>1. FinishRequests([x \in {r} |-> "ERROR"]) /\ ~HasPages(r)
        BY <3>2 DEF AdmitTooLarge, AdmitUnregistered, PrefetchUnregistered, Prefetchable
      <4>2. r \notin kv_loading
        BY <4>1 DEF PageInv, LoadingIsHeld
      <4>3. Finishing([x \in {r} |-> "ERROR"]) \cap kv_loading = {}
        BY <4>2 DEF Finishing
      <4> QED BY <4>1, <4>3, NothingDrains
    <3>3. ASSUME NEW r \in Request, AdmitDefer(r) \/ AdmitReserved(r)
          PROVE  kv_draining' = kv_draining
      BY <3>3 DEF AdmitDefer, AdmitReserved, kvVars
    <3>4. ASSUME NEW r \in Request, NEW res \in Reservations(r),
                 AdmitNew(r, res) \/ PrefetchStart(r, res)
          PROVE  kv_draining' = kv_draining
      BY <3>4 DEF AdmitNew, PrefetchStart
    <3>5. CASE ScheduleEnd \/ PrefetchSkip
      BY <3>1, <3>5, <1>a DEF ScheduleEnd, PrefetchSkip, kvVars
    <3> QED BY <2>2, <3>1, <3>2, <3>3, <3>4, <3>5, <1>a
            DEF ScheduleGoesOn, InSchedule, Admission, NativePrefetch
  <2>3. CASE EmptyWave \/ Update
    <3>1. pc' \in {"emit", "failing"}
      BY <2>3 DEF EmptyWave, Update, GotoOrFail
    <3>2. PICK outcome :
              /\ FinishRequests(outcome)
              /\ \A r \in Finishing(outcome) : r \in running /\ r \notin kv_loading
      BY <2>3, ResultsAreReceived
    <3>3. kv_draining' = kv_draining
      BY <3>2, NothingDrains
    <3> QED BY <3>1, <3>3, <1>a
  <2>4. CASE Prepare
    <3>1. kv_draining' = kv_draining
      BY <2>4 DEF Prepare, ReportReceives, IfAny, UpdateKvConnectorOutput, vars, kvVars
    <3>2. late' = {}
      BY <2>4 DEF Prepare, AwaitedRows
    <3> QED BY <3>1, <3>2, <1>a
  <2>5. CASE FailLate
    <3>1. pc' = "filter" /\ late = {}
      BY <2>5, <1>a DEF FailLate, Goto
    <3>2. UNCHANGED vars
      BY <2>5, <3>1 DEF FailLate, IfAny, Finishing
    <3> QED BY <3>1, <3>2, <1>a DEF vars, kvVars
  <2>6. CASE \/ LoopStops \/ CollectPending \/ (\E r \in Request : Capture(r)) \/ Finalize
             \/ Put \/ Delivered \/ WaitEnds \/ CallSchedule \/ ScheduleReturns
             \/ ScheduleRaises \/ StartWave \/ PrepareFails \/ Poll \/ FilterEnded
             \/ EndDrainsFails \/ Execute \/ ExecuteRaises \/ FailBegin \/ FailStop
    <3>1. pc' \notin {"prepared", "late"}
      BY <2>6 DEF LoopStops, CollectPending, Capture, Finalize, Put, Delivered, WaitEnds,
         CallSchedule, ScheduleReturns, ScheduleRaises, StartWave, PrepareFails, Poll,
         FilterEnded, EndDrainsFails, Execute, ExecuteRaises, FailBegin, FailStop, Goto,
         GotoOrFail, LoopInv
    <3>2. kv_draining' = kv_draining
      BY <2>6 DEF LoopStops, CollectPending, Capture, Finalize, Put, Delivered, WaitEnds,
         CallSchedule, ScheduleReturns, ScheduleRaises, StartWave, PrepareFails, Poll,
         FilterEnded, EndDrainsFails, Execute, ExecuteRaises, FailBegin, FailStop,
         ScheduleBegin, Publish, DropEnded, ReportReceives, UpdateKvConnectorOutput,
         PopRequestState, IfAny, vars, kvVars
    <3> QED BY <3>1, <3>2, <1>a
  <2>7. CASE EndDrains \/ FailClose \/ FailHeld
    <3>1. pc' \notin {"prepared", "late"} /\ kv_draining' \subseteq kv_draining
      BY <2>7 DEF EndDrains, FailClose, FailHeld, Goto, CloseScheduler, IfAny, Close,
         ReleaseKvDrains, vars, kvVars
    <3> QED BY <3>1, <1>a
  <2> QED BY <1>3, <2>1, <2>2, <2>3, <2>4, <2>5, <2>6, <2>7 DEF BusyLoop, PrepareKv
<1> QED BY <1>1, <1>2, <1>3 DEF EngineNext, Closing

LEMMA DrainInvariant ==
    EngineSafe => [](WholeInv /\ ScheduledInv /\ LaunchInv /\ DrainInv)
<1>1. EngineInit => DrainInv /\ LoopInv
  <2>1. EngineInit => DrainInv
    BY DEF EngineInit, Init, DrainInv
  <2> QED BY <2>1, LoopInit
<1>2. /\ WholeInv /\ ScheduledInv /\ LaunchInv /\ LoopInv /\ DrainInv
      /\ [EngineNext]_allVars
      => LoopInv' /\ DrainInv'
  BY DrainStep, LoopStep DEF WholeInv
<1> QED BY <1>1, <1>2, WaveInvariant, PTL DEF EngineSafe

\* With native prefetch no page is ever quarantined, in any order of aborts,
\* timeouts and completions: what is aborted has completed its receive first.
THEOREM PrefetchStaysUndrained == EngineSafe => []PrefetchNeverDrains
<1>1. DrainInv => PrefetchNeverDrains
  BY DEF DrainInv, PrefetchNeverDrains
<1> QED BY <1>1, DrainInvariant, PTL

\* Without(s, F) is s when F holds nothing of s.
LEMMA WithoutNothing ==
    ASSUME NEW S, NEW s \in Seq(S), NEW F, \A x \in F : ~InSeq(x, s)
    PROVE  Without(s, F) = s
<1> DEFINE n == Len(s)
           K == Kept(s, F)
<1>1. n \in Nat /\ s = [k \in 1 .. n |-> s[k]]
  OBVIOUS
<1>2. K = 1 .. n
  BY DEF Kept, InSeq
<1>3. Cardinality(K) = n
  BY <1>1, <1>2, FS_Interval
<1>4. ASSUME NEW i \in 1 .. n PROVE Rank(K, i) = i
  <2>1. {j \in K : j <= i} = 1 .. i
    BY <1>1, <1>2
  <2>2. i \in Int /\ i >= 1
    BY <1>1
  <2>3. Cardinality(1 .. i) = i
    <3> HIDE DEF n, K
    <3> QED BY <2>2, FS_Interval
  <2> QED BY <2>1, <2>3 DEF Rank
<1>5. \A k \in 1 .. n : (CHOOSE i \in K : Rank(K, i) = k) = k
  BY <1>2, <1>4
<1>6. Without(s, F) = [k \in 1 .. Cardinality(K) |-> s[CHOOSE i \in K : Rank(K, i) = k]]
  BY DEF Without
<1>7. Without(s, F) = [k \in 1 .. n |-> s[k]]
  <2> HIDE DEF n, K
  <2> QED BY <1>3, <1>5, <1>6
<1> QED BY <1>1, <1>7

\* No step that runs without _cv rebuilds the queue in a way that an add_request
\* of another thread could get lost in: what it finishes is not in the queue.
THEOREM LockFreeLeavesQueue == EngineSafe => LockFreeStepsKeepQueue
<1>1. /\ WholeInv /\ ScheduledInv /\ LaunchInv /\ DrainInv /\ LoopInv
      /\ [EngineNext]_allVars
      => [KeepsQueue]_allVars
  <2> SUFFICES ASSUME WholeInv, ScheduledInv, LaunchInv, DrainInv, LoopInv, EngineNext,
                      pc' # pc, pc \in LockFree
               PROVE  waiting' = waiting
    BY DEF KeepsQueue
  <2>a. PageInv /\ QueueInv /\ TypeOK /\ waiting \in Seq(Request)
    BY DEF WholeInv, QueueInv, TypeOK
  <2>1. ASSUME NEW outcome, FinishRequests(outcome),
               \A r \in Finishing(outcome) : ~Queuing(r)
        PROVE  waiting' = waiting
    <3>1. waiting' = Without(waiting, Finishing(outcome))
      BY <2>1 DEF FinishRequests
    <3>2. \A r \in Finishing(outcome) : ~InSeq(r, waiting)
      BY <2>1 DEF Queuing
    <3> QED BY <3>1, <3>2, <2>a, WithoutNothing
  <2>2. CASE EmptyWave \/ Update
    <3>1. PICK outcome :
              /\ FinishRequests(outcome)
              /\ \A r \in Finishing(outcome) : r \in running /\ r \notin kv_loading
      BY <2>2, <2>a, ResultsAreReceived
    <3>2. \A r \in Finishing(outcome) : ~Queuing(r)
      BY <3>1, <2>a DEF QueueInv, QueueParts
    <3> QED BY <3>1, <3>2, <2>1
  <2>3. CASE FailLate
    <3> DEFINE S       == {r \in kv_loading \cap states : RowsOf(r) \cap late # {}}
               outcome == [r \in S |-> "ERROR"]
    <3>1. \/ FinishRequests(outcome)
          \/ UNCHANGED vars
      BY <2>3 DEF FailLate, IfAny, FailIncompleteKvLoads
    <3>2. ASSUME NEW r \in Finishing(outcome) PROVE ~Queuing(r)
      <4>1. r \in kv_loading /\ late # {} /\ pc = "late"
        BY <2>3, <3>2 DEF Finishing, FailLate, Goto
      <4>2. ~Prefetch
        BY <4>1 DEF DrainInv
      <4>3. HasPages(r) /\ r \in Request
        BY <4>1, <2>a DEF PageInv, LoadingIsHeld, TypeOK
      <4> QED BY <4>2, <4>3 DEF ScheduledInv
    <3> HIDE DEF outcome
    <3> QED BY <3>1, <3>2, <2>1 DEF vars, queueVars
  <2>4. CASE StartWave \/ FilterEnded \/ EndDrains \/ EndDrainsFails
    BY <2>4 DEF StartWave, FilterEnded, EndDrains, EndDrainsFails, IfAny, DropEnded,
       ReleaseKvDrains, vars, queueVars
  <2>5. BusyLoop
    BY DEF EngineNext, Add, RequestAbort, ReaderEnds, Closing, CloseBegin, CloseWait,
       CloseStops, CloseFirst, CloseSecond, CloseDrainFails, Arrival, Stopped, allVars,
       engineVars, loopVars
  <2>6. EmptyWave \/ Update \/ FailLate \/ StartWave \/ FilterEnded \/ EndDrains
        \/ EndDrainsFails
    BY <2>5 DEF BusyLoop, LockFree, LoopStops, ProcessAbortsQueue, AbortSite,
       CollectPending, Capture, Finalize, Put, Delivered, WaitEnds, CallSchedule,
       ScheduleGoesOn, ScheduleReturns, ScheduleRaises, PrepareKv, Execute,
       ExecuteRaises, FailBegin, FailStop, FailClose, FailHeld, Goto, GotoOrFail
  <2> QED BY <2>2, <2>3, <2>4, <2>6
<1>2. EngineSafe => []LoopInv
  <2>1. EngineInit => LoopInv
    BY LoopInit
  <2>2. LoopInv /\ [EngineNext]_allVars => LoopInv'
    BY LoopStep
  <2> QED BY <2>1, <2>2, PTL DEF EngineSafe
<1> QED BY <1>1, <1>2, DrainInvariant, PTL DEF EngineSafe, LockFreeStepsKeepQueue
=============================================================================
