------------------------ MODULE NativeReceivesProofs ------------------------
(***************************************************************************)
(* Theorems about NativeReceives, for any number of ranks, requests and    *)
(* rows: collecting the completions one rank at a time shows the engine    *)
(* nothing that it could not see before, so what was proved of the engine  *)
(* and of the scheduler holds here too; the record of a worker only holds  *)
(* receives that it was asked for and has not been told to forget; what the*)
(* engine is told is current; and no output is refused but one that reuses *)
(* an id that it retires.                                                  *)
(***************************************************************************)
EXTENDS NativeReceives, DiffusionWaveProofs

-----------------------------------------------------------------------------
(* The composition implements the engine.                                  *)

\* Every step is a step of the engine or leaves it alone.
LEMMA NativeStepIsEngineStep == [NativeNext]_nativeVars => [EngineNext]_allVars
<1> SUFFICES ASSUME [NativeNext]_nativeVars PROVE [EngineNext]_allVars
    OBVIOUS
<1>1. CASE Ask
    BY <1>1 DEF Ask
<1>2. CASE AskAgain
    BY <1>2 DEF AskAgain
<1>3. CASE Return
    BY <1>3 DEF Return, EngineNext, BusyLoop, ProcessAbortsQueue, PrepareKv,
                Prepare, Poll, DrainAborts, Goto, Closing, CloseStops, CloseFirst
<1>4. CASE CallFails
    BY <1>4 DEF CallFails, EngineNext, BusyLoop, ProcessAbortsQueue, PrepareKv,
                PrepareFails, DrainAbortsFails, Closing, CloseStops, CloseDrainFails
<1>5. CASE Elsewhere
    BY <1>5 DEF Elsewhere, EngineNext, BusyLoop, ProcessAbortsQueue,
                AbortDrained, Closing
<1>6. ASSUME NEW k \in Worker, Reply(k)
      PROVE  [EngineNext]_allVars
    BY <1>6 DEF Reply
<1>7. ASSUME NEW k \in Worker, NEW w \in submitted, Collect(k, w)
      PROVE  [EngineNext]_allVars
    BY <1>7 DEF Collect, EngineNext, Arrival
<1>8. CASE UNCHANGED nativeVars
    BY <1>8 DEF nativeVars
<1> QED
    BY <1>1, <1>2, <1>3, <1>4, <1>5, <1>6, <1>7, <1>8 DEF NativeNext

\* On the variables of the engine, every behaviour with the workers is a
\* behaviour of the engine: prepare_kv_for_forward on several ranks, in two
\* calls and with refusals, reports no receive that the engine's model could
\* not have seen complete.
THEOREM NativeImplementsEngine == NativeSpec => EngineSafe
<1>1. NativeInit => EngineInit
    BY DEF NativeInit
<1> QED
    BY <1>1, NativeStepIsEngineStep, PTL DEF NativeSpec, EngineSafe

\* A page that some rank has yet to receive is still reserved for its row,
\* however the ranks' completions, aborts and retirements interleave.
THEOREM NativeWritesStayOwned == NativeSpec => []WritesOwned
BY NativeImplementsEngine, EngineWritesStayOwned, PTL

-----------------------------------------------------------------------------
(* The records of the workers.                                             *)

\* A worker remembers as received only what is submitted.
RecordsOK ==
    /\ call \in {"none", "current", "prefetch", "poll"}
    /\ submitted \subseteq Rows
    /\ replied \subseteq Worker
    /\ received \in [Worker -> SUBSET submitted]

LEMMA RecordsInit == NativeInit => RecordsOK
BY DEF NativeInit, RecordsOK

LEMMA NewTyped ==
    ASSUME TypeOK, NEW c PROVE New(c) \subseteq Rows
BY DEF New, TypeOK, Output

LEMMA RecordsStep ==
    ASSUME TypeOK, RecordsOK, [NativeNext]_nativeVars PROVE RecordsOK'
<1>1. CASE Ask
    <2> DEFINE c == IF pc = "prepare" THEN "current" ELSE "poll"
    <2>1. submitted' = submitted \cup New(c) /\ call' = c
          /\ replied' = {} /\ received' = received
        BY <1>1 DEF Ask
    <2>2. New(c) \subseteq Rows
        BY NewTyped
    <2> HIDE DEF c
    <2>3. call' \in {"current", "poll"}
        BY <2>1 DEF c
    <2> QED
        BY <2>1, <2>2, <2>3 DEF RecordsOK
<1>2. CASE AskAgain
    <2>1. /\ submitted' = StillSubmitted(call) \cup New("prefetch")
          /\ call' = "prefetch" /\ replied' = {}
          /\ received' = [k \in Worker |-> StillReceived(k)]
        BY <1>2 DEF AskAgain, Retire
    <2>2. New("prefetch") \subseteq Rows
        BY NewTyped
    <2> QED
        BY <2>1, <2>2 DEF RecordsOK, StillSubmitted, StillReceived
<1>3. CASE Return
    BY <1>3 DEF Return, Retire, RecordsOK, StillSubmitted, StillReceived
<1>4. CASE CallFails
    BY <1>4 DEF CallFails, RecordsOK
<1>5. CASE Elsewhere
    BY <1>5 DEF Elsewhere, receiveVars, RecordsOK
<1>6. ASSUME NEW k \in Worker, Reply(k) PROVE RecordsOK'
    BY <1>6 DEF Reply, RecordsOK
<1>7. ASSUME NEW k \in Worker, NEW w \in submitted, Collect(k, w)
      PROVE  RecordsOK'
    BY <1>7 DEF Collect, RecordsOK
<1>8. CASE UNCHANGED nativeVars
    BY <1>8 DEF nativeVars, receiveVars, RecordsOK
<1> QED
    BY <1>1, <1>2, <1>3, <1>4, <1>5, <1>6, <1>7, <1>8 DEF NativeNext

\* KVReceiveProgress never remembers a completion of a row that it was not
\* asked for or has retired: every received row is a submitted one, on every
\* rank and whatever is refused half-way.
THEOREM ReceivedIsSubmitted == NativeSpec => []RecordsOK
<1>1. NativeSpec => []TypeOK
    BY NativeImplementsEngine, EngineImplementsScheduler, TypeCorrect, PTL
<1> QED
    BY <1>1, RecordsInit, RecordsStep, PTL DEF NativeSpec
-----------------------------------------------------------------------------
(***************************************************************************)
(* What the workers report, and what they refuse.  The argument follows    *)
(* the rows.  From the registration of its receive in schedule() to the    *)
(* call that submits it a row is Unsent and cannot arrive; from then on it *)
(* is being written exactly as long as some worker misses it; and what the *)
(* workers still remember of a request that ended is listed for them to    *)
(* forget, in an output that they get before the id is submitted again or  *)
(* in the one that submits it.                                             *)
(***************************************************************************)
Open    == RowsOfAll(kv_loading)
Written == {<<w[1], w[2]>> : w \in writes}

\* The output was not passed on yet; the rows it retires were not forgotten
\* yet; the rows whose receive was registered and not submitted yet.
Unasked   == pc \in {"scheduling", "started"} \/ (pc = "prepare" /\ call = "none")
Unretired == Unasked \/ call = "current"
Unsent    == kv_transfer
    \cup {w \in out.transfer : Unasked \/ (call = "current" /\ w \in out.prefetch)}
Forgotten == kv_finished \cup {w \in out.kv_finished : Unretired}
Sending   == kv_transfer \cup {w \in out.transfer : Unretired}

\* A row of an open request that holds its pages and has received everything.
Settled(w) ==
    /\ w \in RowsOf(w[1]) /\ shape[w[1]].remote
    /\ w[1] \in states /\ ~IsFinished(w[1])
    /\ HasPages(w[1]) /\ w[1] \notin kv_loading

Accounts ==
    /\ Unsent \subseteq Written
    /\ \A w \in Open \ Unsent :
           /\ w \in submitted
           /\ w \in Written <=> \E k \in Worker : w \notin received[k]
    /\ \A w \in submitted : w \notin Open \ Unsent =>
           /\ \A k \in Worker : w \in received[k]
           /\ w \in Forgotten \/ Settled(w)
    /\ Forgotten \cap Open \subseteq Sending
    /\ \A r \in kv_loading : shape[r].remote

\* The output under way.  Once it is whole its receives are those of the wave,
\* which are required, and the prefetched ones, which are not.
OutputInv ==
    /\ pc = "scheduling" <=> InCall
    /\ ~InCall => kv_transfer = {}
    /\ phase = "prefetch" => kv_transfer = {}
    /\ InCall => out.prefetch = {}
    /\ phase = "admit" => /\ out.transfer = {} /\ out.kv_finished = {}
                          /\ kv_transfer \subseteq RowsOfAll(WaveLoads)
    /\ pc \in {"started", "prepare"} => kv_finished = {}
    /\ phase \in {"prefetch", "publish"} \/ pc \in {"started", "prepare"} =>
           /\ out.required \subseteq Open
           /\ out.prefetch \subseteq out.transfer
           /\ out.transfer \ out.prefetch \subseteq out.required
           /\ out.required \cap (out.prefetch \cup kv_transfer) = {}
           /\ out.transfer \cup out.kv_finished # {} => out.metadata

CallsInv ==
    /\ call # "none" => Asking /\ (call = "poll" <=> pc # "prepare")
    /\ call = "current" => \A k \in replied : out.required \subseteq received[k]

\* Once the engine fails or the scheduler is closed nothing is asked again.
Stopping == {"failing", "failing_held", "fail_stop", "fail_close"}
Works    == pc \notin Stopping /\ phase # "closed"

NativeInv == Works => Accounts /\ OutputInv /\ CallsInv

\* What is known of the engine and of the records.
Known ==
    /\ WholeInv /\ ScheduledInv /\ LaunchInv /\ DrainInv /\ LoopInv
    /\ RecordsOK

LEMMA OpenRows == \A w : w \in Open <=> w[1] \in kv_loading /\ w \in RowsOf(w[1])
<1>1. \A w, r : w \in RowsOf(r) => w[1] = r
    BY DEF RowsOf
<1> QED BY <1>1 DEF Open, RowsOfAll

LEMMA NativeInit0 == NativeInit => NativeInv
<1> SUFFICES ASSUME NativeInit PROVE NativeInv
    OBVIOUS
<1>1. Open = {} /\ kv_loading = {}
    BY DEF NativeInit, EngineInit, Init, Open, RowsOfAll
<1>2. Unsent = {} /\ Forgotten = {} /\ submitted = {}
    BY DEF NativeInit, EngineInit, Init, Unsent, Unasked, Forgotten, Unretired, EmptyOutput
<1>3. Accounts
    BY <1>1, <1>2 DEF Accounts
<1>4. OutputInv /\ CallsInv
    BY DEF NativeInit, EngineInit, Init, OutputInv, CallsInv, InCall
<1> QED BY <1>3, <1>4 DEF NativeInv

\* An engine that fails or has closed the scheduler does not work again.
LEMMA StaysStopped ==
    ASSUME LoopInv, ~Works, [EngineNext]_allVars
    PROVE  ~Works'
<1>1. phase = "closed" => phase' = "closed"
    <2>1. [EngineCall]_vars
        BY StepIsEngineCall
    <2> QED
        BY <2>1 DEF EngineCall, vars, waveVars, AddRequest, ScheduleBegin, InSchedule, Publish,
           UpdateKvConnectorOutput, FailIncompleteKvLoads, DropEnded, FinishRequestList,
           ReleaseKvDrains, UpdateFromOutput, PopRequestState, WriteArrives, Close, Unlocked
<1>2. CASE pc \in Stopping
    <2>1. CASE BusyLoop
        <3>1. FailBegin \/ FailStop \/ FailClose \/ FailHeld
            BY <1>2, <2>1 DEF Stopping, BusyLoop, LoopStops, ProcessAbortsQueue, AbortSite,
               CollectPending, Capture, Finalize, Put, Delivered, WaitEnds, CallSchedule,
               ScheduleGoesOn, ScheduleReturns, ScheduleRaises, EmptyWave, StartWave, PrepareKv,
               FailLate, FilterEnded, EndDrains, EndDrainsFails, Execute, ExecuteRaises, Update,
               Goto, GotoOrFail
        <3>2. CASE FailBegin \/ FailStop
            BY <3>2 DEF FailBegin, FailStop, Goto, Works, Stopping
        <3>3. CASE FailClose \/ FailHeld
            <4>1. phase' = "closed"
                BY <3>3, <1>1 DEF FailClose, FailHeld, CloseScheduler, IfAny, Close
            <4> QED BY <4>1 DEF Works
        <3> QED BY <3>1, <3>2, <3>3
    <2>2. CASE Closing
        <3>1. pc' = pc
            BY <2>2 DEF Closing, CloseBegin, CloseWait, CloseStops, CloseFirst, CloseSecond,
               CloseDrainFails, loopVars
        <3> QED BY <3>1, <1>2 DEF Works
    <2>3. CASE ~BusyLoop /\ ~Closing
        <3>1. pc' = pc
            BY <2>3 DEF EngineNext, Add, RequestAbort, ReaderEnds, Arrival, Stopped, allVars,
               engineVars, loopVars
        <3> QED BY <3>1, <1>2 DEF Works
    <2> QED BY <2>1, <2>2, <2>3
<1> QED BY <1>1, <1>2 DEF Works

-----------------------------------------------------------------------------
(* Steps that neither submit nor report.                                   *)

\* What a step may do to what the engine still has to hand on.
LEMMA AccountsKept ==
    ASSUME Accounts, UNCHANGED <<submitted, received>>,
           Open' = Open, Written' = Written, Unsent' = Unsent, Sending \subseteq Sending',
           Forgotten \subseteq Forgotten', Forgotten' \cap Open \subseteq Forgotten,
           \A w \in submitted : Settled(w) => Settled(w)' \/ w \in Forgotten',
           \A r \in kv_loading' : shape'[r].remote
    PROVE  Accounts'
<1> USE DEF Accounts
<1>1. \A w \in submitted' : w \notin Open' \ Unsent' =>
          /\ \A k \in Worker : w \in received'[k]
          /\ w \in Forgotten' \/ Settled(w)'
    OBVIOUS
<1>2. \A w \in Open' \ Unsent' :
          /\ w \in submitted'
          /\ w \in Written' <=> \E k \in Worker : w \notin received'[k]
    OBVIOUS
<1>3. Unsent' \subseteq Written' /\ Forgotten' \cap Open' \subseteq Sending'
    OBVIOUS
<1> QED BY <1>1, <1>2, <1>3

\* The places of the loop where no output is on its way to the workers.
Handing == {"scheduling", "started", "prepare"}

LEMMA NothingOnItsWay ==
    ASSUME call = "current" => pc = "prepare", pc \notin Handing
    PROVE  Unsent = kv_transfer /\ Sending = kv_transfer /\ Forgotten = kv_finished
BY DEF Handing, Unsent, Sending, Forgotten, Unretired, Unasked

\* Requests that finish leave what the workers remember of them to be forgotten.
LEMMA FinishForgets ==
    ASSUME TypeOK, NEW outcome, FinishRequests(outcome),
           UNCHANGED <<states, shape, kv_loading>>
    PROVE  /\ kv_finished \subseteq kv_finished'
           /\ kv_finished' \cap Open \subseteq kv_finished
           /\ \A w : Settled(w) => Settled(w)' \/ w \in kv_finished'
<1> DEFINE done  == Finishing(outcome)
           freed == Releasable(done)
<1>1. /\ kv_finished' = kv_finished \cup RemoteRows(freed)
      /\ owned' = {o \in owned : o[1] \notin freed}
      /\ status' = [r \in Request |-> IF r \in done THEN outcome[r] ELSE status[r]]
    BY DEF FinishRequests
<1>2. freed \cap kv_loading = {} /\ freed = done \ kv_loading
    BY DEF Releasable
<1>3. done \subseteq states /\ states \subseteq Request
    BY DEF Finishing, TypeOK
<1> HIDE DEF done, freed
<1>4. \A w : w \in RemoteRows(freed) <=> w[1] \in freed /\ shape[w[1]].remote /\ w \in RowsOf(w[1])
    <2>1. \A w, r : w \in RowsOf(r) => w[1] = r
        BY DEF RowsOf
    <2> QED BY <2>1 DEF RemoteRows, RowsOfAll
<1>5. kv_finished' \cap Open \subseteq kv_finished
    BY <1>1, <1>2, <1>4, OpenRows
<1>6. ASSUME NEW w, Settled(w), w \notin kv_finished' PROVE Settled(w)'
    <2>1. w[1] \notin done
        BY <1>1, <1>2, <1>4, <1>6 DEF Settled
    <2>2. status'[w[1]] = status[w[1]]
        BY <1>1, <1>3, <1>6, <2>1 DEF Settled
    <2>3. HasPages(w[1])'
        BY <1>1, <1>2, <1>6, <2>1 DEF Settled, HasPages
    <2> QED
        BY <1>6, <2>2, <2>3 DEF Settled, IsFinished, RowsOf
<1> QED BY <1>1, <1>5, <1>6

\* Steps of the loop between the calls, without an output on its way.
LEMMA QuietStep ==
    ASSUME Accounts, OutputInv, call = "none", UNCHANGED receiveVars,
           pc \notin Handing, pc' \notin Handing, phase' \in {"idle", "flight"},
           UNCHANGED <<kv_transfer, kv_loading, writes>>, Open' = Open,
           \A r \in kv_loading : shape'[r] = shape[r],
           kv_finished \subseteq kv_finished', kv_finished' \cap Open \subseteq kv_finished,
           \A w \in submitted : Settled(w) => Settled(w)' \/ w \in kv_finished'
    PROVE  NativeInv'
<1>1. /\ Unsent = kv_transfer /\ Sending = kv_transfer /\ Forgotten = kv_finished
      /\ Unsent' = kv_transfer /\ Sending' = kv_transfer /\ Forgotten' = kv_finished'
    BY DEF Handing, Unsent, Sending, Forgotten, Unretired, Unasked, receiveVars
<1>2. Written' = Written
    BY DEF Written
<1>3. Accounts'
    <2>1. \A r \in kv_loading' : shape'[r].remote
        BY DEF Accounts
    <2> QED BY <1>1, <1>2, <2>1, AccountsKept DEF receiveVars
<1>4. OutputInv'
    <2>1. kv_transfer' = {}
        BY DEF OutputInv, Handing
    <2> QED BY <2>1 DEF OutputInv, Handing, InCall
<1>5. CallsInv'
    BY DEF CallsInv, receiveVars
<1> QED BY <1>3, <1>4, <1>5 DEF NativeInv

\* Calls of other threads, which may come at any time.
LEMMA ThreadStep ==
    ASSUME Known, NativeInv, Works, UNCHANGED receiveVars,
           \/ \E r \in Request, s \in Shape : Add(r, s)
           \/ \E r \in Request : RequestAbort(r)
           \/ \E i \in Calls : ReaderEnds(i)
           \/ CloseBegin \/ CloseWait \/ Stopped \/ UNCHANGED allVars
    PROVE  NativeInv'
<1>1. /\ UNCHANGED <<kv_loading, kv_transfer, kv_finished, out, phase, writes, owned, running>>
      /\ UNCHANGED <<pc, batch>>
      /\ closer = "first" => closer' = "first"
    BY DEF Add, AddRequest, RequestAbort, ReaderEnds, CloseBegin, CloseWait, Stopped, allVars,
           vars, engineVars, loopVars, apiVars, downVars, requestVars, queueVars, kvVars, waveVars,
           wireVars, pageVars
<1>2. /\ states \subseteq states'
      /\ \A r \in states \cup kv_loading : shape'[r] = shape[r] /\ status'[r] = status[r]
    <2>1. kv_loading \subseteq states \cup kv_draining
        BY DEF Known, WholeInv, PageInv, LoadingIsHeld
    <2>2. ASSUME NEW r \in Request, NEW s \in Shape, Add(r, s)
          PROVE  /\ states \subseteq states'
                 /\ \A x \in states \cup kv_loading : shape'[x] = shape[x] /\ status'[x] = status[x]
        <3>1. /\ r \notin states /\ r \notin kv_draining /\ states' = states \cup {r}
              /\ shape' = [shape EXCEPT ![r] = s] /\ status' = [status EXCEPT ![r] = "WAITING"]
            BY <2>2 DEF Add, AddRequest, Admissible
        <3>2. r \notin states \cup kv_loading
            BY <2>1, <3>1
        <3>3. shape \in [Request -> Shape] /\ status \in [Request -> Status]
              /\ states \cup kv_loading \subseteq Request
            BY DEF Known, WholeInv, PageInv, TypeOK
        <3> QED BY <3>1, <3>2, <3>3
    <2>3. CASE \/ \E r \in Request : RequestAbort(r)
               \/ \E i \in Calls : ReaderEnds(i)
               \/ CloseBegin \/ CloseWait \/ Stopped \/ UNCHANGED allVars
        BY <2>3 DEF RequestAbort, ReaderEnds, CloseBegin, CloseWait, Stopped, allVars, vars,
                    requestVars
    <2> QED BY <2>2, <2>3
<1>3. Open' = Open /\ Written' = Written
    <2>1. Open' = Open
        BY <1>1, <1>2 DEF Open, RowsOfAll, RowsOf
    <2> QED BY <1>1, <2>1 DEF Written
<1>4. Unsent' = Unsent /\ Sending' = Sending /\ Forgotten' = Forgotten
    BY <1>1 DEF Unsent, Sending, Forgotten, Unretired, Unasked, receiveVars
<1>5. \A w : Settled(w) => Settled(w)'
    BY <1>1, <1>2 DEF Settled, RowsOf, HasPages, IsFinished
<1>6. Accounts'
    <2>1. \A r \in kv_loading' : shape'[r].remote
        BY <1>1, <1>2 DEF NativeInv, Accounts
    <2> QED BY <1>3, <1>4, <1>5, <2>1, AccountsKept DEF NativeInv, receiveVars
<1>7. OutputInv'
    <2>1. RowsOfAll(WaveLoads)' = RowsOfAll(WaveLoads)
        BY <1>1, <1>2 DEF RowsOfAll, RowsOf, WaveLoads
    <2> QED BY <1>1, <1>3, <2>1 DEF NativeInv, OutputInv, InCall
<1>8. CallsInv'
    <2>1. Asking => Asking'
        BY <1>1 DEF Asking, Draining, Leaving
    <2> QED BY <1>1, <2>1 DEF NativeInv, CallsInv, receiveVars
<1> QED BY <1>6, <1>7, <1>8 DEF NativeInv

-----------------------------------------------------------------------------
(* schedule(): receives are registered and gathered in the output.         *)

LEMMA OnItsWay ==
    ASSUME Unasked
    PROVE  /\ Unsent = kv_transfer \cup out.transfer /\ Sending = kv_transfer \cup out.transfer
           /\ Forgotten = kv_finished \cup out.kv_finished
BY DEF Unsent, Sending, Forgotten, Unretired

\* The parts of an output that the workers are told.
SameOutput ==
    /\ out'.transfer = out.transfer /\ out'.prefetch = out.prefetch
    /\ out'.required = out.required /\ out'.kv_finished = out.kv_finished
    /\ out'.metadata = out.metadata

\* A request that starts to run changes only who is scheduled.
LEMMA StartsSame ==
    ASSUME TypeOK, NEW r, StartRunning(r)
    PROVE  SameOutput
<1>1. out \in Output
    BY DEF TypeOK
<1>2. \/ out' = [out EXCEPT !.new = @ \cup {r}]
      \/ out' = [out EXCEPT !.cached = @ \cup {r}]
    BY DEF StartRunning
<1> QED BY <1>1, <1>2 DEF SameOutput, Output

\* Turns of the admission loop that register no receive.
LEMMA ScheduleKeeps ==
    ASSUME Accounts, OutputInv, call = "none", UNCHANGED receiveVars,
           pc = "scheduling", pc' = pc, SameOutput, phase' \in {phase, "publish"},
           phase' # phase => phase = "prefetch",
           UNCHANGED <<kv_transfer, kv_loading, writes, shape>>,
           running \cap kv_loading \subseteq running',
           kv_finished \subseteq kv_finished', kv_finished' \cap Open \subseteq kv_finished,
           \A w \in submitted : Settled(w) => Settled(w)' \/ w \in kv_finished'
    PROVE  NativeInv'
<1>1. Unasked /\ Unasked'
    BY DEF Unasked
<1>2. /\ Unsent' = Unsent /\ Sending' = Sending
      /\ Forgotten' = kv_finished' \cup out.kv_finished
      /\ Forgotten = kv_finished \cup out.kv_finished
    <2>1. /\ Unsent' = kv_transfer' \cup out'.transfer /\ Sending' = kv_transfer' \cup out'.transfer
          /\ Forgotten' = kv_finished' \cup out'.kv_finished
        BY <1>1 DEF Unsent, Sending, Forgotten, Unretired
    <2> QED BY <1>1, <2>1, OnItsWay DEF SameOutput
<1>3. Written' = Written /\ Open' = Open
    BY DEF Written, Open, RowsOfAll, RowsOf
<1>4. Accounts'
    <2>1. \A r \in kv_loading' : shape'[r].remote
        BY DEF Accounts
    <2> QED BY <1>2, <1>3, <2>1, AccountsKept DEF receiveVars
<1>5. OutputInv'
    <2>1. InCall /\ InCall'
        BY DEF OutputInv, InCall
    <2>2. RowsOfAll(WaveLoads) \subseteq RowsOfAll(WaveLoads)'
        BY DEF WaveLoads, RowsOfAll, RowsOf
    <2> QED BY <1>3, <2>1, <2>2 DEF OutputInv, SameOutput
<1>6. CallsInv'
    BY DEF CallsInv, receiveVars
<1> QED BY <1>4, <1>5, <1>6 DEF NativeInv

\* Registering the receives of r: its rows are handed on with the output.
LEMMA RegisterAccounts ==
    ASSUME Known, Accounts, NEW r \in Request, NEW res \in Reservations(r),
           ~HasPages(r), shape[r].remote, Reserve(r, res), pc = "scheduling", pc' = pc, call = "none", UNCHANGED receiveVars,
           out'.transfer = out.transfer, out'.kv_finished = out.kv_finished,
           UNCHANGED <<states, shape, kv_finished>>,
           \A x \in Request : ~IsFinished(x) => ~IsFinished(x)'
    PROVE  /\ Accounts' /\ Open' = Open \cup RowsOf(r) /\ RowsOf(r) \cap Open = {}
<1>1. /\ kv_loading' = kv_loading \cup {r} /\ kv_transfer' = kv_transfer \cup RowsOf(r)
      /\ writes' = writes \cup PagesOf(r, res.own) /\ owned \subseteq owned'
    BY DEF Reserve
<1>2. r \notin kv_loading
    BY DEF Known, WholeInv, PageInv, LoadingIsHeld
<1>3. Open' = Open \cup RowsOf(r) /\ RowsOf(r) \cap Open = {}
    <2>1. Open' = Open \cup RowsOf(r)
        BY <1>1 DEF Open, RowsOfAll, RowsOf
    <2>2. \A w \in RowsOf(r) : w[1] = r
        BY DEF RowsOf
    <2> QED BY <1>2, <2>1, <2>2, OpenRows
<1>4. Written' = Written \cup RowsOf(r)
    <2>1. {<<w[1], w[2]>> : w \in PagesOf(r, res.own)} = RowsOf(r)
        BY PagesOfRows, ReservationFields
    <2> HIDE DEF RowsOf, PagesOf
    <2> QED BY <1>1, <2>1 DEF Written
<1>5. Written \subseteq Open
    BY DEF Known, WholeInv, PageInv, ReceivesAccounted, Written, Open
<1>6. /\ Unsent = kv_transfer \cup out.transfer /\ Sending = kv_transfer \cup out.transfer
      /\ Forgotten = kv_finished \cup out.kv_finished
    BY OnItsWay DEF Unasked
<1>7. /\ Unsent' = kv_transfer' \cup out.transfer /\ Sending' = kv_transfer' \cup out.transfer
      /\ Forgotten' = kv_finished \cup out.kv_finished
    BY DEF Unsent, Sending, Forgotten, Unretired, Unasked
<1>8. Open' \ Unsent' = Open \ Unsent
    BY <1>1, <1>3, <1>6, <1>7
<1>9. \A w : Settled(w) => Settled(w)'
    <2> SUFFICES ASSUME NEW w, Settled(w) PROVE Settled(w)'
        OBVIOUS
    <2>1. w[1] # r
        BY DEF Settled
    <2>2. w[1] \in Request
        BY DEF Settled, Known, WholeInv, PageInv, TypeOK
    <2> QED BY <1>1, <2>1, <2>2 DEF Settled, HasPages, RowsOf
<1>10. \A w \in Open \ Unsent : w \in Written' <=> w \in Written
    BY <1>3, <1>4
<1>11. Accounts'
    <2>1. Unsent' \subseteq Written'
        BY <1>1, <1>4, <1>6, <1>7 DEF Accounts
    <2>2. \A w \in Open' \ Unsent' :
              /\ w \in submitted'
              /\ w \in Written' <=> \E k \in Worker : w \notin received'[k]
        BY <1>8, <1>10 DEF Accounts, receiveVars
    <2>3. \A w \in submitted' : w \notin Open' \ Unsent' =>
              /\ \A k \in Worker : w \in received'[k]
              /\ w \in Forgotten' \/ Settled(w)'
        BY <1>6, <1>7, <1>8, <1>9 DEF Accounts, receiveVars
    <2>4. Forgotten' \cap Open' \subseteq Sending'
        BY <1>1, <1>3, <1>6, <1>7 DEF Accounts
    <2>5. \A x \in kv_loading' : shape'[x].remote
        BY <1>1 DEF Accounts
    <2> QED BY <2>1, <2>2, <2>3, <2>4, <2>5 DEF Accounts
<1> QED BY <1>3, <1>11

\* schedule() between its begin and its end.
LEMMA ScheduleStep ==
    ASSUME Known, NativeInv, Works, call = "none", UNCHANGED receiveVars, ScheduleGoesOn
    PROVE  NativeInv'
<1>a. /\ pc = "scheduling" /\ pc' = pc /\ InSchedule
    BY DEF ScheduleGoesOn, engineVars, loopVars
<1>b. Accounts /\ OutputInv /\ TypeOK
    BY DEF NativeInv, Known, WholeInv, PageInv
<1>c. CallsInv'
    BY DEF CallsInv, receiveVars
<1>1. ASSUME NEW r \in Request, AdmitDefer(r) \/ AdmitReserved(r) PROVE NativeInv'
    <2>0. SameOutput
        <3>1. CASE AdmitDefer(r)
            BY <3>1 DEF AdmitDefer, SameOutput
        <3>2. CASE AdmitReserved(r)
            BY <3>2, <1>b, StartsSame DEF AdmitReserved
        <3> QED BY <1>1, <3>1, <3>2
    <2>1. /\ SameOutput /\ phase' = phase
          /\ UNCHANGED <<kv_transfer, kv_loading, writes, shape, states, owned, kv_finished>>
          /\ running \subseteq running'
        BY <1>1, <2>0 DEF AdmitDefer, AdmitReserved, StartRunning, requestVars, kvVars, pageVars,
           wireVars
    <2>2. \A x \in Request : ~IsFinished(x) => ~IsFinished(x)'
        BY <1>1, <1>b DEF AdmitDefer, AdmitReserved, StartRunning, IsFinished, requestVars, TypeOK,
           Terminal
    <2>3. \A w : Settled(w) => Settled(w)'
        BY <2>1, <2>2, <1>b DEF Settled, HasPages, RowsOf, TypeOK
    <2> QED BY <2>1, <2>3, <1>a, <1>b, ScheduleKeeps
<1>2. ASSUME NEW r \in Request,
             \/ AdmitTooLarge(r) \/ AdmitUnregistered(r)
             \/ PrefetchUnregistered(r)
      PROVE  NativeInv'
    <2> DEFINE outcome == [x \in {r} |-> "ERROR"]
    <2>1. /\ FinishRequests(outcome) /\ ~HasPages(r)
          /\ UNCHANGED <<out, kv_transfer, kv_loading, writes, shape, states>>
          /\ phase' = phase \/ (phase = "prefetch" /\ phase' = "publish")
        BY <1>2 DEF AdmitTooLarge, AdmitUnregistered, PrefetchUnregistered, Prefetchable, wireVars
    <2>2. r \notin kv_loading
        BY <2>1 DEF Known, WholeInv, PageInv, LoadingIsHeld
    <2>3. running' = running \ Finishing(outcome) /\ Finishing(outcome) \subseteq {r}
        BY <2>1 DEF FinishRequests, Finishing
    <2>4. running \cap kv_loading \subseteq running'
        BY <2>2, <2>3
    <2> HIDE DEF outcome
    <2>5. /\ kv_finished \subseteq kv_finished' /\ kv_finished' \cap Open \subseteq kv_finished
          /\ \A w : Settled(w) => Settled(w)' \/ w \in kv_finished'
        BY <2>1, <1>b, FinishForgets
    <2> QED BY <2>1, <2>4, <2>5, <1>a, <1>b, ScheduleKeeps DEF SameOutput
<1>3. ASSUME NEW r \in Request, NEW res \in Reservations(r),
             AdmitNew(r, res) \/ PrefetchStart(r, res)
      PROVE  NativeInv'
    <2>0. SameOutput
        <3>1. CASE AdmitNew(r, res)
            BY <3>1, <1>b, StartsSame DEF AdmitNew
        <3>2. CASE PrefetchStart(r, res)
            BY <3>2 DEF PrefetchStart, SameOutput
        <3> QED BY <1>3, <3>1, <3>2
    <2>1. /\ ~HasPages(r) /\ Reserve(r, res)
          /\ UNCHANGED <<states, shape, kv_finished>> /\ running \subseteq running'
          /\ \/ phase = "admit" /\ phase' = "admit" /\ r \in running'
             \/ phase = "prefetch" /\ phase' = "publish"
        BY <1>3 DEF AdmitNew, PrefetchStart, Prefetchable, StartRunning, AtHead, queueVars
    <2>2. \A x \in Request : ~IsFinished(x) => ~IsFinished(x)'
        BY <1>3, <1>b DEF AdmitNew, PrefetchStart, StartRunning, IsFinished, TypeOK, Terminal
    <2> USE <2>0
    <2>3. CASE ~shape[r].remote
        <3>1. UNCHANGED <<kv_transfer, kv_loading, writes>> /\ owned \subseteq owned'
            BY <2>1, <2>3 DEF Reserve
        <3>2. \A w : Settled(w) => Settled(w)'
            BY <2>1, <2>2, <3>1, <1>b DEF Settled, HasPages, RowsOf, TypeOK
        <3> QED BY <2>1, <3>1, <3>2, <1>a, <1>b, ScheduleKeeps
    <2>4. CASE shape[r].remote
        <3>1. Accounts' /\ Open' = Open \cup RowsOf(r) /\ RowsOf(r) \cap Open = {}
            BY <2>1, <2>2, <2>4, <1>a, <1>b, RegisterAccounts DEF SameOutput
        <3>2. kv_transfer' = kv_transfer \cup RowsOf(r) /\ kv_loading' = kv_loading \cup {r}
            BY <2>1, <2>4 DEF Reserve
        <3>3. phase' = "admit" => RowsOfAll(WaveLoads) \cup RowsOf(r) \subseteq RowsOfAll(WaveLoads)'
            <4>1. phase' = "admit" => WaveLoads \cup {r} \subseteq WaveLoads'
                BY <2>1, <3>2 DEF WaveLoads
            <4> QED BY <2>1, <4>1 DEF RowsOfAll, RowsOf
        <3>4. OutputInv'
            <4>1. InCall /\ InCall' /\ pc' = "scheduling"
                BY <1>a, <1>b, <2>1 DEF InCall
            <4>2. CASE phase = "admit" /\ phase' = "admit"
                BY <1>b, <2>1, <3>2, <3>3, <4>1, <4>2 DEF OutputInv, SameOutput
            <4>3. CASE phase = "prefetch" /\ phase' = "publish"
                <5>1. /\ kv_transfer = {} /\ out.required \subseteq Open /\ out.prefetch = {}
                      /\ out.transfer \subseteq out.required
                      /\ out.transfer \cup out.kv_finished # {} => out.metadata
                    BY <1>b, <4>1, <4>3 DEF OutputInv
                <5>2. out.required \cap kv_transfer' = {} /\ out.required \subseteq Open'
                    BY <3>1, <3>2, <5>1
                <5> QED BY <4>1, <4>3, <5>1, <5>2, <2>1 DEF OutputInv, SameOutput
            <4> QED BY <2>1, <4>2, <4>3
        <3> QED BY <3>1, <3>4, <1>c DEF NativeInv
    <2> QED BY <2>3, <2>4
<1>4. CASE ScheduleEnd
    <2>1. /\ phase = "admit" /\ phase' = "prefetch" /\ kv_transfer' = {}
          /\ UNCHANGED <<kv_loading, writes, shape, states, status, owned, kv_finished, running>>
        BY <1>4, NativeAssumption DEF ScheduleEnd, requestVars, pageVars, wireVars
    <2>2. /\ out'.transfer = kv_transfer /\ out'.kv_finished = kv_finished
          /\ out'.prefetch = out.prefetch /\ out'.required = RowsOfAll(WaveLoads)
          /\ kv_transfer \cup kv_finished # {} => out'.metadata
        BY <1>4, <1>b, NativeAssumption DEF ScheduleEnd, TypeOK, Output, WaveLoads
    <2>3. out.transfer = {} /\ out.kv_finished = {} /\ out.prefetch = {}
        BY <1>b, <2>1 DEF OutputInv, InCall
    <2>4. Open' = Open /\ Written' = Written
        BY <2>1 DEF Open, Written, RowsOfAll, RowsOf
    <2>5. Unsent' = Unsent /\ Sending' = Sending /\ Forgotten' = Forgotten
        <3>1. /\ Unsent = kv_transfer \cup out.transfer /\ Sending = kv_transfer \cup out.transfer
              /\ Forgotten = kv_finished \cup out.kv_finished
            BY <1>a, OnItsWay DEF Unasked
        <3>2. /\ Unsent' = kv_transfer' \cup out'.transfer
              /\ Sending' = kv_transfer' \cup out'.transfer
              /\ Forgotten' = kv_finished' \cup out'.kv_finished
            BY <1>a DEF Unsent, Sending, Forgotten, Unretired, Unasked
        <3> QED BY <2>1, <2>2, <2>3, <3>1, <3>2
    <2>6. \A w : Settled(w) => Settled(w)'
        BY <2>1 DEF Settled, HasPages, RowsOf, IsFinished
    <2>7. Accounts'
        <3>1. \A r \in kv_loading' : shape'[r].remote
            BY <1>b, <2>1 DEF Accounts
        <3> QED BY <1>b, <2>4, <2>5, <2>6, <3>1, AccountsKept DEF receiveVars
    <2>8. OutputInv'
        <3>1. RowsOfAll(WaveLoads) \subseteq Open
            BY DEF WaveLoads, Open, RowsOfAll
        <3>2. kv_transfer \subseteq RowsOfAll(WaveLoads)
            BY <1>b, <2>1 DEF OutputInv
        <3> QED BY <1>a, <2>1, <2>2, <2>3, <2>4, <3>1, <3>2 DEF OutputInv, InCall
    <2> QED BY <2>7, <2>8, <1>c DEF NativeInv
<1>5. CASE PrefetchSkip
    <2>1. /\ SameOutput /\ phase = "prefetch" /\ phase' = "publish"
          /\ UNCHANGED <<kv_transfer, kv_loading, writes, shape, states, status, owned, kv_finished,
                         running>>
        BY <1>5 DEF PrefetchSkip, SameOutput, requestVars, queueVars, kvVars, pageVars, wireVars
    <2>2. \A w : Settled(w) => Settled(w)'
        BY <2>1 DEF Settled, HasPages, RowsOf, IsFinished
    <2> QED BY <2>1, <2>2, <1>a, <1>b, ScheduleKeeps
<1> QED BY <1>a, <1>1, <1>2, <1>3, <1>4, <1>5 DEF InSchedule, Admission, NativePrefetch

-----------------------------------------------------------------------------
(* The busy loop between its calls.                                        *)

LEMMA QuietPhase ==
    ASSUME Known, OutputInv, Works, pc # "scheduling"
    PROVE  phase \in {"idle", "flight"}
BY DEF Known, WholeInv, PageInv, TypeOK, OutputInv, InCall, Works

\* The scheduler is left alone.
LEMMA IdleStep ==
    ASSUME Known, NativeInv, Works, call = "none", UNCHANGED receiveVars, UNCHANGED vars,
           pc \notin Handing, pc' \notin Handing
    PROVE  NativeInv'
<1>1. /\ UNCHANGED <<kv_transfer, kv_loading, writes, shape, kv_finished, phase>>
      /\ UNCHANGED <<states, status, owned>>
    BY DEF vars, requestVars, kvVars, wireVars, waveVars, pageVars
<1>2. Open' = Open /\ \A w : Settled(w) => Settled(w)'
    BY <1>1 DEF Open, RowsOfAll, RowsOf, Settled, HasPages, IsFinished
<1>3. phase' \in {"idle", "flight"}
    BY <1>1, QuietPhase DEF NativeInv, Handing
<1> QED BY <1>1, <1>2, <1>3, QuietStep DEF NativeInv

\* Requests finish.
LEMMA EndingStep ==
    ASSUME Known, NativeInv, Works, call = "none", UNCHANGED receiveVars,
           NEW outcome, FinishRequests(outcome),
           UNCHANGED <<states, shape, kv_loading, kv_transfer, writes>>,
           phase' \in {"idle", "flight"}, pc \notin Handing, pc' \notin Handing
    PROVE  NativeInv'
<1>1. /\ kv_finished \subseteq kv_finished' /\ kv_finished' \cap Open \subseteq kv_finished
      /\ \A w : Settled(w) => Settled(w)' \/ w \in kv_finished'
    BY FinishForgets DEF Known, WholeInv, PageInv
<1>2. Open' = Open
    BY DEF Open, RowsOfAll, RowsOf
<1> QED BY <1>1, <1>2, QuietStep DEF NativeInv

\* The scheduler forgets requests that have finished, or an output drops them.
LEMMA PoppingStep ==
    ASSUME Known, NativeInv, Works, call = "none", UNCHANGED receiveVars,
           Finalize \/ FilterEnded
    PROVE  NativeInv'
<1>1. /\ pc \notin Handing /\ pc' \notin Handing
      /\ UNCHANGED <<kv_transfer, kv_loading, kv_finished, writes, shape, status, owned, phase>>
    BY DEF Finalize, FilterEnded, Goto, Handing, PopRequestState, DropEnded, IfAny, vars,
       requestVars, kvVars, pageVars, wireVars, waveVars
<1>2. \A r \in states : ~IsFinished(r) => r \in states'
    <2>1. CASE Finalize
        <3>1. states' = states \ {hand.id} /\ hand.id \in surfaced \cup PendingFinished
            BY <2>1 DEF Finalize, PopRequestState
        <3>2. IsFinished(hand.id)
            BY <3>1 DEF PendingFinished, Known, WholeInv, PageInv, SurfacedIsFinished
        <3> QED BY <3>1, <3>2
    <2>2. CASE FilterEnded
        BY <2>2 DEF FilterEnded, DropEnded, IfAny, vars, requestVars
    <2> QED BY <2>1, <2>2
<1>3. Open' = Open /\ \A w : Settled(w) => Settled(w)'
    BY <1>1, <1>2 DEF Open, RowsOfAll, RowsOf, Settled, HasPages, IsFinished
<1>4. phase' \in {"idle", "flight"}
    BY <1>1, QuietPhase DEF NativeInv, Handing
<1> QED BY <1>1, <1>3, <1>4, QuietStep DEF NativeInv

\* Aborts that are applied, and results.
LEMMA ApplyingStep ==
    ASSUME Known, NativeInv, Works, call = "none", UNCHANGED receiveVars,
           AbortDrained \/ Update
    PROVE  NativeInv'
<1>1. pc \notin Handing /\ pc' \notin Handing
    BY DEF AbortDrained, Update, GotoOrFail, GotoOrFailHeld, AbortSite, Next4, Handing
<1>2. phase \in {"idle", "flight"}
    BY <1>1, QuietPhase DEF NativeInv, Handing
<1>3. CASE AbortDrained
    <2>1. \/ UNCHANGED vars
          \/ FinishRequestList(batch, "ABORTED")
        BY <1>3 DEF AbortDrained, Abort, IfAny
    <2>2. CASE UNCHANGED vars
        BY <1>1, <2>2, IdleStep
    <2>3. CASE FinishRequestList(batch, "ABORTED")
        <3>1. /\ FinishRequests([x \in batch |-> "ABORTED"])
              /\ UNCHANGED <<states, shape, kv_loading, kv_transfer, writes, phase>>
            BY <2>3 DEF FinishRequestList, waveVars, wireVars
        <3> QED BY <1>1, <1>2, <3>1, EndingStep
    <2> QED BY <2>1, <2>2, <2>3
<1>4. CASE Update
    <2>1. PICK result : UpdateFromOutput(result)
        BY <1>4 DEF Update
    <2>2. /\ \E outcome : FinishRequests(outcome)
          /\ UNCHANGED <<states, shape, kv_loading, kv_transfer, writes>> /\ phase' = "idle"
        BY <2>1 DEF UpdateFromOutput, wireVars
    <2> QED BY <1>1, <2>2, EndingStep
<1> QED BY <1>3, <1>4

\* schedule() is called.
LEMMA CallScheduleStep ==
    ASSUME Known, NativeInv, Works, call = "none", UNCHANGED receiveVars, CallSchedule
    PROVE  NativeInv'
<1>1. /\ pc = "schedule" /\ pc' = "scheduling" /\ phase' = "admit"
      /\ UNCHANGED <<kv_transfer, kv_loading, kv_finished, writes, shape, states, status, owned>>
      /\ out' = [EmptyOutput EXCEPT !.cached = running]
    BY DEF CallSchedule, ScheduleBegin, Goto, requestVars, kvVars, pageVars, wireVars
<1>2. out'.transfer = {} /\ out'.kv_finished = {} /\ out'.prefetch = {}
    BY <1>1 DEF EmptyOutput
<1>3. kv_transfer = {}
    BY <1>1 DEF NativeInv, OutputInv
<1>4. Unsent = kv_transfer /\ Sending = kv_transfer /\ Forgotten = kv_finished
    BY <1>1, NothingOnItsWay DEF Handing
<1>5. Unsent' = kv_transfer /\ Sending' = kv_transfer /\ Forgotten' = kv_finished
    BY <1>1, <1>2 DEF Unsent, Sending, Forgotten, Unretired
<1>6. /\ Open' = Open /\ Written' = Written /\ \A w : Settled(w) => Settled(w)'
    BY <1>1 DEF Open, RowsOfAll, RowsOf, Written, Settled, HasPages, IsFinished
<1>7. Accounts'
    <2>1. \A r \in kv_loading' : shape'[r].remote
        BY <1>1 DEF NativeInv, Accounts
    <2> QED BY <1>4, <1>5, <1>6, <2>1, AccountsKept DEF NativeInv, receiveVars
<1>8. OutputInv'
    BY <1>1, <1>2, <1>3 DEF OutputInv, InCall
<1>9. CallsInv'
    BY DEF CallsInv, receiveVars
<1> QED BY <1>7, <1>8, <1>9 DEF NativeInv

\* schedule() returns its output.
LEMMA ScheduleReturnsStep ==
    ASSUME Known, NativeInv, Works, call = "none", UNCHANGED receiveVars, ScheduleReturns
    PROVE  NativeInv'
<1>1. /\ pc = "scheduling" /\ pc' = "started" /\ phase = "publish" /\ phase' = "flight"
      /\ kv_transfer' = {} /\ kv_finished' = {}
      /\ UNCHANGED <<kv_loading, writes, shape, states, status, owned>>
    BY DEF ScheduleReturns, Publish, Goto, requestVars, pageVars, wireVars
<1>2. /\ out'.transfer = out.transfer \cup kv_transfer /\ out'.prefetch = kv_transfer
      /\ out'.kv_finished = out.kv_finished \cup kv_finished /\ out'.required = out.required
      /\ out.metadata \/ kv_transfer # {} \/ kv_finished # {} => out'.metadata
    <2>1. out \in Output
        BY DEF Known, WholeInv, PageInv, TypeOK
    <2> QED BY <2>1 DEF ScheduleReturns, Publish, Output
<1>3. Unsent' = Unsent /\ Sending' = Sending /\ Forgotten' = Forgotten
    <2>1. /\ Unsent = kv_transfer \cup out.transfer /\ Sending = kv_transfer \cup out.transfer
          /\ Forgotten = kv_finished \cup out.kv_finished
        BY <1>1, OnItsWay DEF Unasked
    <2>2. /\ Unsent' = out'.transfer /\ Sending' = out'.transfer /\ Forgotten' = out'.kv_finished
        BY <1>1 DEF Unsent, Sending, Forgotten, Unretired, Unasked
    <2> QED BY <1>2, <2>1, <2>2
<1>4. /\ Open' = Open /\ Written' = Written /\ \A w : Settled(w) => Settled(w)'
    BY <1>1 DEF Open, RowsOfAll, RowsOf, Written, Settled, HasPages, IsFinished
<1>5. Accounts'
    <2>1. \A r \in kv_loading' : shape'[r].remote
        BY <1>1 DEF NativeInv, Accounts
    <2> QED BY <1>3, <1>4, <2>1, AccountsKept DEF NativeInv, receiveVars
<1>6. OutputInv'
    <2>1. /\ out.prefetch = {} /\ out.required \subseteq Open
          /\ out.transfer \ out.prefetch \subseteq out.required
          /\ out.required \cap kv_transfer = {}
          /\ out.transfer \cup out.kv_finished # {} => out.metadata
        BY <1>1 DEF NativeInv, OutputInv, InCall
    <2> QED BY <1>1, <1>2, <1>4, <2>1 DEF OutputInv, InCall
<1>7. CallsInv'
    BY DEF CallsInv, receiveVars
<1> QED BY <1>5, <1>6, <1>7 DEF NativeInv

\* The output is looked at: it is passed on to the workers, or it tells them
\* nothing.
LEMMA StartWaveStep ==
    ASSUME Known, NativeInv, Works, call = "none", UNCHANGED receiveVars, StartWave \/ EmptyWave
    PROVE  NativeInv'
<1>1. pc = "started"
    BY DEF StartWave, EmptyWave, Goto, GotoOrFail
<1>2. /\ Unsent = kv_transfer \cup out.transfer /\ Sending = kv_transfer \cup out.transfer
      /\ Forgotten = kv_finished \cup out.kv_finished
    BY <1>1, OnItsWay DEF Unasked
<1>3. kv_transfer = {} /\ kv_finished = {}
    BY <1>1, QuietPhase DEF NativeInv, OutputInv, InCall
<1>4. ~out.metadata => out.transfer = {} /\ out.kv_finished = {}
    BY <1>1 DEF NativeInv, OutputInv
<1>c. CallsInv'
    BY DEF CallsInv, receiveVars
<1>5. CASE StartWave
    <2>1. /\ pc' \in {"execute", "prepare"} /\ (pc' = "execute" => ~out.metadata)
          /\ UNCHANGED <<kv_transfer, kv_loading, kv_finished, writes, shape, states, status, owned,
                         out, phase>>
        BY <1>5 DEF StartWave, Goto, NothingToDo, vars, requestVars, kvVars, pageVars, wireVars,
           waveVars
    <2>2. Unsent' = Unsent /\ Sending' = Sending /\ Forgotten' = Forgotten
        <3>1. CASE pc' = "prepare"
            BY <1>2, <2>1, <3>1 DEF Unsent, Sending, Forgotten, Unretired, Unasked, receiveVars
        <3>2. CASE pc' = "execute"
            <4>1. Unsent' = kv_transfer /\ Sending' = kv_transfer /\ Forgotten' = kv_finished
                BY <2>1, <3>2 DEF Unsent, Sending, Forgotten, Unretired, Unasked, receiveVars
            <4> QED BY <1>2, <1>4, <2>1, <3>2, <4>1
        <3> QED BY <2>1, <3>1, <3>2
    <2>3. /\ Open' = Open /\ Written' = Written /\ \A w : Settled(w) => Settled(w)'
        BY <2>1 DEF Open, RowsOfAll, RowsOf, Written, Settled, HasPages, IsFinished
    <2>4. Accounts'
        <3>1. \A r \in kv_loading' : shape'[r].remote
            BY <2>1 DEF NativeInv, Accounts
        <3> QED BY <2>2, <2>3, <3>1, AccountsKept DEF NativeInv, receiveVars
    <2>5. OutputInv'
        <3>1. phase \in {"idle", "flight"}
            BY <1>1, QuietPhase DEF NativeInv
        <3> QED BY <1>1, <1>3, <2>1, <2>3, <3>1 DEF NativeInv, OutputInv, InCall
    <2> QED BY <2>4, <2>5, <1>c DEF NativeInv
<1>6. CASE EmptyWave
    <2>1. /\ ~out.metadata /\ pc' \in {"emit", "failing"} /\ phase' = "idle"
          /\ UNCHANGED <<states, shape, kv_loading, kv_transfer, writes>>
        BY <1>6 DEF EmptyWave, GotoOrFail, IsEmpty, UpdateFromOutput, wireVars
    <2>2. PICK outcome : FinishRequests(outcome)
        BY <1>6 DEF EmptyWave, UpdateFromOutput
    <2>3. /\ kv_finished \subseteq kv_finished' /\ kv_finished' \cap Open \subseteq kv_finished
          /\ \A w : Settled(w) => Settled(w)' \/ w \in kv_finished'
        BY <2>1, <2>2, FinishForgets DEF Known, WholeInv, PageInv
    <2>4. Unsent' = kv_transfer /\ Sending' = kv_transfer /\ Forgotten' = kv_finished'
        BY <2>1 DEF Unsent, Sending, Forgotten, Unretired, Unasked, receiveVars
    <2>5. Open' = Open /\ Written' = Written
        BY <2>1 DEF Open, RowsOfAll, RowsOf, Written
    <2>6. Unsent' = Unsent /\ Sending' = Sending /\ Forgotten = kv_finished
        BY <1>2, <1>4, <2>1, <2>4
    <2>7. Accounts'
        <3>1. \A r \in kv_loading' : shape'[r].remote
            BY <2>1 DEF NativeInv, Accounts
        <3> QED BY <2>3, <2>4, <2>5, <2>6, <3>1, AccountsKept DEF NativeInv, receiveVars
    <2>8. OutputInv'
        BY <1>3, <2>1 DEF OutputInv, InCall
    <2> QED BY <2>7, <2>8, <1>c DEF NativeInv
<1> QED BY <1>5, <1>6

\* Whatever goes on in the engine while no call is made.
LEMMA ElsewhereStep ==
    ASSUME Known, NativeInv, Works, Works', Elsewhere
    PROVE  NativeInv'
<1>1. UNCHANGED receiveVars
    BY DEF Elsewhere
<1>2. CASE \/ \E r \in Request, s \in Shape : Add(r, s)
           \/ \E r \in Request : RequestAbort(r)
           \/ \E i \in Calls : ReaderEnds(i)
           \/ CloseBegin \/ CloseWait \/ Stopped
    BY <1>1, <1>2, ThreadStep
<1>3. CASE call = "none" /\ Draining /\ AbortDrained
    BY <1>1, <1>3, ApplyingStep
<1>4. CASE call = "none" /\ ~Asking /\ BusyLoop
    <2>1. CASE \/ LoopStops \/ NoAborts \/ TakeAborts \/ CollectPending
               \/ (\E r \in Request : Capture(r)) \/ Put \/ Delivered \/ WaitEnds
               \/ Execute \/ ExecuteRaises
        <3>1. UNCHANGED vars
            BY <2>1 DEF LoopStops, NoAborts, TakeAborts, CollectPending, Capture, Put, Delivered,
               WaitEnds, Execute, ExecuteRaises
        <3>2. pc \notin Handing
            BY <2>1 DEF LoopStops, NoAborts, TakeAborts, CollectPending, Capture, Put, Delivered,
               WaitEnds, Execute, ExecuteRaises, Goto, GotoOrFail, AbortSite, Handing
        <3>3. pc' \notin Handing
            <4>1. CASE LoopStops \/ NoAborts \/ TakeAborts
                BY <4>1 DEF LoopStops, NoAborts, TakeAborts, Goto, AbortSite, Next4, Handing
            <4>2. CASE CollectPending \/ (\E r \in Request : Capture(r)) \/ Put
                BY <4>2 DEF CollectPending, Capture, Put, Goto, GotoOrFail, Handing
            <4>3. CASE Delivered \/ WaitEnds \/ Execute \/ ExecuteRaises
                BY <4>3 DEF Delivered, WaitEnds, Execute, ExecuteRaises, Goto, Handing, Known,
                   LoopInv
            <4> QED BY <2>1, <4>1, <4>2, <4>3
        <3> QED BY <1>1, <1>4, <3>1, <3>2, <3>3, IdleStep
    <2>2. CASE FailLate
        <3>1. late = {} /\ pc = "late" /\ pc' = "filter"
            BY <2>2, NativeAssumption DEF FailLate, Goto, Known, DrainInv
        <3>2. UNCHANGED vars
            BY <2>2, <3>1 DEF FailLate, IfAny, Finishing
        <3> QED BY <1>1, <1>4, <3>1, <3>2, IdleStep DEF Handing
    <2>3. CASE EndDrains
        <3>1. kv_draining = {} /\ pc = "drains" /\ pc' = "execute"
            BY <2>3, NativeAssumption DEF EndDrains, Goto, Known, DrainInv
        <3>2. UNCHANGED vars
            BY <2>3, <3>1 DEF EndDrains, IfAny, CompletedKvDrains
        <3> QED BY <1>1, <1>4, <3>1, <3>2, IdleStep DEF Handing
    <2>4. CASE Finalize \/ FilterEnded
        BY <1>1, <1>4, <2>4, PoppingStep
    <2>5. CASE AbortDrained \/ Update
        BY <1>1, <1>4, <2>5, ApplyingStep
    <2>6. CASE CallSchedule
        BY <1>1, <1>4, <2>6, CallScheduleStep
    <2>7. CASE ScheduleGoesOn
        BY <1>1, <1>4, <2>7, ScheduleStep
    <2>8. CASE ScheduleReturns
        BY <1>1, <1>4, <2>8, ScheduleReturnsStep
    <2>9. CASE StartWave \/ EmptyWave
        BY <1>1, <1>4, <2>9, StartWaveStep
    <2>10. CASE \/ ScheduleRaises \/ DrainAbortsFails \/ EndDrainsFails
                \/ FailBegin \/ FailStop \/ FailClose \/ FailHeld
        BY <2>10 DEF ScheduleRaises, DrainAbortsFails, EndDrainsFails, FailBegin, FailStop,
           FailClose, FailHeld, Goto, Works, Stopping
    <2>11. CASE DrainAborts \/ PrepareKv \/ ProcessAborts
        BY <1>4, <2>11, NativeAssumption DEF DrainAborts, PrepareKv, ProcessAborts, Asking, Draining
    <2> QED BY <1>4, <2>1, <2>2, <2>3, <2>4, <2>5, <2>6, <2>7, <2>8, <2>9, <2>10, <2>11
            DEF BusyLoop, ProcessAbortsQueue
<1>5. CASE call = "none" /\ ~Asking /\ Closing
    <2>1. CASE CloseBegin \/ CloseWait
        BY <1>1, <2>1, ThreadStep
    <2>2. CASE CloseFirst
        <3>1. pc = "exit" /\ pc' = pc /\ UNCHANGED vars
            BY <2>2, NativeAssumption DEF CloseFirst, Known, LoopInv, loopVars
        <3> QED BY <1>1, <1>5, <3>1, IdleStep DEF Handing
    <2>3. CASE closer = "first" /\ CloseDrainFails
        BY <1>5, <2>3 DEF CloseDrainFails, Asking, Leaving
    <2>4. CASE CloseSecond
        <3>1. phase' = "closed"
            BY <2>4, NativeAssumption DEF CloseSecond, CloseScheduler, IfAny, Close, vars, waveVars
        <3> QED BY <3>1 DEF Works
    <2> QED BY <1>5, <2>1, <2>2, <2>3, <2>4 DEF Closing, CloseStops
<1> QED BY <1>2, <1>3, <1>4, <1>5 DEF Elsewhere

-----------------------------------------------------------------------------
(* The calls to the workers.                                               *)

\* The engine does not notice.
LEMMA EngineUnchanged ==
    ASSUME UNCHANGED allVars
    PROVE  /\ Open' = Open /\ Written' = Written /\ (Asking <=> Asking') /\ (OutputInv => OutputInv')
           /\ \A w : Settled(w) => Settled(w)'
           /\ UNCHANGED <<pc, phase, out, kv_transfer, kv_finished, kv_loading, shape>>
<1>1. /\ UNCHANGED <<pc, phase, out, kv_transfer, kv_finished, kv_loading, shape>>
      /\ UNCHANGED <<writes, states, status, owned, running, batch, closer>>
    BY DEF allVars, vars, engineVars, loopVars, downVars, requestVars, queueVars, kvVars,
       pageVars, wireVars, waveVars
<1>2. /\ Open' = Open /\ Written' = Written
      /\ RowsOfAll(WaveLoads)' = RowsOfAll(WaveLoads)
    BY <1>1 DEF Open, RowsOfAll, RowsOf, Written, WaveLoads
<1>3. Asking <=> Asking'
    BY <1>1 DEF Asking, Draining, Leaving
<1>4. OutputInv => OutputInv'
    BY <1>1, <1>2 DEF OutputInv, InCall
<1>5. \A w : Settled(w) => Settled(w)'
    BY <1>1 DEF Settled, HasPages, RowsOf, IsFinished
<1> QED BY <1>1, <1>2, <1>3, <1>4, <1>5

\* No output is on its way where the loop polls.
LEMMA PollingIsQuiet ==
    ASSUME Known, Asking, pc # "prepare"
    PROVE  pc \notin Handing
BY DEF Known, LoopInv, Asking, Draining, Leaving, AbortSite, Handing

\* A receive is open only for a row that is received or still written.
LEMMA WrittenIsOpen == Known => Written \subseteq Open
BY DEF Known, WholeInv, PageInv, ReceivesAccounted, Written, Open

LEMMA AskStep ==
    ASSUME Known, NativeInv, Works, Ask
    PROVE  NativeInv'
<1> DEFINE c == IF pc = "prepare" THEN "current" ELSE "poll"
<1>1. /\ Asking /\ call = "none" /\ ~Refused(c) /\ call' = c /\ replied' = {}
      /\ submitted' = submitted \cup New(c) /\ received' = received
      /\ UNCHANGED allVars
    BY DEF Ask
<1>2. /\ Open' = Open /\ Written' = Written /\ Asking' /\ OutputInv'
      /\ \A w : Settled(w) => Settled(w)'
      /\ UNCHANGED <<pc, phase, out, kv_transfer, kv_finished, kv_loading, shape>>
    BY <1>1, EngineUnchanged DEF NativeInv
<1>3. CallsInv'
    BY <1>1, <1>2 DEF CallsInv
<1>4. \A r \in kv_loading' : shape'[r].remote
    BY <1>2 DEF NativeInv, Accounts
<1>5. CASE pc # "prepare"
    <2>1. New(c) = {} /\ c = "poll"
        BY <1>5 DEF New
    <2>2. /\ Unsent = kv_transfer /\ Sending = kv_transfer /\ Forgotten = kv_finished
        BY <1>1, <1>5, PollingIsQuiet, NothingOnItsWay
    <2>3. /\ Unsent' = kv_transfer /\ Sending' = kv_transfer /\ Forgotten' = kv_finished
        <3>1. pc \notin Handing
            BY <1>1, <1>5, PollingIsQuiet
        <3> QED BY <3>1, <1>1, <1>2, <2>1 DEF Handing, Unsent, Sending, Forgotten, Unretired, Unasked
    <2>4. Accounts'
        BY <1>1, <1>2, <1>4, <2>1, <2>2, <2>3, AccountsKept DEF NativeInv
    <2> QED BY <1>2, <1>3, <2>4 DEF NativeInv
<1>6. CASE pc = "prepare"
    <2>1. /\ New(c) = out.transfer \ out.prefetch /\ New(c) \cap submitted = {} /\ c = "current"
        BY <1>1, <1>6 DEF New, Refused
    <2>2. /\ Unsent = kv_transfer \cup out.transfer /\ Sending = kv_transfer \cup out.transfer
          /\ Forgotten = kv_finished \cup out.kv_finished
        BY <1>1, <1>6, OnItsWay DEF Unasked
    <2>3. /\ Unsent' = kv_transfer \cup (out.transfer \cap out.prefetch)
          /\ Sending' = kv_transfer \cup out.transfer
          /\ Forgotten' = kv_finished \cup out.kv_finished
        BY <1>1, <1>2, <1>6 DEF Unsent, Sending, Forgotten, Unretired, Unasked
    <2>4. kv_transfer = {}
        BY <1>6 DEF NativeInv, OutputInv
    <2> HIDE DEF c
    <2>5. Unsent = Unsent' \cup New(c) /\ New(c) \cap Unsent' = {} /\ Unsent \subseteq Open
        BY <2>1, <2>2, <2>3, <2>4, WrittenIsOpen DEF NativeInv, Accounts
    <2>6. \A w \in New(c) : w \in Written /\ \E k \in Worker : w \notin received[k]
        BY <2>1, <2>5, WorkerAssumption DEF NativeInv, Accounts, Known, RecordsOK
    <2>7. Accounts'
        <3>1. Unsent' \subseteq Written'
            BY <1>2, <2>5 DEF NativeInv, Accounts
        <3>2. \A w \in Open' \ Unsent' :
                  /\ w \in submitted'
                  /\ w \in Written' <=> \E k \in Worker : w \notin received'[k]
            BY <1>1, <1>2, <2>5, <2>6 DEF NativeInv, Accounts
        <3>3. \A w \in submitted' : w \notin Open' \ Unsent' =>
                  /\ \A k \in Worker : w \in received'[k]
                  /\ w \in Forgotten' \/ Settled(w)'
            BY <1>1, <1>2, <2>2, <2>3, <2>5 DEF NativeInv, Accounts
        <3>4. Forgotten' \cap Open' \subseteq Sending'
            BY <1>2, <2>2, <2>3 DEF NativeInv, Accounts
        <3> QED BY <1>4, <3>1, <3>2, <3>3, <3>4 DEF Accounts
    <2> QED BY <1>2, <1>3, <2>7 DEF NativeInv
<1> QED BY <1>5, <1>6

LEMMA ReplyStep ==
    ASSUME Known, NativeInv, Works, NEW k \in Worker, Reply(k)
    PROVE  NativeInv'
<1>1. /\ call # "none" /\ replied' = replied \cup {k} /\ Required(call) \subseteq received[k]
      /\ UNCHANGED <<allVars, call, submitted, received>>
    BY DEF Reply
<1>2. /\ Open' = Open /\ Written' = Written /\ (Asking <=> Asking') /\ OutputInv'
      /\ \A w : Settled(w) => Settled(w)'
      /\ UNCHANGED <<pc, phase, out, kv_transfer, kv_finished, kv_loading, shape>>
    BY <1>1, EngineUnchanged DEF NativeInv
<1>3. Unsent' = Unsent /\ Sending' = Sending /\ Forgotten' = Forgotten
    BY <1>1, <1>2 DEF Unsent, Sending, Forgotten, Unretired, Unasked
<1>4. Accounts'
    <2>1. \A r \in kv_loading' : shape'[r].remote
        BY <1>2 DEF NativeInv, Accounts
    <2> QED BY <1>1, <1>2, <1>3, <2>1, AccountsKept DEF NativeInv
<1>5. CallsInv'
    <2>1. call = "current" => out.required \subseteq received[k]
        BY <1>1 DEF Required
    <2> QED BY <1>1, <1>2, <2>1 DEF NativeInv, CallsInv
<1> QED BY <1>2, <1>4, <1>5 DEF NativeInv

\* A worker sees one more row: it is open, and arrives when all have seen it.
LEMMA CollectStep ==
    ASSUME Known, NativeInv, Works, NEW k \in Worker, NEW w \in submitted, Collect(k, w)
    PROVE  NativeInv'
<1>1. /\ call # "none" /\ w \notin received[k] /\ k \notin replied
      /\ received' = [received EXCEPT ![k] = @ \cup {w}]
      /\ UNCHANGED <<call, submitted, replied>>
    BY DEF Collect
<1>2. w \in Open \ Unsent /\ w \in Written
    BY <1>1 DEF NativeInv, Accounts
<1>3. \A j \in Worker : \A v : v \in received'[j] <=> v \in received[j] \/ (j = k /\ v = w)
    BY <1>1 DEF Known, RecordsOK
<1>4. /\ UNCHANGED <<pc, phase, out, kv_transfer, kv_finished, kv_loading, shape, batch, closer>>
      /\ UNCHANGED <<states, status, owned, running>>
    BY DEF Collect, WriteArrives, allVars, vars, engineVars, loopVars, downVars, requestVars,
       queueVars, kvVars, pageVars, waveVars
<1>5. /\ Open' = Open /\ RowsOfAll(WaveLoads)' = RowsOfAll(WaveLoads)
      /\ \A v : Settled(v) => Settled(v)'
    BY <1>4 DEF Open, RowsOfAll, RowsOf, WaveLoads, Settled, HasPages, IsFinished
<1>6. Unsent' = Unsent /\ Sending' = Sending /\ Forgotten' = Forgotten
    BY <1>1, <1>4 DEF Unsent, Sending, Forgotten, Unretired, Unasked
<1>7. /\ \A v : v # w => (v \in Written' <=> v \in Written)
      /\ w \in Written' <=> \E j \in Worker : w \notin received'[j]
    <2>1. CASE \A j \in Worker \ {k} : w \in received[j]
        <3>1. PICK x \in writes : <<x[1], x[2]>> = w /\ writes' = writes \ {x}
            BY <2>1 DEF Collect, WriteArrives
        <3>2. \A y \in writes : <<y[1], y[2]>> = w => y = x
            BY <3>1 DEF Known, WholeInv, PageInv, WritesOwned, RowHasOnePage
        <3>3. w \notin Written' /\ \A v : v # w => (v \in Written' <=> v \in Written)
            BY <3>1, <3>2 DEF Written
        <3>4. \A j \in Worker : w \in received'[j]
            BY <2>1, <1>3
        <3> QED BY <3>3, <3>4
    <2>2. CASE ~\A j \in Worker \ {k} : w \in received[j]
        <3>1. writes' = writes
            BY <2>2 DEF Collect, allVars, vars, wireVars
        <3>2. \E j \in Worker : w \notin received'[j]
            BY <2>2, <1>3
        <3> QED BY <1>2, <3>1, <3>2 DEF Written
    <2> QED BY <2>1, <2>2
<1>8. Accounts'
    <2>1. Unsent' \subseteq Written'
        BY <1>2, <1>6, <1>7 DEF NativeInv, Accounts
    <2>2. \A v \in Open' \ Unsent' :
              /\ v \in submitted'
              /\ v \in Written' <=> \E j \in Worker : v \notin received'[j]
        <3> SUFFICES ASSUME NEW v \in Open \ Unsent
                     PROVE  /\ v \in submitted
                            /\ v \in Written' <=> \E j \in Worker : v \notin received'[j]
            BY <1>1, <1>5, <1>6
        <3>1. CASE v = w
            BY <1>7, <3>1
        <3>2. CASE v # w
            BY <1>3, <1>7, <3>2 DEF NativeInv, Accounts
        <3> QED BY <3>1, <3>2
    <2>3. \A v \in submitted' : v \notin Open' \ Unsent' =>
              /\ \A j \in Worker : v \in received'[j]
              /\ v \in Forgotten' \/ Settled(v)'
        BY <1>1, <1>3, <1>5, <1>6 DEF NativeInv, Accounts
    <2>4. Forgotten' \cap Open' \subseteq Sending' /\ \A r \in kv_loading' : shape'[r].remote
        BY <1>4, <1>5, <1>6 DEF NativeInv, Accounts
    <2> QED BY <2>1, <2>2, <2>3, <2>4 DEF Accounts
<1>9. OutputInv'
    BY <1>4, <1>5 DEF NativeInv, OutputInv, InCall
<1>10. CallsInv'
    <2>1. Asking <=> Asking'
        BY <1>4 DEF Asking, Draining, Leaving
    <2>2. \A j \in replied : received'[j] = received[j]
        BY <1>1 DEF Known, RecordsOK
    <2> QED BY <1>1, <1>4, <2>1, <2>2 DEF NativeInv, CallsInv
<1> QED BY <1>8, <1>9, <1>10 DEF NativeInv

\* What a call retires is over: its rows are not open, except for prefetched
\* ones that the next call will submit.
LEMMA RetiresEnded ==
    ASSUME Known, NativeInv, Works, AllReplied, ~Incomplete
    PROVE  /\ Retired(call) \cap Open \subseteq out.prefetch
           /\ call # "current" => Retired(call) = {}
           /\ kv_transfer = {}
           /\ call = "current" => kv_finished = {} /\ pc = "prepare"
<1>1. call # "none"
    BY DEF AllReplied
<1>2. call = "current" => pc = "prepare"
    BY <1>1 DEF NativeInv, CallsInv
<1>3. kv_transfer = {}
    <2>1. CASE pc = "prepare"
        BY <2>1 DEF NativeInv, OutputInv
    <2>2. CASE pc # "prepare"
        <3>1. pc \notin Handing
            BY <1>1, <2>2, PollingIsQuiet DEF NativeInv, CallsInv
        <3> QED BY <3>1 DEF NativeInv, OutputInv, Handing
    <2> QED BY <2>1, <2>2
<1>4. CASE call # "current"
    BY <1>2, <1>3, <1>4 DEF Retired
<1>5. CASE call = "current"
    <2>1. kv_finished = {} /\ out.transfer \ out.prefetch \subseteq out.required
        BY <1>2, <1>5 DEF NativeInv, OutputInv
    <2>2. Forgotten = out.kv_finished /\ Sending = out.transfer
        BY <1>3, <1>5, <2>1 DEF Forgotten, Sending, Unretired
    <2>3. Retired(call) = out.kv_finished
        BY <1>5 DEF Retired
    <2>4. ASSUME NEW w \in out.kv_finished, w \in Open, w \notin out.prefetch PROVE FALSE
        <3>1. w \in out.required
            BY <2>1, <2>2, <2>4 DEF NativeInv, Accounts
        <3>2. w \in Reported
            BY <1>5, <3>1 DEF Incomplete, Required
        <3> QED BY <2>3, <3>2, WorkerAssumption DEF Reported, StillReceived
    <2> QED BY <1>2, <1>3, <1>5, <2>1, <2>3, <2>4
<1> QED BY <1>4, <1>5

LEMMA AskAgainStep ==
    ASSUME Known, NativeInv, Works, AskAgain
    PROVE  NativeInv'
<1>1. /\ AllReplied /\ ~Incomplete /\ ~LastCall
      /\ New("prefetch") \cap StillSubmitted(call) = {}
      /\ call' = "prefetch" /\ replied' = {} /\ UNCHANGED allVars
      /\ submitted' = StillSubmitted(call) \cup New("prefetch")
      /\ received' = [k \in Worker |-> StillReceived(k)]
    BY DEF AskAgain, Retire
<1>2. call = "current"
    BY <1>1 DEF LastCall
<1>3. /\ Open' = Open /\ Written' = Written /\ (Asking <=> Asking') /\ OutputInv'
      /\ \A w : Settled(w) => Settled(w)'
      /\ UNCHANGED <<pc, phase, out, kv_transfer, kv_finished, kv_loading, shape>>
    BY <1>1, EngineUnchanged DEF NativeInv
<1>4. /\ Retired(call) = out.kv_finished /\ New("prefetch") = out.prefetch
      /\ out.kv_finished \cap Open \subseteq out.prefetch
      /\ kv_transfer = {} /\ kv_finished = {} /\ pc = "prepare"
    BY <1>1, <1>2, RetiresEnded DEF Retired, New
<1>5. out.prefetch \subseteq out.transfer
    BY <1>4 DEF NativeInv, OutputInv
<1>6. Unsent = out.prefetch /\ Forgotten = out.kv_finished
    BY <1>2, <1>4, <1>5 DEF Unsent, Unasked, Forgotten, Unretired
<1>7. Unsent' = {} /\ Sending' = {} /\ Forgotten' = {}
    BY <1>1, <1>3, <1>4 DEF Unsent, Unasked, Sending, Forgotten, Unretired
<1>8. out.prefetch \subseteq Written /\ out.prefetch \subseteq Open
    BY <1>6, WrittenIsOpen DEF NativeInv, Accounts
<1>9. \A k \in Worker : received'[k] = received[k] \ out.kv_finished
    BY <1>1, <1>4 DEF StillReceived
<1>10. /\ submitted' = (submitted \ out.kv_finished) \cup out.prefetch
       /\ out.prefetch \cap (submitted \ out.kv_finished) = {}
    BY <1>1, <1>4 DEF StillSubmitted
<1>11. Accounts'
    <2>1. ASSUME NEW w \in Open
          PROVE  /\ w \in submitted'
                 /\ w \in Written' <=> \E k \in Worker : w \notin received'[k]
        <3>1. CASE w \in out.prefetch
            <4>1. \A k \in Worker : received[k] \subseteq submitted
                BY DEF Known, RecordsOK
            <4>2. \A k \in Worker : w \notin received'[k]
                BY <3>1, <4>1, <1>9, <1>10
            <4> QED BY <3>1, <4>2, <1>3, <1>8, <1>10, WorkerAssumption
        <3>2. CASE w \notin out.prefetch
            BY <2>1, <3>2, <1>3, <1>4, <1>6, <1>9, <1>10 DEF NativeInv, Accounts
        <3> QED BY <3>1, <3>2
    <2>2. ASSUME NEW w \in submitted', w \notin Open
          PROVE  (\A k \in Worker : w \in received'[k]) /\ Settled(w)'
        <3>1. w \in submitted \ out.kv_finished
            BY <2>2, <1>8, <1>10
        <3> QED BY <2>2, <3>1, <1>3, <1>6, <1>9 DEF NativeInv, Accounts
    <2>3. \A r \in kv_loading' : shape'[r].remote
        BY <1>3 DEF NativeInv, Accounts
    <2> QED BY <2>1, <2>2, <2>3, <1>3, <1>7 DEF Accounts
<1>12. CallsInv'
    BY <1>1, <1>3, <1>4, <1>2 DEF NativeInv, CallsInv
<1> QED BY <1>3, <1>11, <1>12 DEF NativeInv

\* What holds of the records once the last call has retired its rows.
LEMMA RecordsAtReturn ==
    ASSUME Known, NativeInv, Works, AllReplied, ~Incomplete, LastCall
    PROVE  /\ \A w \in Open :
                  /\ w \in StillSubmitted(call)
                  /\ w \in Written <=> \E k \in Worker : w \notin StillReceived(k)
           /\ \A w \in StillSubmitted(call) : w \notin Open =>
                  /\ \A k \in Worker : w \in StillReceived(k)
                  /\ w \in kv_finished \/ Settled(w)
           /\ kv_finished \cap Open = {} /\ kv_transfer = {}
<1>1. /\ kv_transfer = {} /\ Retired(call) \cap Open \subseteq out.prefetch
      /\ call # "current" => Retired(call) = {}
      /\ call = "current" => pc = "prepare" /\ kv_finished = {}
    BY RetiresEnded
<1>2. call = "current" => out.prefetch = {}
    BY DEF LastCall
<1>3. Retired(call) \cap Open = {} /\ Unsent = {}
    BY <1>1, <1>2, PollingIsQuiet DEF Unsent, Unasked, AllReplied, NativeInv, CallsInv, Handing
<1>4. Forgotten = kv_finished \cup Retired(call)
    <2>1. ~Unasked
        BY PollingIsQuiet DEF Unasked, AllReplied, NativeInv, CallsInv, Handing
    <2> QED BY <1>1, <2>1 DEF Forgotten, Unretired, Retired
<1>5. kv_finished \cap Open = {}
    <2>1. CASE call = "current"
        BY <1>1, <2>1
    <2>2. CASE call # "current"
        <3>1. Sending = {}
            BY <1>1, <2>2, PollingIsQuiet
               DEF Sending, Unretired, Unasked, AllReplied, NativeInv, CallsInv, Handing
        <3> QED BY <3>1, <1>4 DEF NativeInv, Accounts
    <2> QED BY <2>1, <2>2
<1>6. \A w \in Open :
          /\ w \in StillSubmitted(call)
          /\ w \in Written <=> \E k \in Worker : w \notin StillReceived(k)
    BY <1>3 DEF NativeInv, Accounts, StillSubmitted, StillReceived
<1>7. \A w \in StillSubmitted(call) : w \notin Open =>
          /\ \A k \in Worker : w \in StillReceived(k)
          /\ w \in kv_finished \/ Settled(w)
    BY <1>3, <1>4 DEF NativeInv, Accounts, StillSubmitted, StillReceived
<1> QED BY <1>1, <1>5, <1>6, <1>7

\* What the return of the last call does to the engine: at most it reports the
\* arrived rows, and goes on where no output is on its way.
LEMMA ReturnInEngine ==
    ASSUME Known, NativeInv, Works, Return
    PROVE  /\ pc' \notin Handing
           /\ UNCHANGED <<states, status, shape, owned, running, kv_transfer, kv_finished, phase,
                          out, writes>>
           /\ kv_loading' \subseteq kv_loading
           /\ \A r \in kv_loading \ kv_loading' : RowsOf(r) \cap Written = {}
<1>1. Asking /\ (call = "poll" <=> pc # "prepare")
    BY DEF Return, Retire, AllReplied, NativeInv, CallsInv
<1>2. \/ UNCHANGED vars
      \/ UpdateKvConnectorOutput(arrived)
    BY NativeAssumption DEF Return, Prepare, Poll, Leaving, CloseFirst, Draining, DrainAborts,
       ReportReceives, IfAny, allVars
<1>3. pc' \notin Handing
    <2>1. CASE Prepare \/ Poll
        BY <2>1 DEF Prepare, Poll, Goto, Handing
    <2>2. CASE \/ Leaving /\ CloseFirst
               \/ Draining /\ IF arrived = {} THEN UNCHANGED allVars ELSE DrainAborts
        <3>1. pc' = pc /\ (Leaving \/ Draining)
            BY <2>2 DEF CloseFirst, DrainAborts, allVars, engineVars, loopVars
        <3> QED BY <3>1 DEF Known, LoopInv, Leaving, Draining, AbortSite, Handing
    <2> QED BY <2>1, <2>2 DEF Return
<1>4. CASE UNCHANGED vars
    BY <1>3, <1>4 DEF vars, requestVars, kvVars, pageVars, wireVars, waveVars, queueVars
<1>5. CASE UpdateKvConnectorOutput(arrived)
    <2>1. /\ UNCHANGED <<states, status, shape, owned, running, kv_transfer, kv_finished, phase,
                         out, writes>>
          /\ kv_loading' \subseteq kv_loading
          /\ \A r \in kv_loading \ kv_loading' : RowsOf(r) \subseteq kv_received \cup arrived
        BY <1>5 DEF UpdateKvConnectorOutput, CompletedLoads, requestVars, pageVars, waveVars,
           queueVars
    <2>2. (kv_received \cup arrived) \cap Written = {}
        BY DEF Known, WholeInv, PageInv, ReceivesAccounted, Written
    <2> QED BY <1>3, <2>1, <2>2
<1> QED BY <1>2, <1>4, <1>5

\* The rows that are reported have been received by every worker, and their
\* requests hold them from now on.
LEMMA ReturnStep ==
    ASSUME Known, NativeInv, Works, Return
    PROVE  NativeInv'
<1>1. /\ AllReplied /\ ~Incomplete /\ LastCall /\ call' = "none" /\ replied' = {}
      /\ submitted' = StillSubmitted(call) /\ received' = [k \in Worker |-> StillReceived(k)]
    BY DEF Return, Retire
<1>2. /\ pc' \notin Handing
      /\ UNCHANGED <<states, status, shape, owned, running, kv_transfer, kv_finished, phase,
                     out, writes>>
      /\ kv_loading' \subseteq kv_loading
      /\ \A r \in kv_loading \ kv_loading' : RowsOf(r) \cap Written = {}
    BY ReturnInEngine
<1>3. /\ \A w \in Open :
             /\ w \in StillSubmitted(call)
             /\ w \in Written <=> \E k \in Worker : w \notin StillReceived(k)
      /\ \A w \in StillSubmitted(call) : w \notin Open =>
             /\ \A k \in Worker : w \in StillReceived(k)
             /\ w \in kv_finished \/ Settled(w)
      /\ kv_finished \cap Open = {} /\ kv_transfer = {}
    BY <1>1, RecordsAtReturn
<1>4. Unsent' = {} /\ Sending' = {} /\ Forgotten' = kv_finished
    BY <1>1, <1>2, <1>3 DEF Handing, Unsent, Sending, Forgotten, Unretired, Unasked
<1>5. /\ Written' = Written
      /\ \A w : w \in Open' <=> w[1] \in kv_loading' /\ w \in RowsOf(w[1])
    <2>1. \A w, r : w \in RowsOf(r) => w[1] = r
        BY DEF RowsOf
    <2> QED BY <1>2, <2>1 DEF Written, Open, RowsOfAll, RowsOf
<1>6. Open' \subseteq Open
    BY <1>2, <1>5, OpenRows
<1>7. \A w \in Open \ Open' : w \notin Written /\ Settled(w)'
    <2> SUFFICES ASSUME NEW w \in Open \ Open' PROVE w \notin Written /\ Settled(w)'
        OBVIOUS
    <2>1. w[1] \in kv_loading \ kv_loading' /\ w \in RowsOf(w[1])
        BY <1>5, OpenRows
    <2>2. shape[w[1]].remote /\ w[1] \in states /\ ~IsFinished(w[1]) /\ HasPages(w[1])
        BY <2>1, NativeAssumption DEF NativeInv, Accounts, Known, WholeInv, PageInv, LoadingIsHeld,
           DrainInv
    <2> QED BY <1>2, <2>1, <2>2 DEF Settled, HasPages, RowsOf, IsFinished
<1>8. \A w : Settled(w) => Settled(w)'
    BY <1>2 DEF Settled, HasPages, RowsOf, IsFinished
<1>9. Accounts'
    <2>1. \A w \in Open' \ Unsent' :
              /\ w \in submitted'
              /\ w \in Written' <=> \E k \in Worker : w \notin received'[k]
        BY <1>1, <1>3, <1>4, <1>5, <1>6
    <2>2. ASSUME NEW w \in submitted', w \notin Open'
          PROVE  /\ \A k \in Worker : w \in received'[k]
                 /\ w \in Forgotten' \/ Settled(w)'
        <3>1. CASE w \in Open
            BY <1>1, <1>3, <1>7, <2>2, <3>1
        <3>2. CASE w \notin Open
            BY <1>1, <1>3, <1>4, <1>8, <2>2, <3>2
        <3> QED BY <3>1, <3>2
    <2>3. \A r \in kv_loading' : shape'[r].remote
        BY <1>2 DEF NativeInv, Accounts
    <2> QED BY <1>3, <1>4, <1>6, <2>1, <2>2, <2>3 DEF Accounts
<1>10. OutputInv'
    <2>1. phase \in {"idle", "flight"}
        <3>1. pc # "scheduling"
            BY <1>1 DEF AllReplied, NativeInv, CallsInv, Asking, Draining, Leaving, AbortSite,
               Known, LoopInv
        <3> QED BY <3>1, QuietPhase DEF NativeInv
    <2> QED BY <1>2, <1>3, <2>1 DEF OutputInv, Handing, InCall
<1>11. CallsInv'
    BY <1>1 DEF CallsInv
<1> QED BY <1>9, <1>10, <1>11 DEF NativeInv

-----------------------------------------------------------------------------
(* The invariant.                                                          *)

\* Nothing is asked of the workers any more once the engine has stopped.
StoppedInv ==
    /\ phase = "closed" => pc = "exit" /\ kv_loading = {}
    /\ ~Works => call = "none"

\* A call that fails stops the engine.
LEMMA FailedCallStops ==
    ASSUME LoopInv, CallFails
    PROVE  ~Works'
<1>1. CASE PrepareFails \/ DrainAbortsFails
    BY <1>1 DEF PrepareFails, DrainAbortsFails, Goto, Works, Stopping
<1>2. CASE CloseDrainFails
    <2>1. phase' = "closed"
        BY <1>2 DEF CloseDrainFails, CloseScheduler, IfAny, Close, vars, waveVars
    <2> QED BY <2>1 DEF Works
<1> QED BY <1>1, <1>2 DEF CallFails

LEMMA NativeStep ==
    ASSUME Known, NativeInv, [NativeNext]_nativeVars
    PROVE  NativeInv'
<1>1. [EngineNext]_allVars
    BY NativeStepIsEngineStep
<1>2. CASE ~Works
    BY <1>1, <1>2, StaysStopped DEF Known, NativeInv
<1>3. CASE ~Works'
    BY <1>3 DEF NativeInv
<1>4. CASE Works /\ Works'
    <2>1. CASE UNCHANGED nativeVars
        BY <1>4, <2>1, ThreadStep DEF nativeVars
    <2>2. CASE CallFails
        BY <1>4, <2>2, FailedCallStops DEF Known
    <2>3. CASE Ask \/ AskAgain \/ Return \/ Elsewhere
        BY <1>4, <2>3, AskStep, AskAgainStep, ReturnStep, ElsewhereStep
    <2>4. ASSUME NEW k \in Worker, Reply(k) PROVE NativeInv'
        BY <1>4, <2>4, ReplyStep
    <2>5. ASSUME NEW k \in Worker, NEW w \in submitted, Collect(k, w) PROVE NativeInv'
        BY <1>4, <2>5, CollectStep
    <2> QED BY <2>1, <2>2, <2>3, <2>4, <2>5 DEF NativeNext
<1> QED BY <1>2, <1>3, <1>4

\* The scheduler is closed by a loop that ends, or when it has ended.
LEMMA ClosedStep ==
    ASSUME LoopInv, phase = "closed" => pc = "exit" /\ kv_loading = {}, [EngineNext]_allVars
    PROVE  phase' = "closed" => pc' = "exit" /\ kv_loading' = {}
<1>1. CASE phase = "closed"
    <2>1. [EngineCall]_vars
        BY StepIsEngineCall
    <2>2. kv_loading' = {}
        BY <1>1, <2>1
           DEF EngineCall, vars, kvVars, waveVars, AddRequest, ScheduleBegin, InSchedule,
           NativePrefetch, Admission, Reserve, AdmitReserved, AdmitTooLarge, AdmitNew,
           AdmitUnregistered, Publish, UpdateKvConnectorOutput, FailIncompleteKvLoads, DropEnded,
           FinishRequestList, ReleaseKvDrains, UpdateFromOutput, PopRequestState, WriteArrives,
           Close, Unlocked
    <2>3. pc' = "exit"
        <3>1. CASE BusyLoop
            BY <1>1, <3>1
               DEF BusyLoop, LoopStops, ProcessAbortsQueue, AbortSite,
               CollectPending, Capture, Finalize, Put, Delivered, WaitEnds, CallSchedule,
               ScheduleGoesOn, ScheduleReturns, ScheduleRaises, EmptyWave, StartWave, PrepareKv,
               FailLate, FilterEnded, EndDrains, EndDrainsFails, Execute, ExecuteRaises, Update,
               Goto, GotoOrFail, FailBegin, FailStop, FailClose, FailHeld
        <3>2. CASE ~BusyLoop
            BY <1>1, <3>2 DEF EngineNext, Add, RequestAbort, ReaderEnds, Arrival, Stopped, Closing,
               CloseBegin, CloseWait, CloseStops, CloseFirst, CloseSecond, CloseDrainFails,
               allVars, engineVars, loopVars
        <3> QED BY <3>1, <3>2
    <2> QED BY <2>2, <2>3
<1>2. CASE phase # "closed" /\ phase' = "closed"
    <2>1. CASE BusyLoop
        <3>1. CASE FailClose \/ FailHeld
            BY <1>2, <3>1 DEF FailClose, FailHeld, Goto, CloseScheduler, IfAny, Close
        <3>2. CASE ~(FailClose \/ FailHeld)
            <4>1. phase' # "closed"
                <5>1. CASE UNCHANGED vars
                    BY <1>2, <5>1 DEF vars, waveVars
                <5>2. CASE ScheduleGoesOn
                    <6>1. \A r \in Request : Admission(r) => phase' = phase
                        BY DEF Admission, AdmitDefer, AdmitReserved, AdmitTooLarge, AdmitNew,
                           AdmitUnregistered
                    <6>2. ScheduleEnd \/ PrefetchSkip => phase' # "closed"
                        BY DEF ScheduleEnd, PrefetchSkip
                    <6>3. \A r \in Request : NativePrefetch(r) => phase' # "closed"
                        BY DEF NativePrefetch, PrefetchStart, PrefetchUnregistered
                    <6> QED BY <1>2, <5>2, <6>1, <6>2, <6>3 DEF ScheduleGoesOn, InSchedule
                <5>3. CASE \/ DrainAborts \/ Prepare \/ Poll \/ Finalize \/ FilterEnded \/ EndDrains
                    BY <1>2, <5>3 DEF DrainAborts, Prepare, Poll, Finalize, FilterEnded, EndDrains,
                       ReportReceives, UpdateKvConnectorOutput, PopRequestState, DropEnded,
                       ReleaseKvDrains, IfAny, vars, waveVars
                <5>4. CASE ProcessAborts \/ AbortDrained \/ FailLate
                    BY <1>2, <5>4 DEF ProcessAborts, AbortDrained, Abort, FailLate,
                       FinishRequestList, FailIncompleteKvLoads, IfAny, vars, waveVars
                <5>5. CASE CallSchedule \/ ScheduleReturns \/ EmptyWave \/ Update
                    BY <5>5 DEF CallSchedule, ScheduleBegin, ScheduleReturns, Publish, EmptyWave,
                       Update, UpdateFromOutput
                <5> QED
                    BY <2>1, <3>2, <5>1, <5>2, <5>3, <5>4, <5>5
                       DEF BusyLoop, LoopStops, ProcessAbortsQueue, NoAborts, TakeAborts,
                       DrainAbortsFails, CollectPending, Capture, Put, Delivered, WaitEnds,
                       ScheduleRaises, StartWave, PrepareKv, PrepareFails, EndDrainsFails, Execute,
                       ExecuteRaises, FailBegin, FailStop
            <4> QED BY <1>2, <4>1
        <3> QED BY <3>1, <3>2
    <2>2. CASE Closing
        <3>1. closer \in {"first", "second"} /\ pc' = pc
            BY <1>2, <2>2 DEF Closing, CloseBegin, CloseWait, CloseStops, CloseFirst, CloseSecond,
               CloseDrainFails, vars, waveVars, loopVars
        <3>2. Close
            BY <1>2, <2>2 DEF Closing, CloseBegin, CloseWait, CloseStops, CloseFirst, CloseSecond,
               CloseDrainFails, CloseScheduler, IfAny, vars, waveVars
        <3> QED BY <3>1, <3>2 DEF LoopInv, Close
    <2>3. CASE ~BusyLoop /\ ~Closing
        BY <1>2, <2>3 DEF EngineNext, Add, AddRequest, RequestAbort, ReaderEnds, Arrival,
           WriteArrives, Stopped, allVars, vars, waveVars
    <2> QED BY <2>1, <2>2, <2>3
<1> QED BY <1>1, <1>2

LEMMA StoppedStep ==
    ASSUME Known, NativeInv, StoppedInv, [NativeNext]_nativeVars
    PROVE  StoppedInv'
<1>1. [EngineNext]_allVars
    BY NativeStepIsEngineStep
<1>2. phase' = "closed" => pc' = "exit" /\ kv_loading' = {}
    BY <1>1, ClosedStep DEF Known, StoppedInv
<1>3. ~Works => ~Asking
    BY DEF Works, Stopping, StoppedInv, Asking, Draining, Leaving, AbortSite, Known, LoopInv
<1>4. Works' <=> pc' \notin Stopping /\ phase' # "closed"
    BY DEF Works
<1>5. ASSUME ~Works' PROVE call' = "none"
    <2>1. CASE Ask \/ \E k \in Worker : Reply(k) \/ \E w \in submitted : Collect(k, w)
        <3>1. pc' = pc /\ phase' = phase
            BY <2>1 DEF Ask, Reply, Collect, WriteArrives, allVars, vars, waveVars, engineVars,
               loopVars
        <3>2. ~Works
            BY <1>5, <3>1 DEF Works
        <3> QED BY <1>3, <2>1, <3>2 DEF StoppedInv, Ask, Reply, Collect
    <2>2. CASE AskAgain
        <3>1. pc' = pc /\ phase' = phase
            BY <2>2 DEF AskAgain, allVars, vars, waveVars, engineVars, loopVars
        <3>2. ~Works
            BY <1>5, <3>1 DEF Works
        <3> QED BY <2>2, <3>2 DEF StoppedInv, AskAgain, Retire, AllReplied
    <2>3. CASE Return \/ CallFails
        BY <2>3 DEF Return, CallFails
    <2>4. CASE Elsewhere
        <3>1. call' = call
            BY <2>4 DEF Elsewhere, receiveVars
        <3>2. CASE call # "none"
            <4>1. pc' = pc /\ phase' = phase
                BY <2>4, <3>2 DEF Elsewhere, Add, AddRequest, RequestAbort, ReaderEnds, CloseBegin,
                   CloseWait, Stopped, allVars, vars, waveVars, engineVars, loopVars
            <4>2. ~Works
                BY <1>5, <4>1 DEF Works
            <4> QED BY <3>1, <4>2 DEF StoppedInv
        <3> QED BY <3>1, <3>2
    <2>5. CASE UNCHANGED nativeVars
        <3>1. pc' = pc /\ phase' = phase /\ call' = call
            BY <2>5 DEF nativeVars, receiveVars, allVars, vars, waveVars, engineVars, loopVars
        <3> QED BY <1>5, <3>1 DEF StoppedInv, Works
    <2> QED BY <2>1, <2>2, <2>3, <2>4, <2>5 DEF NativeNext
<1> QED BY <1>2, <1>5 DEF StoppedInv

LEMMA NativeInvariant == NativeSpec => [](Known /\ NativeInv /\ StoppedInv)
<1>1. NativeSpec => [](WholeInv /\ ScheduledInv /\ LaunchInv /\ DrainInv)
    BY NativeImplementsEngine, DrainInvariant, PTL
<1>2. NativeSpec => []LoopInv
    <2>1. NativeInit => LoopInv
        BY LoopInit DEF NativeInit
    <2>2. LoopInv /\ [NativeNext]_nativeVars => LoopInv'
        BY NativeStepIsEngineStep, LoopStep
    <2> QED BY <2>1, <2>2, PTL DEF NativeSpec
<1>3. NativeSpec => []Known
    BY <1>1, <1>2, ReceivedIsSubmitted, PTL DEF Known
<1>4. NativeInit => NativeInv /\ StoppedInv
    BY NativeInit0 DEF NativeInit, EngineInit, Init, StoppedInv
<1>5. Known /\ NativeInv /\ StoppedInv /\ [NativeNext]_nativeVars => NativeInv' /\ StoppedInv'
    BY NativeStep, StoppedStep
<1> QED BY <1>3, <1>4, <1>5, PTL DEF NativeSpec

\* When the last answer is merged, the engine learns exactly the open rows that
\* every worker has received: the intersection holds no leftover of an earlier
\* request with the same id and misses no row whose completion came with another
\* call (prepare_kv_for_forward, KVReceiveProgress).
THEOREM ReportsStayCurrent == NativeSpec => []ReportsAreCurrent
<1>1. ASSUME Known, NativeInv, StoppedInv PROVE ReportsAreCurrent
    <2> SUFFICES ASSUME AllReplied, LastCall, ~Incomplete
                 PROVE  Reported \cap Open = arrived \cup kv_received
        BY DEF ReportsAreCurrent, Open
    <2>1. Works
        BY <1>1 DEF StoppedInv, AllReplied
    <2>2. \A w \in Open : w \in Written <=> \E k \in Worker : w \notin StillReceived(k)
        BY <1>1, <2>1, RecordsAtReturn
    <2>3. Open \subseteq Rows
        <3>1. kv_loading \subseteq Request /\ shape \in [Request -> Shape]
            BY <1>1 DEF Known, WholeInv, PageInv, TypeOK
        <3> QED BY <3>1, RowsType DEF Open
    <2>4. /\ Written \cup arrived \cup kv_received = Open
          /\ Written \cap (arrived \cup kv_received) = {}
        BY <1>1 DEF Known, WholeInv, PageInv, ReceivesAccounted, Written, Open
    <2> QED BY <2>2, <2>3, <2>4 DEF Reported
<1> QED BY <1>1, NativeInvariant, PTL

\* The only output that a worker or the merge refuses retires a row and submits
\* it again: its id was used anew before the next schedule().  "Duplicate native
\* KV receive submission", a required row that nobody submitted, a retired row
\* that is still being received and an incomplete merge cannot come from any
\* other overlap of receives, forwards and aborts.
THEOREM RefusalsAreReuse == NativeSpec => []RefusesOnlyReuse
<1>1. ASSUME Known, NativeInv, StoppedInv PROVE RefusesOnlyReuse
    <2> SUFFICES ASSUME pc = "prepare",
                        \/ call = "none" /\ Refused("current")
                        \/ \E k \in Worker \ replied :
                               /\ call # "none" /\ Required(call) \subseteq received[k]
                               /\ Missing(k)
                        \/ AllReplied /\ Incomplete
                        \/ AllReplied /\ ~LastCall /\ New("prefetch") \cap StillSubmitted(call) # {}
                 PROVE  New("current") \cap out.kv_finished # {}
        BY DEF RefusesOnlyReuse
    <2>1. Accounts /\ OutputInv /\ CallsInv
        BY <1>1 DEF NativeInv, StoppedInv, Works, Stopping
    <2>2. /\ New("current") = out.transfer \ out.prefetch
          /\ kv_finished = {} /\ kv_transfer = {}
          /\ out.required \subseteq Open /\ out.prefetch \subseteq out.transfer
          /\ out.required \cap out.prefetch = {}
        BY <2>1 DEF OutputInv, New
    <2>3. Unsent \subseteq Open /\ \A w \in Open : ~Settled(w)
        <3>1. Unsent \subseteq Open
            BY <1>1, <2>1, WrittenIsOpen DEF Accounts
        <3> QED BY <3>1, OpenRows DEF Settled
    <2>4. CASE call = "none" /\ Refused("current")
        <3>1. Unsent = out.transfer /\ Forgotten = out.kv_finished
            BY <2>2, <2>4, OnItsWay DEF Unasked
        <3>2. CASE New("current") \cap submitted # {}
            BY <2>1, <2>2, <2>3, <3>1, <3>2 DEF Accounts
        <3>3. CASE ~(Required("current") \subseteq submitted \cup New("current"))
            BY <2>1, <2>2, <3>1, <3>3 DEF Accounts, Required
        <3> QED BY <2>4, <3>2, <3>3 DEF Refused
    <2>5. CASE call = "current"
        <3>1. /\ Unsent = out.prefetch /\ Sending = out.transfer /\ Forgotten = out.kv_finished
              /\ Retired(call) = out.kv_finished /\ Required(call) = out.required
            BY <2>2, <2>5 DEF Unsent, Unasked, Sending, Forgotten, Unretired, Retired, Required
        <3>2. ASSUME NEW k \in Worker, Missing(k) PROVE New("current") \cap out.kv_finished # {}
            <4>1. PICK w \in out.kv_finished \cap submitted : w \notin received[k]
                BY <3>1, <3>2 DEF Missing
            <4>2. w \in Open \ out.prefetch
                BY <2>1, <3>1, <4>1 DEF Accounts
            <4>3. w \in out.transfer
                BY <2>1, <3>1, <4>1, <4>2 DEF Accounts
            <4> QED BY <2>2, <4>1, <4>2, <4>3
        <3>3. ASSUME AllReplied, Incomplete PROVE New("current") \cap out.kv_finished # {}
            <4>1. PICK w \in out.required : w \notin Reported
                BY <3>1, <3>3 DEF Incomplete
            <4>2. w \in Rows
                <5>1. \A k \in Worker : w \in received[k]
                    BY <2>1, <2>5, <3>3, <4>1 DEF CallsInv, AllReplied
                <5> QED BY <1>1, <5>1, WorkerAssumption DEF Known, RecordsOK
            <4>3. w \in out.kv_finished
                BY <2>1, <2>5, <3>1, <3>3, <4>1, <4>2
                   DEF CallsInv, AllReplied, Reported, StillReceived
            <4>4. w \in out.transfer
                BY <2>1, <2>2, <3>1, <4>1, <4>3 DEF Accounts
            <4> QED BY <2>2, <4>1, <4>3, <4>4
        <3>4. ASSUME New("prefetch") \cap StillSubmitted(call) # {} PROVE FALSE
            <4>1. PICK w \in out.prefetch : w \in submitted \ out.kv_finished
                BY <3>1, <3>4 DEF New, StillSubmitted
            <4> QED BY <2>1, <2>3, <3>1, <4>1 DEF Accounts
        <3> QED BY <2>5, <3>2, <3>3, <3>4
    <2>6. CASE call \notin {"none", "current"}
        <3>1. call # "poll" /\ Retired(call) = {} /\ Required(call) = {} /\ LastCall
            BY <2>1, <2>6 DEF CallsInv, Retired, Required, LastCall
        <3> QED BY <2>6, <3>1 DEF Missing, Incomplete
    <2>7. CASE call = "none" /\ ~Refused("current")
        BY <2>7 DEF AllReplied
    <2> QED BY <2>4, <2>5, <2>6, <2>7
<1> QED BY <1>1, NativeInvariant, PTL
=============================================================================
