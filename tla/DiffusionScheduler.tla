------------------------- MODULE DiffusionScheduler -------------------------
(***************************************************************************)
(* The diffusion scheduler of vllm_omni/diffusion/sched: BaseScheduler     *)
(* with its two subclasses (RequestScheduler when StepMode is FALSE,       *)
(* StepScheduler when it is TRUE) in paged_scheduler mode, together with   *)
(* the page reservations it makes through DiffusionKVCacheManager and the  *)
(* remote KV receives it registers with the KV connector.                  *)
(*                                                                         *)
(* schedule() runs its admission loop one request per action (phase        *)
(* "admit"), because each turn of the loop can end in several ways; the    *)
(* Engine calls it under its lock, so no other operation is enabled until  *)
(* it has returned.                                                        *)
(*                                                                         *)
(* A definition marked "variant" is not part of the model: it is what a    *)
(* plausible mistake would make of the definition below it, and is there   *)
(* to show that some property would catch the mistake.                     *)
(***************************************************************************)
EXTENDS Integers, Sequences, FiniteSets

CONSTANTS
    Request,      \* public request ids
    Key,          \* batch-compatibility keys (sampling_params_key)
    Row,          \* CFG sequences of a request
    Block,        \* the pages of the KV block pool
    Prefix,       \* block hashes of cacheable prefixes
    Shape,        \* the requests that clients submit
    MaxRunning,   \* max_num_running_reqs
    StepMode,     \* StepScheduler (TRUE) or RequestScheduler (FALSE)
    Prefetch,     \* native_prefetch_enabled
    MaxAdds,      \* bound: how many times add_request is called
    NoRequest,    \* Python's None for a request id
    NoKey,        \* Python's None for a sampling-params key
    NoPrefix      \* a row without a full prefix block, or without caching

\* What the scheduler reads of a submitted request.  "start" and "total" are
\* its initial step_index and its number of denoising steps; "prefix" is the
\* one cacheable block in front of the page every row has for itself.
ShapeType == [key : Key, rows : SUBSET Row, remote : BOOLEAN,
              prefix : [Row -> Prefix \cup {NoPrefix}],
              mixed : BOOLEAN, start : Nat, total : Nat]

ASSUME ConstantsAssumption ==
    /\ Shape # {} /\ Shape \subseteq ShapeType
    /\ NoPrefix \notin Prefix
    /\ \A s \in Shape : s.rows # {} /\ s.start < s.total
    /\ IsFiniteSet(Row) /\ IsFiniteSet(Block)
    /\ MaxRunning \in Nat \ {0}
    /\ StepMode \in BOOLEAN /\ Prefetch \in BOOLEAN
    /\ MaxAdds \in Nat
    /\ NoRequest \notin Request /\ NoKey \notin Key

\* native_prefetch_enabled refuses any other max_num_seqs.
ASSUME PrefetchAssumption == Prefetch => MaxRunning = 1

\* Prefix caching and a KV connector exclude each other (diffusion/data.py).
ASSUME CachingAssumption ==
    (\E s \in Shape : s.remote) =>
        \A s \in Shape, q \in Row : s.prefix[q] = NoPrefix

VARIABLES
    states,           \* ids with an entry in _request_states
    status,           \* SchedulerRequestState.status, by id
    shape,            \* the submitted request, by id
    step,             \* _StepProgress.current_step, by id
    boundary,         \* cached_prefix_len of the reservation, by id
    waiting,          \* _waiting, a deque
    running,          \* _running; only its members matter
    sampling_key,     \* _running_sampling_params_key
    finished_req_ids, \* _finished_req_ids
    owned,            \* <<request, row, page>>: the row's page for itself
    generation,       \* _kv_request_generations, 0 for no entry
    next_generation,  \* the manager's _next_allocation_generation
    prefixed,         \* <<request, row, page>>: the page of the row's prefix
    cached,           \* the pool's index of published pages, <<page, prefix>>
    filled,           \* <<page, prefix>>: pages that hold that prefix computed
    kv_loading,       \* _kv_loading_request_ids
    kv_draining,      \* keys of _kv_draining_requests
    kv_received,      \* _kv_received_request_ids, as <<request, row>>
    kv_transfer,      \* _kv_transfer_request_ids, as <<request, row>>
    kv_finished,      \* _kv_finished_request_ids, as <<request, row>>
    prefetch_id,      \* _native_prefetch_request_id
    phase,            \* where the current call of schedule() is
    budget,           \* waiting_budget, a local of schedule()
    deferred,         \* deferred, a local of schedule()
    out,              \* the DiffusionSchedulerOutput being built or executed
    surfaced,         \* finished ids returned to the engine, not yet popped
    writes,           \* <<request, row, page>>: receives the sender may still write
    arrived,          \* <<request, row>>: receives complete, not yet reported
    adds              \* how many requests were added

requestVars == <<states, status, shape, step, boundary>>
queueVars   == <<waiting, running, sampling_key, finished_req_ids>>
cacheVars   == <<cached, filled>>
pageVars    == <<owned, generation, next_generation, prefixed, cacheVars>>
kvVars      == <<kv_loading, kv_draining, kv_received, kv_transfer,
                 kv_finished, prefetch_id>>
waveVars    == <<phase, budget, deferred, out, surfaced>>
wireVars    == <<writes, arrived>>
vars == <<requestVars, queueVars, pageVars, kvVars, waveVars, wireVars, adds>>

-----------------------------------------------------------------------------
Terminal == {"COMPLETED", "ABORTED", "ERROR"}
Status   == {"WAITING", "RUNNING", "PREEMPTED"} \cup Terminal
Rows     == Request \X Row

EmptyOutput == [new |-> {}, cached |-> {}, finished |-> {}, transfer |-> {},
                required |-> {}, prefetch |-> {}, kv_finished |-> {},
                metadata |-> FALSE]

Output == [new : SUBSET Request, cached : SUBSET Request,
           finished : SUBSET Request, transfer : SUBSET Rows,
           required : SUBSET Rows, prefetch : SUBSET Rows,
           kv_finished : SUBSET Rows, metadata : BOOLEAN]

\* The contents of an entry that does not exist.
AnyShape == CHOOSE s \in Shape : TRUE

IsFinished(r)   == status[r] \in Terminal
RowsOf(r)       == {r} \X shape[r].rows
RowsOfAll(S)    == UNION {RowsOf(r) : r \in S}
\* variant: public ids where ids of sequences belong
RemoteIds(S)    == {r \in S : shape[r].remote}
RemoteRows(S)   == RowsOfAll({r \in S : shape[r].remote})
HasPages(r)     == \E o \in owned : o[1] = r

Scheduled       == out.new \cup out.cached
\* variant: quarantined pages and unreported receives are no work
Queued          == waiting # <<>> \/ running # {}
HasRequests     == \/ waiting # <<>> \/ running # {}
                   \/ kv_transfer # {} \/ kv_finished # {} \/ kv_draining # {}

-----------------------------------------------------------------------------
(***************************************************************************)
(* The page pool, as DiffusionKVCacheManager uses it.  A reservation gives *)
(* every row a page of its own and, when the row starts with a cacheable   *)
(* prefix block, a page for that prefix.  Prefix pages are found in the    *)
(* pool's index and shared, by rows and by requests, if every row of the   *)
(* request finds one; otherwise the rows compute their prefixes into pages *)
(* of their own.  A published page stays in the index until it is taken    *)
(* for something else, which the pool does only when nobody uses it.       *)
(***************************************************************************)
FreeBlocks == {b \in Block : \A o \in owned \cup prefixed : o[3] # b}
Evictable  == {b \in FreeBlocks : \E p \in Prefix : <<b, p>> \in cached}

PrefixOf(r, q)   == shape[r].prefix[q]
CacheableRows(r) == {q \in shape[r].rows : PrefixOf(r, q) # NoPrefix}

\* get_computed_blocks for all rows, clipped to the shortest hit: a page for
\* each row, or no hit at all.
Hits(r) ==
    {h \in [shape[r].rows -> Block] :
        /\ \A q \in shape[r].rows : <<h[q], PrefixOf(r, q)>> \in cached
        /\ \A p, q \in shape[r].rows :
               PrefixOf(r, p) = PrefixOf(r, q) => h[p] = h[q]}

\* The pages the lookups found are held while the rows are placed one by one.
\* variant: an earlier row may take the page a later row has found
Unpinned(h) == {}
Pinned(h)   == {h[q] : q \in DOMAIN h}

Injective(f)   == \A p, q \in DOMAIN f : f[p] = f[q] => p = q
Disjoint(f, g) == \A p \in DOMAIN f, q \in DOMAIN g : f[p] # g[q]

\* The page tables reserve_request may build for r: behind a cached prefix, or
\* from the start.
WarmReservations(r) ==
    {x \in [boundary : {1}, prefix : Hits(r),
            own : [shape[r].rows -> FreeBlocks]] :
        Injective(x.own) /\ \A q \in DOMAIN x.own : x.own[q] \notin Pinned(x.prefix)}

ColdReservations(r) ==
    {x \in [boundary : {0}, prefix : [CacheableRows(r) -> FreeBlocks],
            own : [shape[r].rows -> FreeBlocks]] :
        Injective(x.own) /\ Injective(x.prefix) /\ Disjoint(x.own, x.prefix)}

Reservations(r) ==
    IF Hits(r) # {} THEN WarmReservations(r) ELSE ColdReservations(r)

PagesOf(r, f) == {<<r, q, f[q]>> : q \in DOMAIN f}

\* The pages a reservation takes anew, and what becomes of their contents.
Allocated(x) ==
    {x.own[q] : q \in DOMAIN x.own} \cup
    {x.prefix[q] : q \in {p \in DOMAIN x.prefix : x.boundary = 0}}

Overwrite(B) ==
    /\ cached' = {e \in cached : e[1] \notin B}
    /\ filled' = {e \in filled : e[1] \notin B}

\* _get_empty_pool_required_blocks counts a shared page once.
Fits(r) == Reservations(r) # {}
CanEverFit(r) ==
    LET prefixes == IF Hits(r) # {} THEN {PrefixOf(r, q) : q \in shape[r].rows}
                                    ELSE CacheableRows(r)
    IN  Cardinality(shape[r].rows) + Cardinality(prefixes) <= Cardinality(Block)

-----------------------------------------------------------------------------
\* s without the members of F, the others in their order (the deque that
\* _finish_requests rebuilds).
\* variant: finished requests stay queued
KeptAll(s, F)    == 1 .. Len(s)
Kept(s, F)       == {i \in 1 .. Len(s) : s[i] \notin F}
Rank(K, i)       == Cardinality({j \in K : j <= i})
Without(s, F)    == LET K == Kept(s, F)
                    IN  [k \in 1 .. Cardinality(K) |->
                            s[CHOOSE i \in K : Rank(K, i) = k]]
InSeq(r, s)      == \E i \in 1 .. Len(s) : s[i] = r

-----------------------------------------------------------------------------
Init ==
    /\ states = {}
    /\ status = [r \in Request |-> "WAITING"]
    /\ shape = [r \in Request |-> AnyShape]
    /\ step = [r \in Request |-> 0]
    /\ boundary = [r \in Request |-> 0]
    /\ waiting = <<>> /\ running = {} /\ sampling_key = NoKey
    /\ finished_req_ids = {}
    /\ owned = {} /\ generation = [r \in Request |-> 0] /\ next_generation = 1
    /\ prefixed = {} /\ cached = {} /\ filled = {}
    /\ kv_loading = {} /\ kv_draining = {} /\ kv_received = {}
    /\ kv_transfer = {} /\ kv_finished = {} /\ prefetch_id = NoRequest
    /\ phase = "idle" /\ budget = 0 /\ deferred = <<>>
    /\ out = EmptyOutput /\ surfaced = {}
    /\ writes = {} /\ arrived = {}
    /\ adds = 0

-----------------------------------------------------------------------------
(***************************************************************************)
(* _finish_requests, and the _release_request_kv it makes of every         *)
(* request whose receive is not in flight.  "outcome" maps ids to terminal *)
(* statuses; unknown and already finished ids are ignored.                 *)
(***************************************************************************)
Finishing(outcome) ==
    {r \in DOMAIN outcome : r \in states /\ ~IsFinished(r)}

\* The pages of a request that is still loading are quarantined instead.
\* variant: pages still being written are freed
ReleasableAll(done) == done
Releasable(done)    == done \ kv_loading

\* A finished request is no longer the prefetched one.
\* variant: the prefetched id is never cleared
PrefetchKept(done)  == prefetch_id
PrefetchAfter(done) == IF prefetch_id \in done THEN NoRequest ELSE prefetch_id

FinishRequests(outcome) ==
    LET done  == Finishing(outcome)
        freed == Releasable(done)
    IN  /\ waiting' = Without(waiting, done)
        /\ running' = running \ done
        /\ sampling_key' = IF running \cap done # {} /\ running \subseteq done
                           THEN NoKey ELSE sampling_key
        /\ status' = [r \in Request |->
                         IF r \in done THEN outcome[r] ELSE status[r]]
        /\ prefetch_id' = PrefetchAfter(done)
        /\ kv_draining' = kv_draining \cup (done \cap kv_loading)
        /\ owned' = {o \in owned : o[1] \notin freed}
        /\ prefixed' = {o \in prefixed : o[1] \notin freed}
        /\ kv_finished' = kv_finished \cup RemoteRows(freed)

\* add_request: the id must be free, and its last receive drained.
\* variant: an id is reusable while its receive drains
AdmissibleDraining(r) == r \notin states
Admissible(r)         == r \notin states /\ r \notin kv_draining

AddRequest(r, s) ==
    /\ phase \in {"idle", "flight"} /\ adds < MaxAdds
    /\ Admissible(r)
    /\ states' = states \cup {r}
    /\ status' = [status EXCEPT ![r] = "WAITING"]
    /\ shape' = [shape EXCEPT ![r] = s]
    /\ step' = [step EXCEPT ![r] = s.start]
    /\ waiting' = Append(waiting, r)
    /\ adds' = adds + 1
    /\ UNCHANGED <<boundary, running, sampling_key, finished_req_ids,
                   pageVars, kvVars, waveVars, wireVars>>

-----------------------------------------------------------------------------
(***************************************************************************)
(* schedule().                                                             *)
(***************************************************************************)
\* _can_schedule_waiting of the subclass.  A reserved candidate must share
\* the prefix boundary of the running wave; in step mode first steps and
\* later steps are kept apart unless both requests allow mixing.
SameBoundary(c) == running = {} \/ \E s \in running : boundary[s] = c

\* variant: no second check after the reservation
AnyBoundaryFits(c) == TRUE
BoundaryFits(c)    == ~StepMode => SameBoundary(c)

\* variant: one of the two requests suffices
EitherMixes(r, s) == \/ shape[r].mixed \/ shape[s].mixed
                     \/ (step[s] = 0) <=> (step[r] = 0)
SamePhase(r, s)   == \/ shape[r].mixed /\ shape[s].mixed
                     \/ (step[s] = 0) <=> (step[r] = 0)

CanScheduleWaiting(r) ==
    running # {} =>
        /\ sampling_key = shape[r].key
        /\ IF StepMode THEN \A s \in running : SamePhase(r, s)
                       ELSE HasPages(r) => SameBoundary(boundary[r])

\* _current_sampling_params_key is only consulted after the wave's first
\* admission stored the key, so the model reads the stored value.

ScheduleBegin ==
    /\ phase = "idle" /\ surfaced = {} /\ HasRequests
    /\ phase' = "admit"
    /\ budget' = Len(waiting)
    /\ deferred' = <<>>
    /\ out' = [EmptyOutput EXCEPT !.cached = running]
    /\ UNCHANGED <<requestVars, queueVars, pageVars, kvVars, wireVars,
                   surfaced, adds>>

\* The loop looks at the head of the queue.
AtHead(r) ==
    /\ phase = "admit" /\ waiting # <<>> /\ budget > 0
    /\ Cardinality(running) < MaxRunning
    /\ r = Head(waiting) /\ r \in states
    /\ CanScheduleWaiting(r)

\* The connector has no answer yet for a remote request: set it aside.
AdmitDefer(r) ==
    /\ AtHead(r) /\ ~HasPages(r) /\ shape[r].remote
    /\ waiting' = Tail(waiting)
    /\ deferred' = Append(deferred, r)
    /\ budget' = budget - 1
    /\ UNCHANGED <<requestVars, running, sampling_key, finished_req_ids,
                   pageVars, kvVars, phase, out, surfaced, wireVars, adds>>

\* Bookkeeping shared by every turn of the loop that starts r.
StartRunning(r) ==
    /\ waiting' = Tail(waiting)
    /\ budget' = budget - 1
    /\ sampling_key' = IF running = {} THEN shape[r].key ELSE sampling_key
    /\ running' = running \cup {r}
    /\ status' = [status EXCEPT ![r] = "RUNNING"]
    /\ prefetch_id' = IF prefetch_id = r THEN NoRequest ELSE prefetch_id
    /\ out' = IF status[r] = "WAITING" THEN [out EXCEPT !.new = @ \cup {r}]
                                       ELSE [out EXCEPT !.cached = @ \cup {r}]

\* r kept its pages: it was preempted, or its receive was prefetched.
AdmitReserved(r) ==
    /\ AtHead(r) /\ HasPages(r)
    /\ StartRunning(r)
    /\ UNCHANGED <<states, shape, step, boundary, finished_req_ids, pageVars,
                   kv_loading, kv_draining, kv_received, kv_transfer,
                   kv_finished, phase, deferred, surfaced, wireVars, adds>>

\* The reservation x is kept; for a remote request commit_kv_load registers
\* one receive per row.
Reserve(r, x) ==
    /\ owned' = owned \cup PagesOf(r, x.own)
    /\ prefixed' = prefixed \cup PagesOf(r, x.prefix)
    /\ boundary' = [boundary EXCEPT ![r] = x.boundary]
    /\ generation' = [generation EXCEPT ![r] = next_generation]
    /\ next_generation' = next_generation + 1
    /\ Overwrite(Allocated(x))
    /\ IF shape[r].remote
       THEN /\ kv_loading' = kv_loading \cup {r}
            /\ kv_transfer' = kv_transfer \cup RowsOf(r)
            /\ writes' = writes \cup PagesOf(r, x.own)
       ELSE UNCHANGED <<kv_loading, kv_transfer, writes>>

AdmitNew(r, x) ==
    /\ AtHead(r) /\ ~HasPages(r)
    /\ BoundaryFits(x.boundary)
    /\ Reserve(r, x)
    /\ StartRunning(r)
    /\ UNCHANGED <<states, shape, step, finished_req_ids, kv_draining,
                   kv_received, kv_finished, phase, deferred, surfaced,
                   arrived, adds>>

\* DiffusionKVAdmissionError: more pages than the empty pool has.
AdmitTooLarge(r) ==
    /\ AtHead(r) /\ ~HasPages(r) /\ ~CanEverFit(r)
    /\ FinishRequests([x \in {r} |-> "ERROR"])
    /\ finished_req_ids' = finished_req_ids \cup {r}
    /\ budget' = budget - 1
    /\ UNCHANGED <<states, shape, step, boundary, generation, next_generation,
                   cacheVars, kv_loading, kv_received, kv_transfer, phase,
                   deferred, out, surfaced, wireVars, adds>>

\* KVTransferRegistrationError: the reservation is undone, nothing was sent.
AdmitUnregistered(r) ==
    /\ AtHead(r) /\ ~HasPages(r) /\ Fits(r) /\ shape[r].remote
    /\ BoundaryFits(0)
    /\ FinishRequests([x \in {r} |-> "ERROR"])
    /\ finished_req_ids' = finished_req_ids \cup {r}
    /\ generation' = [generation EXCEPT ![r] = next_generation]
    /\ next_generation' = next_generation + 1
    /\ budget' = budget - 1
    /\ UNCHANGED <<states, shape, step, boundary, cacheVars, kv_loading,
                   kv_received, kv_transfer, phase, deferred, out, surfaced,
                   wireVars, adds>>

\* r has to wait although it fits the wave: the pool is exhausted before its
\* last row is placed, or its reservation has a prefix boundary that does not
\* fit.  What was allocated is given back, but the published pages L among it
\* have lost their contents.
GivesBack(r, L) ==
    /\ AtHead(r) /\ ~HasPages(r)
    /\ \/ /\ CanEverFit(r) /\ ~Fits(r)
          /\ Hits(r) # {} => \E h \in Hits(r) : L \cap Pinned(h) = {}
       \/ \E x \in Reservations(r) :
              ~BoundaryFits(x.boundary) /\ L = Allocated(x) \cap Evictable

\* The loop ends: nothing left, no capacity, or the head must wait.
LoopEnds(L) ==
    \/ /\ L = {}
       /\ \/ waiting = <<>> \/ budget = 0 \/ Cardinality(running) >= MaxRunning
          \/ waiting # <<>> /\ ~CanScheduleWaiting(Head(waiting))
    \/ waiting # <<>> /\ GivesBack(Head(waiting), L)

\* After the loop: the deferred requests return to the front in their order,
\* and the receives registered so far join the output.
\* variant: extendleft(deferred) without reversed()
RequeuedReversed ==
    [i \in 1 .. Len(deferred) |-> deferred[Len(deferred) + 1 - i]] \o waiting
\* variant: the deferred requests are lost
DeferredLost == waiting
Requeued == deferred \o waiting

ScheduleEnd ==
    /\ phase = "admit"
    /\ \E L \in SUBSET Evictable : LoopEnds(L) /\ Overwrite(L)
    /\ waiting' = Requeued
    /\ out' = [out EXCEPT
           !.metadata = kv_transfer # {} \/ kv_finished # {} \/ kv_draining # {},
           !.transfer = kv_transfer, !.finished = finished_req_ids,
           !.kv_finished = kv_finished,
           !.required = IF Prefetch THEN RowsOfAll(running \cap kv_loading) ELSE {}]
    /\ kv_transfer' = {}
    /\ deferred' = <<>> /\ budget' = 0
    /\ phase' = IF Prefetch THEN "prefetch" ELSE "publish"
    /\ UNCHANGED <<requestVars, running, sampling_key, finished_req_ids, owned,
                   generation, next_generation, prefixed, kv_loading,
                   kv_draining, kv_received, kv_finished, prefetch_id,
                   surfaced, wireVars, adds>>

\* _try_native_prefetch considers the request behind the running one.
Prefetchable(r) ==
    /\ phase = "prefetch" /\ running # {} /\ prefetch_id = NoRequest
    /\ waiting # <<>> /\ r = Head(waiting) /\ r \in states /\ ~IsFinished(r)
    /\ shape[r].remote /\ ~HasPages(r)

PrefetchStart(r, x) ==
    /\ Prefetchable(r)
    /\ Reserve(r, x)
    /\ prefetch_id' = r
    /\ phase' = "publish"
    /\ UNCHANGED <<states, status, shape, step, queueVars, kv_draining,
                   kv_received, kv_finished, budget, deferred, out, surfaced,
                   arrived, adds>>

\* The receive could not be registered: only r fails.
PrefetchUnregistered(r) ==
    /\ Prefetchable(r) /\ Fits(r)
    /\ FinishRequests([x \in {r} |-> "ERROR"])
    /\ finished_req_ids' = finished_req_ids \cup {r}
    /\ generation' = [generation EXCEPT ![r] = next_generation]
    /\ next_generation' = next_generation + 1
    /\ phase' = "publish"
    /\ UNCHANGED <<states, shape, step, boundary, cacheVars, kv_loading,
                   kv_received, kv_transfer, budget, deferred, out, surfaced,
                   wireVars, adds>>

\* Nothing to prefetch, no answer from the connector, an invalid boundary, no
\* room, or a reservation error, which normal admission will report.
PrefetchSkip ==
    /\ phase = "prefetch"
    /\ phase' = "publish"
    /\ UNCHANGED <<requestVars, queueVars, pageVars, kvVars, budget, deferred,
                   out, surfaced, wireVars, adds>>

\* The output takes the prefetched receives and the ids finished since, and
\* schedule() returns it.
\* variant: ids finished by the prefetch are left out
PublishedEarly == out.finished
Published      == out.finished \cup finished_req_ids

Publish ==
    /\ phase = "publish"
    /\ out' = [out EXCEPT
           !.metadata = @ \/ kv_transfer # {} \/ kv_finished # {},
           !.prefetch = kv_transfer, !.transfer = @ \cup kv_transfer,
           !.finished = Published, !.kv_finished = @ \cup kv_finished]
    /\ kv_transfer' = {} /\ finished_req_ids' = {} /\ kv_finished' = {}
    /\ phase' = "flight"
    /\ UNCHANGED <<requestVars, waiting, running, sampling_key, pageVars,
                   kv_loading, kv_draining, kv_received, prefetch_id, budget,
                   deferred, surfaced, wireVars, adds>>

-----------------------------------------------------------------------------
(***************************************************************************)
(* The other operations.                                                   *)
(***************************************************************************)
Unlocked == phase \in {"idle", "flight"}

\* update_kv_connector_output: the rows of D are complete on every rank.  A
\* request stops loading once all its rows were reported.
\* variant: one received row completes the request
StartedLoads(got)   == {r \in kv_loading : RowsOf(r) \cap got # {}}
CompletedLoads(got) == {r \in kv_loading : RowsOf(r) \subseteq got}

UpdateKvConnectorOutput(D) ==
    /\ Unlocked /\ D # {} /\ D \subseteq arrived
    /\ LET got  == kv_received \cup {d \in D : d[1] \in kv_loading}
           full == CompletedLoads(got)
       IN  /\ kv_loading' = kv_loading \ full
           /\ kv_received' = got \ RowsOfAll(full)
    /\ arrived' = arrived \ D
    /\ UNCHANGED <<requestVars, queueVars, pageVars, kv_draining, kv_transfer,
                   kv_finished, prefetch_id, waveVars, writes, adds>>

\* fail_incomplete_kv_loads: the receives T timed out.
FailIncompleteKvLoads(T) ==
    /\ phase = "flight"
    /\ LET late    == {r \in kv_loading \cap states : RowsOf(r) \cap T # {}}
           outcome == [r \in late |-> "ERROR"]
       IN  /\ Finishing(outcome) # {}
           /\ FinishRequests(outcome)
           /\ finished_req_ids' = finished_req_ids \cup Finishing(outcome)
    /\ UNCHANGED <<states, shape, step, boundary, generation, next_generation,
                   cacheVars, kv_loading, kv_received, kv_transfer, waveVars,
                   wireVars, adds>>

\* The engine drops the requests that were finished meanwhile from the output
\* it is about to execute.
\* variant: the output is executed as it was scheduled
NeverEnded == {}
Ended == {r \in Scheduled : r \in states /\ IsFinished(r)}

DropEnded ==
    /\ phase = "flight" /\ Ended # {}
    /\ out' = [out EXCEPT !.new = @ \ Ended, !.cached = @ \ Ended,
                          !.finished = @ \cup Ended]
    /\ UNCHANGED <<requestVars, queueVars, pageVars, kvVars, phase, budget,
                   deferred, surfaced, wireVars, adds>>

\* finish_requests, which the engine calls for the aborted ids S.
FinishRequestList(S, st) ==
    LET outcome == [x \in S |-> st] IN
    /\ Unlocked /\ Finishing(outcome) # {}
    /\ FinishRequests(outcome)
    /\ finished_req_ids' = finished_req_ids \cup Finishing(outcome)
    /\ UNCHANGED <<states, shape, step, boundary, generation, next_generation,
                   cacheVars, kv_loading, kv_received, kv_transfer, waveVars,
                   wireVars, adds>>

\* release_kv_drains, for all of completed_kv_drains.
\* variant: drains are released before they complete
AllKvDrains       == kv_draining
CompletedKvDrains == kv_draining \ kv_loading

ReleaseKvDrains ==
    /\ Unlocked /\ CompletedKvDrains # {}
    /\ LET D == CompletedKvDrains IN
       /\ owned' = {o \in owned : o[1] \notin D}
       /\ prefixed' = {o \in prefixed : o[1] \notin D}
       /\ kv_finished' = kv_finished \cup RemoteRows(D)
       /\ kv_draining' = kv_draining \ D
       /\ generation' = [r \in Request |->
                            IF r \in D \ states THEN 0 ELSE generation[r]]
    /\ UNCHANGED <<requestVars, queueVars, next_generation, cacheVars,
                   kv_loading, kv_received, kv_transfer, prefetch_id, waveVars,
                   wireVars, adds>>

\* preempt_request: not while the request's pages are being written.
Preempt(r) ==
    /\ Unlocked /\ r \in running /\ r \in states /\ r \notin kv_loading
    /\ running' = running \ {r}
    /\ sampling_key' = IF running = {r} THEN NoKey ELSE sampling_key
    /\ waiting' = <<r>> \o waiting
    /\ status' = [status EXCEPT ![r] = "PREEMPTED"]
    /\ UNCHANGED <<states, shape, step, boundary, finished_req_ids, pageVars,
                   kvVars, waveVars, wireVars, adds>>

\* update_from_output: the runner's results for the scheduled requests.  A
\* result is a terminal status or, in step mode, "RUNNING" (one more step).
\* The ids returned are those finished by now: in the output, scheduled and
\* finished meanwhile, or finished by these results.
Results(r) ==
    {"ERROR", "ABORTED"} \cup
    IF StepMode /\ step[r] + 1 < shape[r].total THEN {"RUNNING"} ELSE {"COMPLETED"}

\* variant: a request that reused the id is surfaced
SurfacedIds ==
    {r \in out.finished \cup (Scheduled \cap finished_req_ids) : r \in states}
Surfaced ==
    {r \in out.finished \cup (Scheduled \cap finished_req_ids) :
        r \in states /\ IsFinished(r)}

\* variant: earlier finished ids are forgotten
LastFinished(ids) == ids
AllFinished(ids)  == finished_req_ids \cup ids

\* publish_request enters the prefix pages of a request into the pool's index.
\* variant: whatever the result is
PublishedAny(terminal) == DOMAIN terminal
PublishedNow(terminal) == {r \in DOMAIN terminal : terminal[r] = "COMPLETED"}
PrefixesOf(S) ==
    {<<o[3], PrefixOf(o[1], o[2])>> :
        o \in {p \in prefixed : p[1] \in S /\ PrefixOf(p[1], p[2]) # NoPrefix}}

UpdateFromOutput(result) ==
    /\ phase = "flight"
    /\ LET open     == {r \in Scheduled : r \in states /\ ~IsFinished(r)}
           terminal == [r \in {x \in open : result[x] \in Terminal} |-> result[r]]
       IN  /\ step' = [r \in Request |->
                          IF StepMode /\ r \in open
                             /\ result[r] \in {"RUNNING", "COMPLETED"}
                          THEN step[r] + 1 ELSE step[r]]
           /\ cached' = cached \cup PrefixesOf(PublishedNow(terminal))
           /\ filled' = filled \cup
                  PrefixesOf({r \in DOMAIN terminal : terminal[r] = "COMPLETED"})
           /\ FinishRequests(terminal)
           /\ finished_req_ids' = AllFinished(DOMAIN terminal)
           /\ surfaced' = Surfaced \cup DOMAIN terminal
    /\ phase' = "idle"
    /\ out' = EmptyOutput
    /\ UNCHANGED <<states, shape, boundary, generation, next_generation,
                   kv_loading, kv_received, kv_transfer, budget, deferred,
                   wireVars, adds>>

\* pop_request_state, for a request the engine was told is finished: by
\* update_from_output or by pending_finished_request_ids.
PendingFinished == {r \in finished_req_ids : r \in states /\ IsFinished(r)}

PopRequestState(r) ==
    /\ phase = "idle" /\ r \in surfaced \cup PendingFinished
    /\ states' = states \ {r}
    /\ surfaced' = surfaced \ {r}
    /\ generation' = IF r \in kv_draining THEN generation
                                          ELSE [generation EXCEPT ![r] = 0]
    /\ UNCHANGED <<status, shape, step, boundary, queueVars, owned,
                   next_generation, prefixed, cacheVars, kvVars, phase, budget,
                   deferred, out, wireVars, adds>>

\* close: the connector is shut down first, which stops its receives.  The
\* engine also calls it when schedule() raised half-way.
Close ==
    /\ phase # "closed"
    /\ states' = {} /\ waiting' = <<>> /\ running' = {} /\ sampling_key' = NoKey
    /\ finished_req_ids' = {} /\ owned' = {} /\ prefixed' = {}
    /\ generation' = [r \in Request |-> 0]
    /\ kv_loading' = {} /\ kv_draining' = {} /\ kv_received' = {}
    /\ kv_transfer' = {} /\ kv_finished' = {} /\ prefetch_id' = NoRequest
    /\ writes' = {} /\ arrived' = {}
    /\ phase' = "closed" /\ out' = EmptyOutput /\ surfaced' = {}
    /\ budget' = 0 /\ deferred' = <<>>
    /\ UNCHANGED <<status, shape, step, boundary, next_generation, cacheVars, adds>>

-----------------------------------------------------------------------------
\* External: the sender finishes writing one page, on every rank.  It only
\* learns the page addresses from an output that schedule() has returned.
WriteArrives(w) ==
    /\ Unlocked /\ w \in writes
    /\ writes' = writes \ {w}
    /\ arrived' = arrived \cup {<<w[1], w[2]>>}
    /\ UNCHANGED <<requestVars, queueVars, pageVars, kvVars, waveVars, adds>>

Admission(r) ==
    \/ AdmitDefer(r) \/ AdmitReserved(r) \/ AdmitTooLarge(r)
    \/ \E x \in Reservations(r) : AdmitNew(r, x)
    \/ AdmitUnregistered(r)

NativePrefetch(r) ==
    \/ \E x \in Reservations(r) : PrefetchStart(r, x)
    \/ PrefetchUnregistered(r)

\* One step of schedule() between its first and its last.
InSchedule ==
    /\ phase \in {"admit", "prefetch"}
    /\ \/ \E r \in Request : Admission(r) \/ NativePrefetch(r)
       \/ ScheduleEnd \/ PrefetchSkip

Next ==
    \/ \E r \in Request, s \in Shape : AddRequest(r, s)
    \/ ScheduleBegin \/ InSchedule \/ Publish
    \/ \E D \in SUBSET arrived : UpdateKvConnectorOutput(D)
    \/ \E T \in SUBSET out.transfer : FailIncompleteKvLoads(T)
    \/ DropEnded
    \/ \E S \in SUBSET Request : FinishRequestList(S, "ABORTED")
    \/ \E r \in Request : Preempt(r)
    \/ ReleaseKvDrains
    \/ \E result \in [Scheduled -> Status] :
           /\ \A r \in Scheduled : result[r] \in Results(r)
           /\ UpdateFromOutput(result)
    \/ \E r \in Request : PopRequestState(r)
    \/ \E w \in writes : WriteArrives(w)
    \/ Close
    \/ phase = "closed" /\ UNCHANGED vars

Spec == Init /\ [][Next]_vars

-----------------------------------------------------------------------------
(***************************************************************************)
(* Properties.                                                             *)
(***************************************************************************)
Queue == deferred \o waiting

\* Every variable has the type its Python counterpart is declared with.
TypeOK ==
    /\ states \subseteq Request /\ status \in [Request -> Status]
    /\ shape \in [Request -> Shape] /\ step \in [Request -> Nat]
    /\ boundary \in [Request -> {0, 1}]
    /\ waiting \in Seq(Request) /\ running \subseteq Request
    /\ sampling_key \in Key \cup {NoKey} /\ finished_req_ids \subseteq Request
    /\ owned \subseteq Request \X Row \X Block
    /\ generation \in [Request -> Nat] /\ next_generation \in Nat \ {0}
    /\ prefixed \subseteq Request \X Row \X Block
    /\ cached \subseteq Block \X Prefix /\ filled \subseteq Block \X Prefix
    /\ kv_loading \subseteq Request /\ kv_draining \subseteq Request
    /\ kv_received \subseteq Rows /\ kv_transfer \subseteq Rows
    /\ kv_finished \subseteq Rows /\ prefetch_id \in Request \cup {NoRequest}
    /\ phase \in {"idle", "admit", "prefetch", "publish", "flight", "closed"}
    /\ budget \in Nat /\ deferred \in Seq(Request) /\ out \in Output
    /\ surfaced \subseteq Request
    /\ writes \subseteq Request \X Row \X Block /\ arrived \subseteq Rows
    /\ adds \in Nat

\* A page that a remote sender may still write belongs to the row it is
\* written for: aborts, timeouts and failed admissions that overtake a receive
\* quarantine its pages (kv_draining) instead of returning them to the pool.
WritesOwned == writes \subseteq owned

\* A request that starts behind a cached prefix reads, in every row, a page in
\* which a completed request computed just that prefix and which nobody has
\* taken since: the pages of failed and aborted requests are not published, and
\* no allocation hands out a page that was found or is in use.
PrefixesComputed ==
    \A o \in prefixed :
        boundary[o[1]] = 1 => <<o[3], PrefixOf(o[1], o[2])>> \in filled

\* Every request that is not finished is in exactly one place, once: in the
\* queue (or set aside by the schedule() in progress), or in the running wave
\* with status RUNNING.  A finished one is in neither.
QueuePartition ==
    /\ \A r \in Request :
           (r \in states /\ ~IsFinished(r)) <=> (InSeq(r, Queue) \/ r \in running)
    /\ \A i, j \in 1 .. Len(Queue) : Queue[i] = Queue[j] => i = j
    /\ \A r \in states : status[r] = "RUNNING" <=> r \in running
    /\ \A r \in running : ~InSeq(r, Queue)

\* The running wave is homogeneous although it is assembled over several calls
\* of schedule(), with aborts, preemptions and completions in between: one
\* sampling-params key, which is the cached one; one prefix boundary in request
\* mode; no first step beside a later one in step mode unless both allow it.
BatchHomogeneous ==
    \A r, s \in running :
        /\ shape[r].key = sampling_key
        /\ IF StepMode
           THEN \/ shape[r].mixed /\ shape[s].mixed
                \/ (step[r] = 0) <=> (step[s] = 0)
           ELSE boundary[r] = boundary[s]

\* The terminal state of a request reaches the engine: as long as it has not
\* been popped, some set that will be reported holds its id, although each
\* schedule() empties _finished_req_ids.
NoStrandedResult ==
    \A r \in states : IsFinished(r) =>
        r \in finished_req_ids \cup surfaced \cup out.finished

\* What the engine is told to finalize is finished, even when a new request
\* has reused an id that is still listed for Worker cleanup.
SurfacedIsFinished == \A r \in surfaced : r \in states /\ IsFinished(r)

\* Every row of a receiving request is accounted for exactly once: still being
\* written, complete but unreported, or recorded as received.  So a request
\* neither stops loading early nor waits for a report that was consumed.
ReceivesAccounted ==
    LET written == {<<w[1], w[2]>> : w \in writes} IN
    /\ written \cup arrived \cup kv_received = RowsOfAll(kv_loading)
    /\ written \cap arrived = {} /\ written \cap kv_received = {}
    /\ arrived \cap kv_received = {}

\* Whoever uses pages holds one for each of its rows: a running request, also
\* after a preemption or a prefetch, and a quarantined one, which is finished.
RowsHeld ==
    /\ \A r \in running \cup kv_draining :
           \A q \in shape[r].rows : \E b \in Block : <<r, q, b>> \in owned
    /\ \A r \in kv_draining : IsFinished(r)

\* The prefetched request is the one that will start next: it waits, is open,
\* and holds its pages.  A stale id here would disable prefetching for good.
PrefetchIdLive ==
    prefetch_id # NoRequest =>
        /\ InSeq(prefetch_id, Queue) /\ HasPages(prefetch_id)
        /\ prefetch_id \in states /\ ~IsFinished(prefetch_id)

\* schedule() does not reorder requests that stay in the queue, whichever of
\* them it sets aside; only a preempted request moves, to the front.
Ahead(r, s, queue) ==
    \E i, j \in 1 .. Len(queue) : i < j /\ queue[i] = r /\ queue[j] = s

KeepsOrder ==
    \A r, s \in Request :
        Ahead(r, s, Queue) /\ InSeq(r, Queue') /\ InSeq(s, Queue')
            => Ahead(r, s, Queue')

FifoOrder == [][KeepsOrder]_vars

\* The pages of a request come back to the pool only when it is finished, and
\* no earlier than the report that its last row has been received.
FreesSafely ==
    \A o \in owned \ owned' :
        \/ o[1] \notin kv_loading /\ status'[o[1]] \in Terminal
        \/ phase' = "closed"

ReleaseIsSafe == [][FreesSafely]_vars
=============================================================================
