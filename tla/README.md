# TLA+ verification of vllm-omni

vllm-omni serves multi-stage "omni" pipelines. A request passes through stages; each stage
runs an engine (autoregressive, on top of vLLM, or diffusion, written in this repository) in
one or more replicas, and KV caches, audio chunks and results move between them. Most of the
709 000 lines of the repository are numerical or I/O code (models, layers, attention,
quantization, servers). The rest is protocol code: schedulers, engines, executors, connectors,
coordinators, an orchestrator, a store on disk. This project models the protocols that every request,
or every replica, passes through.

Contents: [inventory](#1-inventory), [plan](#2-plan), [modules](#3-modules-and-the-code),
[runs](#4-runs), [findings](#5-findings), [fairness](#6-fairness), [proofs](#7-proofs),
[limits](#8-what-is-left-out-and-why). `PROJECT.json` maps each definition to its source lines,
and lists the runs, the mutants (a plausible bug for every property, which the property
catches), the hazards and the findings.

## 1. Inventory

Paths are relative to `src/vllm_omni/`.

| Component | State it keeps | Operations | Hard behaviour | What makes it correct |
|---|---|---|---|---|
| Diffusion scheduler `diffusion/sched/` | request states, waiting deque, running set, cached sampling key, sets of finished, loading, draining, received, transferred ids, id of the prefetched request | `add_request`, `schedule`, `update_from_output`, `update_kv_connector_output`, `fail_incomplete_kv_loads`, `finish_requests`, `preempt_request`, `release_kv_drains`, `pop_request_state`, `close` | aborts and timeouts overtake receives; outputs in flight name ids that ended or were reused; loop of `schedule()` ends or fails half-way | pages being written are never given away; every request is in one place; waves are homogeneous; every end is reported; FIFO |
| Diffusion KV manager `diffusion/diffusion_kv/manager.py` | page tables, free pages, generation counter, prefix cache | `reserve_request`, `free_request`, `publish_request`, `get_metadata` | pool exhausted or too small; rows of one request reserved atomically; prefix pages shared, published and evicted | a row has all its pages or none; what a request reads behind a cached prefix was computed by a request that completed and was not taken since |
| Diffusion engine `diffusion/diffusion_engine.py` | output streams, abort and RPC queues, flags of pausing and stopping | busy loop; `add_request`, `abort`, `close`, `get_output_stream`, pause, RPC | five kinds of threads around one condition variable; steps outside it; two ways of stopping | answers reach their own caller, everybody is answered, idle means empty |
| Executors `diffusion/executor/` | pending RPC ids, result pump, worker processes | `add_req`, `collective_rpc`, `prepare_kv_for_forward`, `shutdown` | ranks answer separately; a reply arrives after its caller gave up | a result goes to the call that made it; a row counts when every rank has it |
| Diffusion worker and runner `diffusion/worker/`, `diffusion_kv/model_runner_backend.py` | step-mode state cache, installed KV rows with generations | `execute_model`, `execute_stepwise`, row installation and removal | state of a request that ended without a result; partial failure of a wave | a request runs on its own state only |
| Native KV receives `diffusion/diffusion_kv/kv_connector.py`, `executor/abstract.py` | submitted and received rows per worker; the merged answer | `prepare`, `poll`, `post_forward`; `prepare_kv_for_forward` | ranks receive at their own pace; the end of one receive and the start of the next in one message; ids used again | the engine is told what every rank has, no more and no less; no output is refused |
| Omni coordinator `distributed/omni_coordinator/` | registry of replicas with heartbeat times, pending broadcast; last status told (stage client); last list (hub client) | register, update, heartbeat, close; receive thread; periodic thread (timeouts, garbage collection, broadcast) | lossy publish/subscribe, late joiners, time-outs against late heartbeats, restarts behind one address | hubs end up with the registry; what a replica said last decides whether it is down; a silent one is dropped, and forgiven |
| Stage pools, membership, admission `engine/stage_pool.py`, `membership_controller.py`, `stage_admission.py` | clients of the replicas, route of each request and of its parent | pick, submit, abort, attach, detach, unregister, admit | a replica dies or leaves while requests are routed to it or wait for it | a request on a replica that left fails, exactly once |
| Orchestrator `engine/orchestrator.py`, `cfg_companion_tracker.py` | request → stage progress, CFG companions and deferred parents | client messages, stage outputs (`finished`, `error`, `kv_ready`), clean-up, eviction | three coroutines that await in the middle; companions end in any order; aborts, failures and deaths in between | every request gets one answer; no stage gets it twice; no parent waits in vain |
| Chunk transfer `distributed/omni_connectors/transfer_adapter/`, `core/sched/omni_scheduling_coordinator.py` | queues of pending saves and loads, chunk counters | save and load loops, scheduler hooks | background threads against the scheduler step | chunks in order, none lost, no request left waiting |
| AR schedulers, prefix cache `core/` | vLLM scheduler state and extensions | `schedule`, `update_from_output` | the base class is not in the repository | – |
| Stage processes and clients `diffusion/stage_diffusion_*.py`, `engine/rpc_result_router.py`, `engine/stage_phase_lock.py` | pending calls, file locks | RPC, start-up phases | replies after time-outs, crash while holding a lock | a reply reaches its own call |
| Duplex sessions `engine/duplex/` | leases, playback ledger, credits | open, append, ack, close | barge-in while audio is in flight | nothing is played twice, credits do not go negative |
| Host weight runtime `host_weight_runtime/` | directories `tmp/`, `artifacts/`, `quarantine/`, `deny/`; two flocks per key; leases | lookup, get_or_build, cleanup, deny, contain, repair | no server: processes die between two system calls, calls fail, power is lost and renames roll back | a lease stays backed; one builder; what was condemned is never served; a committed artifact survives |
| Request cancellation `diffusion/cancellation.py` | shared-memory flags | create, cancel, release | reuse of a slot | – |
| Entry points, servers, configuration, metrics, models, platforms, workers of AR stages | – | I/O and numerical code | – | not modelled |

How the components interact. A client's `add_request` puts a request and its CFG companions into
the orchestrator's queue. The orchestrator picks a replica from a stage's pool, sends the request,
polls all replicas and hands finished requests to the next stage. Which replicas exist it learns
from the hub client, whose lists the coordinator broadcasts; the replicas report to the
coordinator. A replica of a diffusion stage is a diffusion engine. When it starts it maps its
weights from the node's store.

Inside a diffusion engine callers' threads call `add_request` and `abort`; the first
changes the scheduler under `_cv`, the second only fills `abort_queue`. One busy-loop thread
applies aborts, calls `schedule()` under `_cv`, and then, without it, sends the output to the
workers (`prepare_kv_for_forward`, `execute_fn`) and passes what they report to
`update_kv_connector_output`, `fail_incomplete_kv_loads` and `update_from_output`. Finished
requests are removed and their result is put into the caller's stream. Pages are reserved by
`schedule()`; for a remote request the KV sender then writes into them, at its own pace, until
every row is complete. A request that ends meanwhile keeps its pages (`_kv_draining_requests`)
until the last row was reported and the workers have cleared their tables. With native prefetch
one waiting request receives while another runs; the workers keep a record of receives, which the
executor asks for before and after a forward and merges over the ranks.

## 2. Plan

Order of work, by how much of the system's behaviour depends on a component.

| | Module | State |
|---|---|---|
| 1 | `DiffusionScheduler`: the scheduler with the pages it reserves | done, proved |
| 2 | `DiffusionEngine`: busy loop and threads around the scheduler, implements 1 | done, proved |
| 3 | `NativeReceives`: ranks, worker records and merge, composed with and implementing 2 | done, proved |
| 4 | `RequestService` and `Orchestrator`, which implements it | done, safety proved, refinement included |
| 5 | `OmniCoordinator`: registry, heartbeats, lossy broadcast | done, safety proved |
| 6 | `HostWeightStore`: the store shared by processes that may crash | done, safety proved; what a power loss may undo is a hypothesis |
| 7 | Step-mode cache of a worker, against ids that are used again | left |
| 8 | Pause gate and RPC queue of the engine, result pump of the multiproc executor | left |
| 9 | Chunk transfer between stages (background loops against the scheduler step) | left |
| 10 | Duplex sessions (leases, playback ledger, delivery credits) | left |
| 11 | Proofs of all safety properties of scheduler and engine | done |
| 12 | Proofs of all safety properties of receives and orchestrator | done |

## 3. Modules and the code

A definition marked *variant* is never used by a specification: it is a plausible mistake, which
takes the place of the definition after it in a mutant.

### DiffusionScheduler

`BaseScheduler` with `RequestScheduler` (`StepMode = FALSE`) or `StepScheduler` (`TRUE`), in
`paged_scheduler` mode, plus what it uses of `DiffusionKVCacheManager` and of the connector glue.

* Variables bear the names of the Python attributes. `states/status/shape/step/boundary` are
  `_request_states`; `owned` and `prefixed` are the manager's page tables as triples
  `<<request, row, page>>`, the page a row has for itself and the page of its prefix;
  `cached` is the pool's index of published pages; `filled`, which no code reads, says which
  pages hold which prefix computed;
  `out` is the `DiffusionSchedulerOutput` between `schedule()` and `update_from_output`; `surfaced`
  are the ids returned to the engine and not yet popped; `writes/arrived` are the wire: rows the
  sender still writes, rows complete on all ranks and not reported.
* `schedule()` is the phases `admit` (one action per turn of the `while` loop and per way it can
  end: `AdmitDefer`, `AdmitReserved`, `AdmitNew`, `AdmitTooLarge`, `AdmitUnregistered`),
  `ScheduleEnd`, in prefetch mode `NativePrefetch` or `PrefetchSkip`, and `Publish`. `InSchedule`
  groups the turns. No other operation is enabled in these phases, because the engine holds `_cv`.
  An exception other than the two the loop handles leaves the scheduler in the middle; the only
  thing that follows is `Close`.
* All other operations are one action each, named as in the code. `FinishRequests` is the common
  part of five of them (`_finish_requests` and `_release_request_kv`).
* Data is abstract: a request is its compatibility key, its set of CFG rows, whether its KV comes
  from a remote stage, whether it allows mixed phases, the cacheable prefix of each row, and its first
  and total steps. Runner results are any legal outcome.
* The page pool is vLLM's and is modelled from how `DiffusionKVCacheManager` uses it. Each row has one
  page for itself and, if it starts with a cacheable block, one for that prefix, so
  `cached_prefix_len` (`boundary`) is zero or one block. `Hits` is the lookup, clipped to what all rows
  of a request find: rows and requests with the same prefix then share its page
  (`WarmReservations`). Otherwise each row computes its prefix into a page of its own
  (`ColdReservations`), which is published when the request completes. A published page keeps its
  contents after it was freed, until the pool takes it for something else. Pages that the lookup found
  are held while the rows are placed, so they are not taken for one of them. When a reservation is undone
  half-way the published pages it had taken have lost their contents; the set `L` of those is any
  subset of what it could have taken (`GivesBack`).
* `CachingAssumption`: prefix caching and a KV connector exclude each other, the configuration
  refuses to enable both (`diffusion/data.py`). Only remote requests have pages that are being written, so a
  page that is being written is never a shared one.
* `preempt_request` has no caller outside the tests; as it is public it is an action of the scheduler,
  which the engine never takes.

Simplifications. `_current_sampling_params_key` recomputes the key of a running request only when
none is stored; the model reads the stored one. The loop's `state is None` branch is not modelled:
`QueuePartition` shows that queued ids are known. Left out: hashing of prefixes, prefixes of several
blocks and a hit on only some of them, several cache groups. The generation counter counts
reservations that became visible.

### DiffusionEngine

Extends the scheduler. `pc` is the busy loop's position; the other threads are the actions `Add`,
`RequestAbort`, `ReaderEnds` (a reader of `get_output_stream` leaves or is done) and `Closing`.
`Locked` holds where the busy loop keeps `_cv` over several steps; the other threads' actions
require `~Locked`.

* `ProcessAbortsQueue` (`NoAborts`, `ProcessAborts`, and with native prefetch `TakeAborts`,
  `DrainAborts`, `AbortDrained`, `DrainAbortsFails`) is `_process_aborts_queue`, called from four
  places; `Next4` is where each continues.
* `CollectPending`, `Capture`, `Finalize`, `Put`, `Delivered` are `_emit_finished_outputs`. The
  three steps of `_emit_finished_request` are separate because other threads run between them.
* `CallSchedule`, `ScheduleGoesOn`, `ScheduleReturns/Raises`, then `EmptyWave` or `StartWave`,
  `PrepareKv`, `FailLate`, `FilterEnded`, `EndDrains`, `Execute/ExecuteRaises`, a second `PrepareKv`
  (`Poll`), `Update` follow `_busy_loop` and `_prepare_kv_for_forward` line by line. An empty wave is
  `UpdateFromOutput` of nothing: the engine emits its finished ids itself, with the same filter.
* Every call to the executor may raise. `FailBegin/FailStop/FailClose` are `_fail_engine` without the
  lock; `FailHeld` is the same inside `_cv`, in one step, as no other thread sees a part of it.
* `CloseBegin/CloseWait/CloseStops/CloseSecond` are `close()`; its wait may time out, after which it
  can be called again.
* `reader[i]` is what the i-th `add_request` call has seen of its stream; "misled" marks the result
  of another call.

### NativeReceives

Extends the engine in prefetch mode with `KVReceiveProgress` on every rank and
`DiffusionExecutor.prepare_kv_for_forward`. Where the engine alone lets a receive arrive at any time
on all ranks at once, here a rank `Collect`s rows one by one, and a row has arrived
(`WriteArrives`) when the last rank has it.

* `Ask` is the `collective_rpc` with `prepare()` on every rank, for an output (`prepare`), a poll
  after the forward, the draining of aborts or `close()`. `Reply(k)` is the answer of one rank,
  `AskAgain` the second call that an output with prefetched receives takes, `Return` the merge with
  the engine's step that takes the answer (`Prepare`, `Poll`, `CloseFirst` or `DrainAborts`).
* `submitted` and `received` are the attributes of `KVReceiveProgress`. What `prepare()` retires is
  taken out of all ranks when the last one answers: a rank does nothing in between.
* `CallFails` stands for the raises of `prepare()` and of the merge and also for a timeout, a lost
  rank and invalid pages, at any time. A step that the code refuses is not enabled in any other way,
  so that `RefusesOnlyReuse` can say when that happens.
* `Elsewhere` is every other step of the engine; the busy loop takes none during a call.
* Left out: the second call when it would submit nothing (it only looks for arrivals), and
  notifications of zero pages. The landing of a row and its collection are one step.

### Orchestrator, RequestService

`Orchestrator` is the turn-based path through `engine/orchestrator.py`, `CfgCompanionTracker`,
`StagePool` and `MembershipController`. It is one asyncio event loop with three coroutines:
`handler` (`_request_handler`), `loop` (`_orchestration_loop`) and `member` (the task that
unregisters a replica).

* A coroutine runs alone between two suspending awaits. Its remaining work is a sequence of
  frames, `todo[c]`; `turn` names the one that holds the loop. `Suspended` says which frames await:
  the wait inside `pick`, the submission to an LLM client, the abort of an engine.
* Variables bear the names of the attributes: `states` the keys of `request_states`, `submitted`
  those of `stage_submit_ts`, `finals` `finished_final_output_stage_ids`, `registered/done/pending`
  the tracker's maps, `route` the pools' bindings, `live` the attached clients.
* `HandleAdd/HandleCompanion/HandleAbort` are the client's messages. `PickReplica`, `EndWait`, `Sent`
  are `submit_initial` under `_dispatch_or_fail_request`. `CleanStart`, `AbortInPool`,
  `ReleaseInPool`, `CleanEnd` are `_cleanup_request_ids`, pool by pool. `EvictReplica` is
  `_handle_dead_replica`. `Poll` is one output and its routing: `RouteError`, `RouteKVReady`,
  `RouteCompanion`, `RouteFinished`, which share `HandOn` and `Forward` (`_forward_to_next_stage`).
  `Unregister` and `Attach` are the controller.
* Outside are the engines (`Compute`, `ReportKV`, `Die`) and the hub (`Delist`, `List`). `distributed`
  selects `pick` with a hub, or `select_replica_id` without.
* `outcome[r]` is the first terminal message of a request, which is all the client looks at.

`RequestService` is what clients are promised: a request enters the stages one after the other, none
twice, and gets exactly one answer, "ok" only from the last stage; every request is answered.
`ServesRequests` is the refinement, `outcome` mapped to itself and `reached` to the last stage the
request was submitted to (`Reached`); `ServiceSafe` is its part without fairness.

`NoStrandedParent` speaks of requests the client still waits for. Without that it is false from three
stages on: a companion that is registered while the clean-up of its parent awaits leaves an entry of
the tracker (`pending`) behind, for a parent that was answered and removed. Nobody waits for it; the
entry stays in the tracker until the id is used and cleaned up again.

Simplifications. `Unregister` is level-triggered and one at a time; it may come before a replica was
ever listed. The empty-result branch writes no `stage_submit_ts` in the model. Left out:
an exception of a stage's input processing other than `OmniClientError` (`_handle_forward_failure`
does not absorb it, so it ends the whole orchestrator, not the request), async chunks, streaming input, prefill/decode disaggregation, duplex sessions, preselected replicas,
native KV parameters, metrics.

### OmniCoordinator

The stage client (`Start`, `Report`, `Heartbeat`, `Close`, `Crash`), the coordinator's receive thread
(`Receive` with `HandleHeartbeat`, `HandleUpdate`), its periodic thread (`Check`, `TakeList`, `Publish`,
`ClearPending`) and the hub client (`Join`, `Disconnect`, `ReceiveList`). Time is the action `Tick`, which
ages the registry; ages beyond the last threshold are one.

* `events[r]` are the messages of one address, with a bounded buffer: a full one drops the event, as
  `zmq.NOBLOCK` does; `Close` and `Crash` lose any suffix.
* `TakeList` and `Publish` are separate because the list holds the registry's own objects: an
  entry that changes between the two is sent as it is by then. Readers skip what is not up.
* `ClearPending` is separate because an event may ask for a broadcast before it.

Assumed: the events of one address arrive in order, also over a restart. Observations without a
property: an update does not count as a sign of life; an error that a replica reported itself is
lifted by its next heartbeat, like one that a timeout set, so `LastWordCounts` can only promise that
"down" sticks; a registration dropped by a full buffer, or a replica collected after ten minutes, is
never listed again, as heartbeats of unknown addresses are ignored.

### HostWeightStore

`FilesystemHostWeightStore` for one artifact key. Each action is one system call (or a run of calls
that no crash or other process can tell apart), done by one of several processes: `Lookup`, `Open`,
`Check` (lookup), `Deny`, `DenySync`, `Exclude`, `Lockout` (exclusion of a bad artifact), `Mark`, `Replace`,
`Sync`, `Clear` (`_move_artifact_locked`), `Build`, `Prepare`, `Repair`, `Sweep`, `Undeny`, `Temps`, `Produce`,
`Publish`, `Harden`, `Settle`, `Commit`, `Condemn`, `Discard` (`get_or_build`), `Cleanup`.

* `place` and `marked` are what processes see, `onDisk` and `markedOnDisk` the set of what a power
  loss may find. A rename may be rolled back until the directory of the old name was synced, and
  the new name may be missing until its own was. A removed tree comes back whole, at worst.
* Every call may fail (`Trouble`), every process may die, the node may lose power. `MaxStrain` bounds
  how often.
* `condemned` is the promise: publications whose denial was recorded durably, or which were durably
  marked or moved away after a failure. They must never be leased again.

Assumed: a process makes one call at a time and none while it holds a lease; all processes take the
locks. When a denial could not be recorded, `Exclude` marks the directory instead; that may succeed, fail
before or after the mode was changed, or fail to open the directory, which is then left where it is.
When the sync of the mark that precedes a move fails, the model takes it that the old mode is put back
(`Mark`). Left out: capacity, inspection, the contents of manifests, which artifact a runtime asks for.
The lock tries without waiting are a timeout. Observations without a property: a lookup that finds a
deny file which is not yet synced answers INVALID before that is durable; removing a deny file whose
sync then fails may bring the denial back after a power loss, and with it one more build.

### Others

`MC*`: constants and symmetry for TLC. `*Proofs`: see section 7.

## 4. Runs

All runs enumerate the whole state space of their instance. Counters that would grow are bounded by
`MaxAdds` (calls of `add_request`), `MaxFaults`, `MaxPublications`, `MaxStrain`, `EventBuffer` and
`ListBuffer`; all else is finite because of these.

| Run | Instance | Shows |
|---|---|---|
| `wave` | scheduler in step mode; 2 ids, 3 adds (one id is used twice), 3 pages, 2 rows, 2 keys, waves of 2, local and remote requests of 1 and 2 remaining steps with and without mixing; 210 421 states | pages being written keep their owner and are freed only after the last report; rows accounted for; ends surfaced once and never lost; every open request is queued or running, once; phases do not mix unless both requests allow it; FIFO |
| `prefix` | scheduler in request mode with a prefix cache; 2 ids, 4 adds, 4 pages, 1 prefix, local requests of one to three rows of which all, some or none have the prefix, 2 keys, waves of 2, one request too large for the pool unless its prefix is cached; 100 429 states | what a request reads behind a cached prefix was computed by a completed request and not taken since; the requests of a wave have one key and one prefix boundary |
| `engine_sync` | engine in request mode; 2 ids, 2 adds, 2 pages, waves of 2, local and remote | what executes is backed by pages and complete receives; answers reach their own caller; idle is clean; all are answered when the loop ends |
| `engine_live` | one id used twice, one page, with fairness | every caller is answered; quarantined pages return |
| `engine_shutdown` | one request | **violated**, see section 5 |
| `native_ranks` | engine with native prefetch and 2 ranks; 2 ids, 2 adds, 2 pages; 332 069 states | the engine is told exactly what all ranks have; nothing is refused but a row retired and submitted at once; the prefetched id is never stale; no quarantine ever; steps without the lock leave the waiting queue alone |
| `native_reuse` | one id used twice, 2 ranks | **violated** |
| `orchestrator_serve` | one guided request with a companion and an early KV report, 2 stages, one replica each, with and without a hub, one fault (a death, or a disappearance from the list), and its return; 258 732 states, with fairness | no stage gets a request twice, no parent waits in vain, nothing is forgotten, and `RequestService` is implemented, answers included |
| `orchestrator_terminal` | one request without companions, with a hub | **violated** |
| `coordinator_directory` | one address, one hub, two events and one list on their way; 35 872 states, with fairness | what a replica said last decides whether it is down; a hub that stays connected ends up with the list; a silent replica is dropped, and forgiven when it returns |
| `weights_shared` | 2 processes, 2 builds, two failing calls or crashes, or one power loss; 669 794 states | a lease stays backed; builds never collide; what was condemned is not served; a good artifact is not rebuilt; a committed one survives |
| `weights_rollback` | the same with one crash | **violated** |

Why the bounds are enough for what is asked.

* Scheduler and engine. The hazards involve at most two requests (one that ends and one that
  reuses its pages or its id) and one that is in the way; pages and rows are interchangeable, and
  two rows suffice to tell "some row" from "all rows". In `wave` three pages against requests of one
  and two rows produce waiting, quarantine and reuse. Three adds over two ids give a reuse with a
  bystander. In `prefix` four pages and four requests let a prefix be published, shared, evicted and
  computed again. For what is proved the bounds do not matter at all.
* Ranks. Two tell "one rank" from "all ranks". The prefetch actions of scheduler and engine fire in
  this run, through the composition.
* Orchestrator. The three ways to hand a request on (end of its stage, early KV report, last
  companion) meet in one request with one companion. One fault reaches each place where a death or
  a disappearance can fall; a second would mostly repeat the first, as requests do not depend on
  each other but through the replica they share.
* Coordinator. Replicas do not interact but through the pending flag, which any of them may set at
  any time: a heartbeat with a changed queue length does so in the instance as well.
* Store. Two processes make every pair of calls meet; two builds let a condemned or cleaned-up
  artifact meet its successor. `HealthyStays` and `CondemnedNotServed` hold outright for this strain; for
  any strain they hold up to what a power loss may bring back, which section 7 states and proves.

Symmetry permutes request ids, pages, ranks and processes, which only occur in sets, functions and
sequences that the model treats alike; runs with liveness properties use none.

Deadlock is checked everywhere but in the orchestrator's runs, where all requests may be done: a
closed scheduler and a stopped engine stutter, everything else must be able to go on.

Properties are stated in the modules with a comment each. Some relate to one line that is easy to
lose: `Capture` before `Finalize` (`StreamIsOwn`), `Ended` (`ExecutesBacked`), `has_requests` counting
quarantined pages (`IdleIsClean`, `QuarantineEnds`), the emission before the wait
(`EveryCallAnswered`), the keepalive broadcast of a heartbeat check (`HubCatchesUp`), the second
lookup under the build lock (`HealthyStays`), holding the pages a lookup found, and publishing only
results that are complete (`PrefixesComputed`). The mutants in `PROJECT.json` remove just these.

## 5. Findings

Four places where the code does not do what its comments or documents say. Each is the run of one
property, and TLC prints the behaviour.

* `engine_shutdown`, `ShutdownOnce`. `_fail_engine` marks the engine as shutting down first because
  "repeating executor.shutdown() is unsafe". `close()` does not look at that mark, nor again at
  `_shutdown_complete` after its wait: if the busy loop fails while `close()` waits for it, the
  executor and the scheduler are shut down twice. The counterexample: a request is aborted,
  `close()` begins, clearing the request's rows on the workers raises, `_fail_engine` runs to its
  end, the loop exits, `close()` continues.
* `native_reuse`, `SubmitsOnce`. `KVReceiveProgress.prepare` checks the rows an output submits against
  those it remembers before it retires the ones the same output retires. An id that is used again
  between the pop of its finished request and the next `schedule()` has the same row in both, so
  every rank raises "Duplicate native KV receive submission" and the whole engine fails. The engine
  (`diffusion_engine.py:1061`) and the scheduler (`base_scheduler.py:650-652`) both expect ids to be used
  again. `RefusesOnlyReuse`, in `native_ranks`, shows that nothing else is ever refused. When the old
  request was never submitted on the workers the same overlap fails differently, with "did not
  complete on every rank".
* `orchestrator_terminal`, `TerminalIsMonotonic`. ORCH-INV-100 says no new work is forwarded for a
  request in a terminal state. `StagePool.pick` sleeps for a replica and the caller then submits
  without looking at the request again: it may have been aborted or failed meanwhile.
* `weights_rollback`, `RollbackIsMarked`. The marker of a moved artifact is to stay "until both directory
  entries are durable". The repair of a move that a crash interrupted clears the marker after it
  synced only one of them. With a strain of 3 this lets a condemned artifact be served again
  (`CondemnedNotServed`, 37 steps), which is why `weights_shared` stays below it.

Observed without a run, since no line promises otherwise or the behaviour is mild: the gate that
waits for all companions of a bundle cannot see one that is not registered yet; a dead LLM replica is
not evicted by the submission guard, as `submit_initial` drops the binding that the guard looks up
(the poll evicts it later).

## 6. Fairness

Safety runs use no fairness.

* `EngineSpec` (`engine_live`). `WF(BusyLoop)`: the loop is a thread that runs as long as it can take a
  step; its waits have time-outs, and calls to the executor return or raise. `SF(Arrival)`: a
  sender completes a write it started; strong, since the model does not let a write end while
  `schedule()` is in progress. A receive that times out instead is a choice of `Prepare`, which is not
  assumed to happen. `SF(Answered(r))`: the connector does not put off the same request for ever
  (`get_num_new_matched_tokens` returning `None`); without it a caller rightly waits for ever. Nothing is
  assumed of the callers: they need not add, abort, read or close.
* `FairSpec` of the orchestrator. The event loop runs every coroutine that can go on, the bounded
  wait of `pick` ends, the loop polls every replica, a death is noticed, a replica missing from the
  list is unregistered, and an engine ends what it computes or dies. Nothing is assumed of clients,
  and no replica need come back.
* `FairCoordinatorSpec`. `WF` of the clock, of the heartbeats of a running process, of both threads'
  steps and of the hub's reads. `SF(Check)` and `SF(TakeList)`: the periodic loop checks at a fixed
  cadence however often it publishes. Per hub, `SF` of a send that reaches it: a connected hub does
  not lose every list. Replicas need not start, report or close.
* `HostWeightStore` has safety only: `flock` is not fair, and the publisher waits for the artifact lock
  without a deadline, so lookups that overlap for ever would starve it.

## 7. Proofs

All theorems hold for every value of the constants that satisfies the named assumptions of the
module. Each invariant was checked by TLC before it was proved.

`DiffusionSchedulerProofs`, under `ConstantsAssumption` (finite rows and pages, a nonempty set of shapes
with at least one row and one step each, `MaxRunning > 0`)

* `TypeCorrect`: `Spec => []TypeOK`. `TypeOK` is inductive; the work is in `Without`, the deque rebuilt
  without the finished requests, whose length and elements need lemmas on ranks in finite sets.
* `WritesStayOwned`, `ReceivesStayAccounted`, `SurfacedStayFinished` all follow from
  one inductive invariant, `PageInv`. `WritesOwned` is not inductive alone. To release a page it must be
  known that nobody writes it, which for a request that is not loading is the accounting of rows
  (`ReceivesAccounted`); to keep that across aborts, one needs that a loading request which
  finished is draining and still has its pages (`LoadingIsHeld`); to keep that across `pop_request_state`,
  which removes the entry, that only finished requests are popped (`SurfacedIsFinished`), hence that
  running requests are open (`RunningIsOpen`) and that nothing is popped during a wave
  (`SurfacedWhenIdle`).

`DiffusionQueueProofs`, in addition with `PrefetchAssumption` (the code refuses any other `max_num_seqs`
in prefetch mode)

* `QueueStaysPartition`, `NoResultStranded`, `RowsStayHeld`, `PrefetchIdStaysLive`, `BatchStaysHomogeneous`,
  all from `WholeInv`: `PageInv` with `QueueInv` (where every open request is, the requests set aside in
  the loop included, and that these occur only in the loop), `NothingReported` and `NoStrandedResult`
  (what `schedule()` forgets was reported), `HoldInv` (a request holds all its pages or none, pages
  belong to open or quarantined requests, the prefetched id is queued with its pages) and `BatchInv`
  (outside the idle phase the running requests are in the wave, with one key, compatible pairwise).
  `RowsStayHeld` says of `HoldInv` that running and quarantined requests hold a page for each row and
  that quarantined ones are finished.
  They need each other: preempted requests return to the queue with their pages, which the
  admission of a reserved request relies on. The queue lemmas `InConcat`, `DistinctConcat` and
  `HeadAndTail` stand for what the provers do not see of sequences.
* `PrefixesStayComputed` (`PrefixesComputed`), from `PrefixInv` beside `WholeInv`. The invariant adds that every
  published page holds what it is published for, and that prefix pages belong to requests with pages. A
  reservation keeps it because it takes only free pages, and a page somebody reads is not free; the
  publication because it comes only from requests whose results are complete.
* `ReleaseStaysSafe` (`ReleaseIsSafe`) and `OrderIsFifo` (`FifoOrder`), the two action properties, step by
  step from `WholeInv`. The order needs that rebuilding the deque keeps it (`WithoutKeepsOrder`), and
  what an order of a concatenation is (`AheadConcat`).

`DiffusionEngineProofs`

* `EngineImplementsScheduler`: `EngineSafe => Spec`. Every step of the engine is a step of the scheduler
  or leaves it alone. This needs `LoopInv`: the engine aborts and finalizes only ids, fails only
  receives of the wave in flight, and a closing thread comes to the scheduler only after the loop
  has ended. All invariants of the scheduler therefore hold inside the engine;
  `EngineWritesStayOwned` is the one that matters most.
* `EngineTypeCorrect`, and `StreamsStayOwn`: `EngineSafe => []StreamIsOwn`, from `CallInv`: a known id has a
  last call that used it; a registered stream belongs to that call; ids being delivered stay known
  until their own turn, so the stream captured is that of the request which is then removed.
* `NobodyLeftWaiting`: `EngineSafe => []AllAnsweredAtExit`, from `AnswerInv`: whoever waits has a registered
  stream while the engine is not closed, or its result is on its way; a registered stream that waits
  belongs to a known id, so that no call replaces it, but for the moment between the removal of the
  request and the delivery, when the delivery itself still knows it.

`DiffusionWaveProofs`, with `PrefetchAssumption` too

* `ExecutionStaysBacked` (`ExecutesBacked`) from `ScheduledInv`, what the output in flight names (known
  requests, running or ended) as long as nobody preempts, and `LaunchInv`, what the loop has made sure
  of at each of its steps: that the wave is fully sent, that every receive of it arrived or failed, and that
  the ended ones were filtered.
* `IdleStaysClean` (`IdleIsClean`) from `GenerationInv` (an id with a generation is known or quarantined)
  and `DeliveryInv` (ids returned and not popped, and before a wait all finished ones, are among those
  being delivered).
* `PrefetchStaysUndrained` (`PrefetchNeverDrains`) from `DrainInv`, and `LockFreeLeavesQueue`
  (`LockFreeStepsKeepQueue`) from all of these: what the steps without the lock finish is running, or is
  receiving in a wave, so its deque is rebuilt from itself (`WithoutNothing`).

`NativeReceivesProofs`, with `WorkerAssumption` (a finite, nonempty set of ranks) and `NativeAssumption`

* `NativeImplementsEngine`: `NativeSpec => EngineSafe`: each step is a step of the engine or a stutter.
  Through two implementations the scheduler's theorems reach the workers: `NativeWritesStayOwned`.
* `ReceivedIsSubmitted`, from `RecordsOK`: what a rank remembers as received was submitted to it.
* `ReportsStayCurrent` (`ReportsAreCurrent`) and `RefusalsAreReuse` (`RefusesOnlyReuse`), both from
  `NativeInv`, which follows the rows. Neither property is inductive, since what the ranks say of a row
  depends on where it was between two calls. `Accounts` sorts the rows. From its registration to the
  call that submits it a row is `Unsent`, and still written. From then on an open row is submitted, and
  written exactly as long as some rank misses it. A submitted row that is not open was received
  everywhere, and either it belongs to a running request that holds its pages (`Settled`) or it is in a
  list of rows to be forgotten on its way (`Forgotten`). A row to be forgotten is open only when it is also on
  its way to be submitted (`Sending`), that is, when its id was used again. `OutputInv` says what the
  parts of an output have to do with each other from `schedule()` to the call, and `CallsInv` that what is
  being answered is what was asked. The cases of the theorem on refusals are the raises of `prepare()` and of
  the merge: each leads by `Accounts` to a row that the output both retires and submits. All this is about
  an engine that works; `StoppedInv` says that after a failure nothing is asked.

`OrchestratorProofs`, under `OrchestratorAssumption` (finitely many ids, companions that are not
requests, a last stage with a final output), for any number of stages, replicas, requests,
companions and faults

* `OrchestratorTypeCorrect` (`TypeOK`). What needs work is that every clean-up and eviction pushes
  well-formed frames: the order in which it goes through ids and pools is any (`SetToSeq`), so a
  lemma says that the result is some sequence of the elements.
* `OrchestratorDispatchesOnce` (`DispatchedOnce`) from `OrchestratorPlacement`. `PlacementInv` says where a
  request can be. A coroutine submits with the frame in front only (`SubmissionsInFront`), the
  handler to the first stage and the loop to the next one, which has nothing of the request yet
  (`SubmissionFrames`); the replicas hold only what was submitted (`HeldWasSubmitted`), each request
  once per stage (`OnceInAStage`); the stages are entered in order (`SubmittedInOrder`); a message that was
  not handled is about a request that is new (`NewUntilHandled`, `KnownWasSent`). The property counts
  the searches for a replica, computations and ends of a request in one stage.
* `OrchestratorKeepsPromise`: `OrchestratorSpec => Promise!ServiceSafe`, the refinement of `RequestService`
  without its fairness, from `PlacementInv`: every step enters at most one stage, the next, and answers
  only whom was not answered, with "ok" only when the last stage was reached.
* `OrchestratorLosesNoRequest` (`NoLostRequest`) and `OrchestratorStrandsNoParent` (`NoStrandedParent`) from
  `HandInv` (`OrchestratorKeepsRequests`). Its core is `Tracked`: unless a clean-up has begun, the last stage
  that a request was submitted to has it (`Hold`: a replica computes it, its end waits to be polled,
  the handler looks for a replica of the first stage, or it is bound to a replica that died and that
  the loop has yet to evict), or it waits for its companions, or the loop hands it on; every stage with a final output
  has it until that output came. `BoundWhereHeld` makes the eviction find it: a request is bound to the
  replica that has it. `CompanionsTracked` says the same of a companion that a waiting parent counts on.
  `CleanedAreAnswered`, `ParentsWait` and `WaitingIsKnown` tie a clean-up to the reply that follows it. The
  invariant needs all three kinds of frames that a coroutine may have left when another one
  runs, which is why most of its proof is about what each coroutine leaves to the others.

`OmniCoordinatorProofs`

* `CoordinatorTypeCorrect`, and `LastWordStays`: `CoordinatorSpec => []LastWordCounts`, from `WordInv`. A
  process may have older events under way, of its predecessor at the same address too, and
  heartbeats after its last word. The invariant says that the last *update* under way is that word,
  or that only heartbeats are under way and the registry agrees with it or has forgotten the address.

`HostWeightStoreProofs`, for any number of processes, builds, faults and power losses

* `StoreTypeCorrect`, `LeaseStaysBacked`, `BuildsPublishAlone` from `StoreInv`: types, who holds which lock
  at which step (`LocksOK`), which publication is whose and that a power loss leaves at most what was
  there (`BuildsOK`).
* `CommitsAreDurable`: `StoreSpec => CommitIsDurable`, with `DurableInv`.

* `RemovalsAreDue`, from `DueInv`: whatever fails, dies or is lost, a build takes the entry away only if
  it is corrupt or marked or a denial is on record. `DueInv` follows the verdict of the lookup under
  the build lock to the step that acts on it (`Due`): nobody else can change the entry in between
  (`RemovalStaysDue`, from the locks), marks and rot do not go away while it is in place
  (`ExcludedStays`, `FaultyStays`), and `PlacesInv` says where a publication is at each step of a move
  and that the mark of an entry is durable, unless the entry is corrupt anyway: an exclusion whose sync
  failed leaves such a mark. `MarkKept` tells the mark of a bad artifact from the one
  that a move sets and takes back.
* `HealthyArtifactsStay`: `StoreSpec /\ [][HarmlessLoss]_vars => []HealthyStays`, from `HealthInv`. In
  addition a denial on record is about an entry that deserves it, or is about to be removed
  (`DenialDeserved`). This is where a power loss matters: a good artifact was published after the
  removal of the denial, and if that removal was not durable yet, the loss brings the denial back and
  the next build removes the good artifact. `HarmlessLoss` excludes these losses and those that find an
  unmarked artifact whose move they roll back, and nothing else.
* `CondemnedStaysOut`: `StoreSpec /\ [][MarkedLoss]_vars => CondemnedNotServed`, from `CondemnedInv`: as
  long as something that was excluded durably is the entry, it is marked or the denial is on record,
  on disk in both cases (`CondemnedOut`), and what a build is about to publish was never excluded
  (`FreshOK`). `MarkedLoss` says that a power loss finds the mark of what it
  may roll back, `RollbackIsMarked` of section 5. The theorem shows that this finding is the only way in
  which a condemned artifact is served again.
* `PoweredStore`: without power losses both hold outright, whatever else fails.

Both hypotheses were needed and both are enough: without them TLC finds the losses just described
from a strain of 3 on, with them it finds nothing up to a strain of 4.

Model-checked only: the liveness properties, which are out of the prover's reach. These are
`EveryCallAnswered`, `QuarantineEnds`, `HubCatchesUp`, `SilenceIsForgiven`, `DeadIsDropped`, and the
answers in `ServesRequests`, whose safety part is proved. Every invariant and every action property of
the passing runs has a theorem.

## 8. What is left out, and why

* Engine: lifecycle and chunk outputs, cancellation flags (they only shorten a forward pass),
  the RPC queue and the pause gate (a second protocol on the same lock), a raising
  `executor.shutdown()`, two concurrent calls of `close()`, the early shutdown of the Ray backend, the
  synchronous warm-up path, pre- and post-processing of requests.
* Without native prefetch all ranks are one in the model: a row arrives when every rank has it.
* The dense KV mode: the scheduler then keeps no KV state.
* An abort names an id, so an abort sent for a request that has ended may hit the next one that uses the
  id. The code offers no protection and claims none; the model has the same behaviour.
* The workers' step-mode cache, the executors' result pump, chunk transfer and duplex sessions are
  protocols that a model checker reaches; they are the rest of the plan.
* The AR schedulers and the prefix cache extend vLLM classes that are not in the repository; a model
  of them would be one of vLLM.
* Models, layers, kernels, servers, parsing, configuration and metrics, most of the repository by
  far, have no protocol to check. This is why the map covers little of the whole: it covers the
  components listed as modelled.
* The other components marked `not_modelled` in `PROJECT.json`, each with its reason.
