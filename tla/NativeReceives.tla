---------------------------- MODULE NativeReceives ----------------------------
(***************************************************************************)
(* The receives of native KV prefetch on the workers: what every rank      *)
(* remembers of them (KVReceiveProgress in diffusion_kv/kv_connector.py)   *)
(* and how the executor asks all ranks and merges their answers            *)
(* (DiffusionExecutor.prepare_kv_for_forward), composed with the engine.   *)
(*                                                                         *)
(* DiffusionEngine lets a receive arrive at any time, on all ranks at      *)
(* once.  Here a row is received by one worker after the other, and counts *)
(* as arrived when the last one has collected it; what the engine is told  *)
(* is the intersection of what the workers remember.                       *)
(*                                                                         *)
(* A "variant" definition is a plausible mistake, see DiffusionScheduler.  *)
(***************************************************************************)
EXTENDS DiffusionEngine

CONSTANT Worker   \* the ranks

ASSUME WorkerAssumption == Worker # {} /\ IsFiniteSet(Worker)
ASSUME NativeAssumption == Prefetch

\* A worker does nothing between its answer and the next call, so what it
\* retires with its answer may be retired for all when the last one answers;
\* "submitted" is then the same on every rank.
VARIABLES
    call,       \* the collective_rpc in progress, or "none"
    submitted,  \* KVReceiveProgress.submitted, as <<request, row>>
    received,   \* KVReceiveProgress.received, by worker
    replied     \* the workers that have answered the call

receiveVars == <<call, submitted, received, replied>>
nativeVars  == <<allVars, receiveVars>>

NativeInit ==
    /\ EngineInit
    /\ call = "none" /\ submitted = {} /\ replied = {}
    /\ received = [k \in Worker |-> {}]

-----------------------------------------------------------------------------
\* The engine asks the workers before a forward, after it (a poll), before it
\* applies aborts, and in close(); the last three only while a receive is open.
Draining == pc \in AbortSite /\ batch # {} /\ kv_loading # {}
Leaving  == closer = "first" /\ kv_loading # {}
Asking   == pc \in {"prepare", "poll"} \/ Draining \/ Leaving

\* An output is passed on in two calls when it carries prefetched receives: the
\* first with everything else, the second with those alone.  A second call that
\* would submit nothing is left out, it only looks for arrivals.
New(c) == CASE c = "current"  -> out.transfer \ out.prefetch
            [] c = "prefetch" -> out.prefetch
            [] OTHER          -> {}
Required(c) == CASE c = "current"           -> out.required
                 [] c = "poll" /\ Draining  -> LoadingRows(batch)
                 [] c = "poll" /\ Leaving   -> RowsOfAll(kv_loading)
                 [] OTHER                   -> {}
Retired(c) == IF c = "current" THEN out.kv_finished ELSE {}

\* prepare() forgets the rows that the call retires.
\* variant: they stay submitted
KeptSubmitted(c)  == submitted
StillSubmitted(c) == submitted \ Retired(c)
\* variant: they stay received
KeptReceived(k)   == received[k]
StillReceived(k)  == received[k] \ Retired(call)

\* The merge of the answers, which are all that a worker has received.
\* variant: one worker suffices
AnyReport == UNION {StillReceived(k) : k \in Worker}
Reported  == {w \in Rows : \A k \in Worker : w \in StillReceived(k)}

\* What prepare() refuses when it is called and when it answers, and what the
\* executor refuses to merge.
Refused(c)    == New(c) \cap submitted # {} \/ ~(Required(c) \subseteq submitted \cup New(c))
Missing(k) == ~((Retired(call) \cap submitted) \subseteq received[k])
Incomplete    == ~(Required(call) \subseteq Reported)

AllReplied == call # "none" /\ replied = Worker
LastCall   == call # "current" \/ out.prefetch = {}

-----------------------------------------------------------------------------
(***************************************************************************)
(* A call.  Where prepare() or the merge raises only CallFails goes on,    *)
(* which also stands for a timeout, a lost rank and invalid pages.         *)
(***************************************************************************)
Ask ==
    LET c == IF pc = "prepare" THEN "current" ELSE "poll" IN
    /\ Asking /\ call = "none" /\ ~Refused(c)
    /\ call' = c /\ replied' = {}
    /\ submitted' = submitted \cup New(c)
    /\ UNCHANGED <<allVars, received>>

\* post_forward on worker k has the completion of one more row.
Collect(k, w) ==
    /\ call # "none" /\ k \notin replied
    /\ w \in submitted \ received[k]
    /\ received' = [received EXCEPT ![k] = @ \cup {w}]
    /\ IF \A j \in Worker \ {k} : w \in received[j]
       THEN \E x \in writes : /\ <<x[1], x[2]>> = w
                              /\ WriteArrives(x) /\ UNCHANGED engineVars
       ELSE UNCHANGED allVars
    /\ UNCHANGED <<call, submitted, replied>>

Reply(k) ==
    /\ call # "none" /\ k \notin replied
    /\ Required(call) \subseteq received[k] /\ ~Missing(k)
    /\ replied' = replied \cup {k}
    /\ UNCHANGED <<allVars, call, submitted, received>>

Retire ==
    /\ AllReplied /\ ~Incomplete
    /\ received' = [k \in Worker |-> StillReceived(k)]
    /\ replied' = {}

\* The answer to the first call is dropped; only then are the prefetched rows
\* submitted.
AskAgain ==
    /\ Retire /\ ~LastCall
    /\ New("prefetch") \cap StillSubmitted(call) = {}
    /\ call' = "prefetch"
    /\ submitted' = StillSubmitted(call) \cup New("prefetch")
    /\ UNCHANGED allVars

\* The engine gets the answer: it reports what is complete, or shuts down.
Return ==
    /\ Retire /\ LastCall
    /\ call' = "none" /\ submitted' = StillSubmitted(call)
    /\ \/ Prepare \/ Poll
       \/ Leaving /\ CloseFirst
       \/ Draining /\ IF arrived = {} THEN UNCHANGED allVars ELSE DrainAborts

CallFails ==
    /\ PrepareFails \/ DrainAbortsFails \/ CloseDrainFails
    /\ call' = "none" /\ replied' = {}
    /\ UNCHANGED <<submitted, received>>

\* Everything else goes on as in the engine: other threads at any time, the
\* loop and close() when no call is in progress.
Elsewhere ==
    /\ \/ \E r \in Request, s \in Shape : Add(r, s)
       \/ \E r \in Request : RequestAbort(r)
       \/ \E i \in Calls : ReaderEnds(i)
       \/ CloseBegin \/ CloseWait
       \/ call = "none" /\ ~Asking /\ (BusyLoop \/ Closing)
       \/ call = "none" /\ Draining /\ AbortDrained
       \/ Stopped
    /\ UNCHANGED receiveVars

NativeNext ==
    \/ Ask \/ AskAgain \/ Return \/ CallFails \/ Elsewhere
    \/ \E k \in Worker : Reply(k) \/ \E w \in submitted : Collect(k, w)

NativeSpec == NativeInit /\ [][NativeNext]_nativeVars

-----------------------------------------------------------------------------
(***************************************************************************)
(* Properties.                                                             *)
(***************************************************************************)
\* What the engine is told about the open receives is exactly what is complete
\* on every rank: no completion of an earlier request with the same id, none
\* that a rank has yet to see, and none lost because it came with a call that
\* did not wait for it.
ReportsAreCurrent ==
    AllReplied /\ LastCall /\ ~Incomplete =>
        Reported \cap RowsOfAll(kv_loading) = arrived \cup kv_received

\* The workers and the merge accept every output, however receives, forwards,
\* aborts and retirements overlap, except one that both retires and submits a
\* row: its id was used again before the next schedule().
RefusesOnlyReuse ==
    /\ pc = "prepare"
    /\ \/ call = "none" /\ Refused("current")
       \/ \E k \in Worker \ replied :
              call # "none" /\ Required(call) \subseteq received[k] /\ Missing(k)
       \/ AllReplied /\ Incomplete
       \/ AllReplied /\ ~LastCall /\ New("prefetch") \cap StillSubmitted(call) # {}
    => New("current") \cap out.kv_finished # {}

\* "Duplicate native KV receive submission": prepare() takes it for granted
\* that no output submits a row whose receive it still remembers.
SubmitsOnce == pc = "prepare" /\ call = "none" => New("current") \cap submitted = {}
=============================================================================
