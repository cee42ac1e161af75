---------------------------- MODULE Orchestrator ----------------------------
(***************************************************************************)
(* The turn-based Orchestrator of vllm_omni/engine/orchestrator.py with    *)
(* its CfgCompanionTracker, its StagePools and the MembershipController:   *)
(* one asyncio event loop in which three coroutines work on the same       *)
(* request state, the handler of the client's messages, the loop that      *)
(* polls the stages and routes their outputs, and the task that removes a  *)
(* replica which left.  The stage engines behind the pools are other       *)
(* processes; they compute, and they die.                                  *)
(*                                                                         *)
(* A coroutine runs alone from one suspending await to the next.  What it  *)
(* has left to do is a sequence of frames, todo[c]; turn is the coroutine  *)
(* that holds the event loop, or Nobody when all are suspended.            *)
(*                                                                         *)
(* A request may have CFG companions: requests of their own that run on    *)
(* stage 0 only, whose outputs the parent takes along to the next stage.   *)
(*                                                                         *)
(* A "variant" definition is a plausible mistake, see DiffusionScheduler.  *)
(***************************************************************************)
EXTENDS Integers, Sequences, SequencesExt, FiniteSets

CONSTANTS
    Requests,       \* what clients submit
    Companions,     \* ids of CFG companions
    Parent,         \* Parent[c]: the request that companion c belongs to
    LastStage,      \* final_stage_id of every request
    Diffusion,      \* the stages whose pool is of type "diffusion"
    FinalOutput,    \* the stages whose outputs go to the client
    Slots,          \* <<stage, replica id>>: the slots of the pools
    Hubs,           \* the deployments: TRUE with a hub that lists the replicas
    KVReady,        \* requests whose stage reports kv_ready before it ends
    MaxFaults,      \* bound: deaths, disappearances from the hub's list
    Nobody, NoReplica

Stages == 0 .. LastStage
Ids == Requests \cup Companions
Coroutines == {"handler", "loop", "member"}
ReplicasOf(s) == {k[2] : k \in {slot \in Slots : slot[1] = s}}

ASSUME OrchestratorAssumption ==
    /\ LastStage \in Nat
    /\ Requests \cap Companions = {} /\ IsFiniteSet(Ids)
    /\ Parent \in [Companions -> Requests]
    /\ Diffusion \subseteq Stages \ {0}
    /\ FinalOutput \subseteq Stages /\ LastStage \in FinalOutput
    /\ Slots \subseteq Stages \X {slot[2] : slot \in Slots}
    /\ \A slot \in Slots : slot[2] # NoReplica
    /\ Nobody \notin Coroutines
    \* A KV cache is handed to a diffusion stage; only there are the inputs
    \* complete before the stage ends.
    /\ KVReady \subseteq Requests /\ (KVReady # {} => 1 \in Diffusion)
    /\ Hubs \subseteq BOOLEAN /\ MaxFaults \in Nat

VARIABLES
    sent, cancelled,    \* what clients did
    inbox,              \* request_async_queue
    outcome,            \* the first terminal message for each request
    states,             \* the keys of request_states
    submitted,          \* the keys of stage_submit_ts
    finals,             \* finished_final_output_stage_ids
    registered,         \* _companion_map
    done,               \* _done and _companion_outputs
    pending,            \* _pending_parents: the stage, or -1
    route,              \* the replica a request is bound to in each pool
    live,               \* the slots with a client
    listed,             \* the slots that the hub lists as UP
    dead,               \* the slots whose process died
    work,               \* what each engine computes
    out,                \* what each engine answered
    kvSent,             \* requests whose kv_ready was reported
    todo, turn,         \* the coroutines
    faults,
    distributed         \* a hub lists the replicas; pick replaces select_replica_id

client == <<sent, cancelled, inbox>>
requests == <<states, submitted, finals>>
tracker == <<registered, done, pending>>
pools == <<route, live>>
engines == <<dead, work, out, kvSent>>
environment == <<listed, faults, distributed>>
vars == <<client, outcome, requests, tracker, pools, engines, environment,
          todo, turn>>

Init ==
    /\ sent = {} /\ cancelled = {} /\ inbox = <<>>
    /\ outcome = [r \in Requests |-> "idle"]
    /\ states = {} /\ submitted = [i \in Ids |-> {}] /\ finals = [i \in Ids |-> {}]
    /\ registered = [r \in Requests |-> {}] /\ done = {}
    /\ pending = [r \in Requests |-> -1]
    /\ route = [s \in Stages |-> [i \in Ids |-> NoReplica]]
    /\ live = Slots /\ listed = Slots /\ dead = {}
    /\ work = [slot \in Slots |-> {}] /\ out = [slot \in Slots |-> <<>>]
    /\ kvSent = {}
    /\ todo = [c \in Coroutines |-> <<>>] /\ turn = Nobody
    /\ faults = 0 /\ distributed \in Hubs

-----------------------------------------------------------------------------
\* Frames: what a coroutine does next.
Pick(i, s) == [op |-> "pick", id |-> i, stage |-> s]
Wait(i, s) == [op |-> "wait", id |-> i, stage |-> s]
Send(i, s) == [op |-> "send", id |-> i, stage |-> s]
Clean(ids, abort) == [op |-> "clean", ids |-> ids, abort |-> abort]
AbortAt(ids, s) == [op |-> "abort", ids |-> ids, stage |-> s]
ReleaseAt(ids, s) == [op |-> "release", ids |-> ids, stage |-> s]
Finish(ids) == [op |-> "finish", ids |-> ids]
Evict(s, k) == [op |-> "evict", stage |-> s, at |-> k]
Reply(ids, kind) == [op |-> "reply", ids |-> ids, kind |-> kind]

\* The coroutine is inside an await: other coroutines may run.
Suspended(frames) ==
    \/ frames = <<>> \/ Head(frames).op \in {"wait", "release"}
    \/ Head(frames).op = "send" /\ Head(frames).stage \notin Diffusion

\* Coroutine c has these frames left; it keeps the event loop unless it waits.
Continue(c, frames) ==
    /\ todo' = [todo EXCEPT ![c] = frames]
    /\ turn' = IF Suspended(frames) THEN Nobody ELSE c

Idle(c) == turn = Nobody /\ todo[c] = <<>>
At(c, op) == /\ turn \in {Nobody, c}
             /\ todo[c] # <<>> /\ Head(todo[c]).op = op
Rest(c) == Tail(todo[c])

\* The client gets its first terminal message; later ones change nothing.
Told(ids, kind) ==
    [r \in Requests |-> IF r \in ids /\ outcome[r] = "waiting"
                        THEN kind ELSE outcome[r]]

Live(s) == {k \in ReplicasOf(s) : <<s, k>> \in live}
Serviceable(s) ==
    {k \in Live(s) : distributed => <<s, k>> \in listed}

CompanionsOf(r) == {c \in Companions : Parent[c] = r}
IsCompanion(i) == i \in Companions /\ i \in registered[Parent[i]]
AllDone(r) == registered[r] \subseteq done
\* The request that a failure to submit i is attributed to.
Owner(i) == IF i \in Companions THEN Parent[i] ELSE i

-----------------------------------------------------------------------------
\* Clients.

\* add_request: the request and its companions go into one queue, in order.
Submit(r) ==
    /\ r \notin sent
    /\ sent' = sent \cup {r}
    /\ outcome' = [outcome EXCEPT ![r] = "waiting"]
    /\ inbox' = inbox \o <<[type |-> "add", id |-> r]>>
                      \o SetToSeq({[type |-> "companion", id |-> c] : c \in CompanionsOf(r)})
    /\ UNCHANGED <<cancelled, requests, tracker, pools, engines, environment, todo, turn>>

\* abort, with an rpc_id, of a request that was not answered yet.
Cancel(r) ==
    /\ outcome[r] = "waiting" /\ r \notin cancelled
    /\ cancelled' = cancelled \cup {r}
    /\ inbox' = Append(inbox, [type |-> "abort", id |-> r])
    /\ UNCHANGED <<sent, outcome, requests, tracker, pools, engines, environment, todo, turn>>

-----------------------------------------------------------------------------
\* The message handler: _request_handler.

Receive(type) == /\ Idle("handler") /\ inbox # <<>> /\ Head(inbox).type = type
                 /\ inbox' = Tail(inbox)
                 /\ UNCHANGED <<sent, cancelled>>

\* The state of a request is registered before it is submitted to stage 0.
Register(i) == /\ states' = states \cup {i}
               /\ submitted' = [submitted EXCEPT ![i] = {0}]
               /\ UNCHANGED finals
               /\ Continue("handler", <<Pick(i, 0)>>)

HandleAdd ==
    /\ Receive("add")
    /\ LET r == Head(inbox).id IN
       \/ /\ Live(0) = {}
          /\ outcome' = Told({r}, "error")
          /\ UNCHANGED <<requests, todo, turn>>
       \/ /\ Live(0) # {}
          /\ Register(r) /\ UNCHANGED outcome
    /\ UNCHANGED <<tracker, pools, engines, environment>>

HandleCompanion ==
    /\ Receive("companion")
    /\ LET c == Head(inbox).id IN
       \/ Parent[c] \notin states /\ UNCHANGED <<requests, registered, todo, turn>>
       \/ /\ Parent[c] \in states
          /\ registered' = [registered EXCEPT ![Parent[c]] = @ \cup {c}]
          /\ Register(c)
    /\ UNCHANGED <<outcome, done, pending, pools, engines, environment>>

HandleAbort ==
    /\ Receive("abort")
    /\ LET r == Head(inbox).id IN
       Continue("handler", <<Clean({r}, TRUE), Reply({r}, "aborted")>>)
    /\ UNCHANGED <<outcome, requests, tracker, pools, engines, environment>>

-----------------------------------------------------------------------------
\* Submitting to a stage pool: submit_initial under _dispatch_or_fail_request.

\* The request that the failure is attributed to gets an error and is cleaned
\* up; then come the frames that follow.
FailThen(c, i, following) ==
    /\ outcome' = Told({Owner(i)}, "error")
    /\ Continue(c, <<Clean({Owner(i)}, TRUE)>> \o following)

\* A request stays where it is bound, a companion goes where its parent went,
\* any other request anywhere.
Candidates(i, s) ==
    LET bound == {j \in {i, Owner(i)} : route[s][j] \in Serviceable(s)} IN
    IF bound = {} THEN Serviceable(s)
    ELSE {route[s][IF i \in bound THEN i ELSE Owner(i)]}

\* The request is bound to replica k and its client is called.  The message is
\* on its way when the call suspends (it is lost if the process died and nobody
\* noticed), or the client raises EngineDeadError.  The pool drops the binding
\* before it re-raises, unless its clients are diffusion clients; the guard
\* looks the replica up after that, to evict it.
Dispatch(c, i, s, k) ==
    \/ /\ route' = [route EXCEPT ![s][i] = k]
       /\ work' = IF <<s, k>> \in dead THEN work
                  ELSE [work EXCEPT ![<<s, k>>] = @ \cup {i}]
       /\ Continue(c, <<Send(i, s)>> \o Rest(c))
       /\ UNCHANGED outcome
    \/ LET bound == IF s \in Diffusion THEN k ELSE NoReplica IN
       /\ <<s, k>> \in dead
       /\ route' = [route EXCEPT ![s][i] = bound]
       /\ FailThen(c, i, (IF bound = k THEN <<Evict(s, k)>> ELSE <<>>) \o Rest(c))
       /\ UNCHANGED work

\* StageUnavailableError
NoReplicaFor(c, i) == /\ FailThen(c, i, Rest(c))
                      /\ UNCHANGED <<route, work>>

\* pick: take a replica, or wait for one.  Without a hub, select_replica_id
\* raises at once.
PickReplica(c) ==
    /\ At(c, "pick")
    /\ LET i == Head(todo[c]).id   s == Head(todo[c]).stage IN
       \/ \E k \in Candidates(i, s) : Dispatch(c, i, s, k)
       \/ /\ Candidates(i, s) = {} /\ distributed
          /\ route' = [route EXCEPT ![s][i] = NoReplica]
          /\ Continue(c, <<Wait(i, s)>> \o Rest(c))
          /\ UNCHANGED <<outcome, work>>
       \/ Candidates(i, s) = {} /\ ~distributed /\ NoReplicaFor(c, i)
    /\ UNCHANGED <<client, requests, tracker, live, dead, out, kvSent, listed, faults, distributed>>

\* The bounded wait of pick ends.  The request state may have been cleaned up
\* meanwhile: it is not looked at again.
EndWait(c) ==
    /\ At(c, "wait")
    /\ LET i == Head(todo[c]).id   s == Head(todo[c]).stage IN
       \/ \E k \in Serviceable(s) : Dispatch(c, i, s, k)
       \/ Serviceable(s) = {} /\ NoReplicaFor(c, i)
    /\ UNCHANGED <<client, requests, tracker, live, dead, out, kvSent, listed, faults, distributed>>

\* client.add_request_async returns.
\* variant: the submission is noted for the stage after.
SentAhead(c) ==
    /\ At(c, "send")
    /\ LET f == Head(todo[c]) IN
       submitted' = [submitted EXCEPT ![f.id] = @ \cup {f.stage + 1}]
    /\ Continue(c, Rest(c))
    /\ UNCHANGED <<client, outcome, states, finals, tracker, pools, engines, environment>>

Sent(c) ==
    /\ At(c, "send")
    /\ LET f == Head(todo[c]) IN
       submitted' = [submitted EXCEPT ![f.id] = @ \cup {f.stage}]
    /\ Continue(c, Rest(c))
    /\ UNCHANGED <<client, outcome, states, finals, tracker, pools, engines, environment>>

-----------------------------------------------------------------------------
\* Cleaning up: _cleanup_request_ids.

\* The parents of companions that are cleaned up before their output came.
Orphaned(ids) == {Parent[i] : i \in {j \in ids \ done : IsCompanion(j)}} \ ids

\* The part before the first await.  A companion that is cleaned up before its
\* output came takes its parent along, a parent takes its companions.
CleanStart(c) ==
    /\ At(c, "clean")
    /\ LET f == Head(todo[c])
           orphaned == Orphaned(f.ids)
           parents == (f.ids \cup orphaned) \cap Requests
           batch == f.ids \cup orphaned \cup UNION {registered[p] : p \in parents} IN
       /\ outcome' = Told(orphaned, "error")
       /\ registered' = [r \in Requests |-> IF r \in parents THEN {} ELSE registered[r]]
       /\ done' = done \ UNION {registered[p] : p \in parents}
       /\ pending' = [r \in Requests |-> IF r \in parents THEN -1 ELSE pending[r]]
       /\ Continue(c, (IF f.abort THEN <<AbortAt(batch, 0)>> ELSE <<Finish(batch)>>) \o Rest(c))
    /\ UNCHANGED <<client, requests, pools, engines, environment>>

Unbound(ids, s) ==
    [route EXCEPT ![s] = [i \in Ids |-> IF i \in ids THEN NoReplica ELSE @[i]]]
AfterAbortAt(ids, s) == IF s < LastStage THEN AbortAt(ids, s + 1) ELSE Finish(ids)

\* One pool of _abort_request_ids: the requests bound to a live client are
\* aborted there, which is awaited; the bindings go after that.
AbortInPool(c) ==
    /\ At(c, "abort")
    /\ LET f == Head(todo[c])
           s == f.stage
           here == {i \in f.ids : route[s][i] \in Live(s)} IN
       \/ /\ here = {}
          /\ route' = Unbound(f.ids, s)
          /\ Continue(c, <<AfterAbortAt(f.ids, s)>> \o Rest(c))
          /\ UNCHANGED work
       \/ /\ here # {}
          /\ work' = [slot \in Slots |->
                         IF slot[1] = s
                         THEN work[slot] \ {i \in here : route[s][i] = slot[2]}
                         ELSE work[slot]]
          /\ Continue(c, <<ReleaseAt(f.ids, s)>> \o Rest(c))
          /\ UNCHANGED route
    /\ UNCHANGED <<client, outcome, requests, tracker, live, dead, out, kvSent, environment>>

ReleaseInPool(c) ==
    /\ At(c, "release")
    /\ LET f == Head(todo[c]) IN
       /\ route' = Unbound(f.ids, f.stage)
       /\ Continue(c, <<AfterAbortAt(f.ids, f.stage)>> \o Rest(c))
    /\ UNCHANGED <<client, outcome, requests, tracker, live, engines, environment>>

\* All bindings and the request states go.
CleanEnd(c) ==
    /\ At(c, "finish")
    /\ LET ids == Head(todo[c]).ids IN
       /\ route' = [s \in Stages |-> Unbound(ids, s)[s]]
       /\ states' = states \ ids
    /\ Continue(c, Rest(c))
    /\ UNCHANGED <<client, outcome, submitted, finals, tracker, live, engines, environment>>

ReplyTo(c) ==
    /\ At(c, "reply")
    /\ outcome' = Told(Head(todo[c]).ids, Head(todo[c]).kind)
    /\ Continue(c, Rest(c))
    /\ UNCHANGED <<client, requests, tracker, pools, engines, environment>>

\* The connection to a replica is gone, and what it computes with it.
Disconnect(slot) == /\ live' = live \ {slot}
                    /\ work' = [work EXCEPT ![slot] = {}]
                    /\ out' = [out EXCEPT ![slot] = <<>>]

\* _handle_dead_replica, unless the guard finds the replica evicted already:
\* requests bound to it fail, all requests of the stage if it was the last.
EvictReplica(c) ==
    /\ At(c, "evict")
    /\ LET f == Head(todo[c])
           slot == <<f.stage, f.at>>
           last == Live(f.stage) = {f.at}
           victims == {i \in states : /\ f.stage \in submitted[i]
                                      /\ (route[f.stage][i] = f.at \/ last)}
           \* in the order of request_states: a parent before its companions
           order == SetToSeq(victims \cap Requests) \o SetToSeq(victims \cap Companions) IN
       \/ /\ slot \in live
          /\ Disconnect(slot)
          /\ outcome' = Told(victims, "error")
          /\ Continue(c, [n \in DOMAIN order |-> Clean({order[n]}, TRUE)] \o Rest(c))
       \/ /\ slot \notin live
          /\ Continue(c, Rest(c))
          /\ UNCHANGED <<outcome, live, work, out>>
    /\ UNCHANGED <<client, requests, tracker, route, dead, kvSent, environment>>

-----------------------------------------------------------------------------
\* Routing the outputs of the stages: _orchestration_loop.

\* _forward_to_next_stage: the failures come back as if the request had been
\* submitted to stage s + 1.  The stage's bridge makes its inputs, or rejects
\* what it got (OmniClientError), or makes none: nothing is left to do then,
\* which is an error only of a diffusion stage.  Any other exception of the
\* bridge is not absorbed (_handle_forward_failure) and ends the orchestrator;
\* the model has no such exception.
Forward(r, s, following) ==
    \/ /\ Live(s + 1) = {}
       /\ FailThen("loop", r, following)
    \/ /\ Live(s + 1) # {}
       /\ \/ /\ Continue("loop", <<Pick(r, s + 1)>> \o following)
             /\ UNCHANGED outcome
          \/ FailThen("loop", r, following)
          \/ /\ outcome' = Told({r}, IF s + 1 \in Diffusion THEN "error" ELSE "empty")
             /\ Continue("loop", <<Clean({r}, FALSE)>> \o following)

\* variant: the record of the submissions is not looked at.
NeverSubmitted(r, s) == FALSE

\* variant: any record of a submission counts.
AnySubmitted(r, s) == submitted[r] # {}

NextSubmitted(r, s) == s + 1 \in submitted[r]

\* Stage s is done with request r, or at least its KV cache is ready.
HandOn(r, s, following) ==
    \/ /\ ~AllDone(r)
       /\ pending' = [pending EXCEPT ![r] = s]
       /\ Continue("loop", following) /\ UNCHANGED outcome
    \/ /\ AllDone(r)
       /\ Forward(r, s, following) /\ UNCHANGED pending

Ignore == Continue("loop", <<>>) /\ UNCHANGED <<outcome, tracker, finals>>

\* _handle_stage_error
RouteError(i) ==
    /\ outcome' = Told({IF IsCompanion(i) THEN Parent[i] ELSE i}, "error")
    /\ Continue("loop", <<Clean({IF IsCompanion(i) THEN Parent[i] ELSE i}, TRUE)>>)
    /\ UNCHANGED <<tracker, finals>>

\* _handle_kv_ready_raw_outputs
RouteKVReady(i, s) ==
    \/ (IsCompanion(i) \/ s = LastStage \/ NextSubmitted(i, s)) /\ Ignore
    \/ /\ ~IsCompanion(i) /\ s < LastStage /\ ~NextSubmitted(i, s)
       /\ HandOn(i, s, <<>>)
       /\ UNCHANGED <<registered, done, finals>>

\* variant: without the companion that just ended.
OthersDone(p, c) == registered[p] \subseteq done

NowAllDone(p, c) == registered[p] \subseteq done \cup {c}

\* The output of a companion is kept for its parent; the last one releases a
\* parent that waited for it (_handle_cfg_companion_ready).
RouteCompanion(c) ==
    LET p == Parent[c]
        s == pending[p] IN
    /\ done' = done \cup {c}
    /\ \/ /\ s # -1 /\ NowAllDone(p, c)
          /\ pending' = [pending EXCEPT ![p] = -1]
          /\ \/ /\ p \in states /\ ~NextSubmitted(p, s)
                /\ Forward(p, s, <<Clean({c}, FALSE)>>)
             \/ /\ p \notin states \/ NextSubmitted(p, s)
                /\ Continue("loop", <<Clean({c}, FALSE)>>) /\ UNCHANGED outcome
       \/ /\ ~(s # -1 /\ NowAllDone(p, c))
          /\ Continue("loop", <<Clean({c}, FALSE)>>) /\ UNCHANGED <<outcome, pending>>
    /\ UNCHANGED <<registered, finals>>

\* _route_output for any other finished output.
FinalStages(i) == IF i \in Companions THEN {0} ELSE FinalOutput
Final(i) == IF i \in Companions THEN 0 ELSE LastStage
RouteFinished(i, s) ==
    LET complete == s \in FinalOutput /\ FinalStages(i) \subseteq finals[i] \cup {s}
        ending == IF complete THEN <<Clean({i}, FALSE)>> ELSE <<>> IN
    /\ finals' = IF s \in FinalOutput THEN [finals EXCEPT ![i] = @ \cup {s}] ELSE finals
    /\ \/ /\ s < Final(i) /\ ~NextSubmitted(i, s)
          /\ HandOn(i, s, <<>>)
       \/ /\ s >= Final(i) \/ NextSubmitted(i, s)
          /\ outcome' = IF complete THEN Told({i}, "ok") ELSE outcome
          /\ Continue("loop", ending)
          /\ UNCHANGED pending
    /\ UNCHANGED <<registered, done>>

\* One output is taken from a replica and routed.
Poll(slot) ==
    /\ Idle("loop") /\ slot \in live /\ out[slot] # <<>>
    /\ LET o == Head(out[slot]) IN
       \/ o.id \notin states /\ Ignore
       \/ o.id \in states /\ o.kind = "error" /\ RouteError(o.id)
       \/ o.id \in states /\ o.kind = "kv_ready" /\ RouteKVReady(o.id, slot[1])
       \/ /\ o.id \in states /\ o.kind = "finished"
          /\ \/ IsCompanion(o.id) /\ RouteCompanion(o.id)
             \/ ~IsCompanion(o.id) /\ RouteFinished(o.id, slot[1])
    /\ out' = [out EXCEPT ![slot] = Tail(@)]
    /\ UNCHANGED <<client, states, submitted, pools, dead, work, kvSent, environment>>

\* A poll finds the process dead, after its last outputs were taken.
PollDead(slot) ==
    /\ Idle("loop") /\ slot \in live /\ slot \in dead /\ out[slot] = <<>>
    /\ Continue("loop", <<Evict(slot[1], slot[2])>>)
    /\ UNCHANGED <<client, outcome, requests, tracker, pools, engines, environment>>

-----------------------------------------------------------------------------
\* MembershipController: _watch_replica_list finds that the hub no longer lists
\* a replica as UP.
\* handle_unregister drops the bindings to it, detaches it and fails the
\* requests that were bound.
\* variant: of these, the requests that the engine still computes.
StillComputed(slot) == work[slot]

BoundTo(slot) == {i \in Ids : route[slot[1]][i] = slot[2]}

Vanished(slot) ==
    distributed /\ slot \notin listed /\ (slot \in live \/ BoundTo(slot) # {})

Unregister(slot) ==
    /\ Idle("member") /\ Vanished(slot)
    /\ LET s == slot[1]
           affected == BoundTo(slot) IN
       /\ route' = Unbound(affected, s)
       /\ Disconnect(slot)
       /\ Continue("member", IF affected = {} THEN <<>>
                             ELSE <<Clean(affected, TRUE), Reply(affected, "error")>>)
    /\ UNCHANGED <<client, outcome, requests, tracker, dead, kvSent, environment>>

\* A process (re)started and is attached; it has no work.
Attach(slot) ==
    /\ distributed /\ turn = Nobody /\ slot \notin live
    /\ live' = live \cup {slot} /\ dead' = dead \ {slot}
    /\ UNCHANGED <<client, outcome, requests, tracker, route, work, out, kvSent,
                    listed, faults, distributed, todo, turn>>

-----------------------------------------------------------------------------
\* Outside: the engines and the hub.

Engine(slot) == slot \notin dead /\ slot \in live
Compute(slot, i) ==
    /\ Engine(slot) /\ i \in work[slot]
    /\ \E kind \in {"finished", "error"} :
           out' = [out EXCEPT ![slot] = Append(@, [id |-> i, kind |-> kind])]
    /\ work' = [work EXCEPT ![slot] = @ \ {i}]
    /\ UNCHANGED <<client, outcome, requests, tracker, pools, dead, kvSent, environment, todo, turn>>

ReportKV(slot, i) ==
    /\ Engine(slot) /\ i \in work[slot] /\ i \in KVReady \ kvSent /\ slot[1] = 0
    /\ kvSent' = kvSent \cup {i}
    /\ out' = [out EXCEPT ![slot] = Append(@, [id |-> i, kind |-> "kv_ready"])]
    /\ UNCHANGED <<client, outcome, requests, tracker, pools, dead, work, environment, todo, turn>>

Die(slot) ==
    /\ slot \notin dead /\ slot \in live /\ faults < MaxFaults
    /\ dead' = dead \cup {slot} /\ faults' = faults + 1
    /\ work' = [work EXCEPT ![slot] = {}]
    /\ UNCHANGED <<client, outcome, requests, tracker, pools, out, kvSent, listed, distributed,
                    todo, turn>>

Delist(slot) ==
    /\ distributed /\ slot \in listed
    /\ \/ slot \in dead /\ UNCHANGED faults
       \/ slot \notin dead /\ faults < MaxFaults /\ faults' = faults + 1
    /\ listed' = listed \ {slot}
    /\ UNCHANGED <<client, outcome, requests, tracker, pools, engines, distributed, todo, turn>>

List(slot) ==
    /\ distributed /\ slot \notin listed /\ slot \notin dead
    /\ listed' = listed \cup {slot}
    /\ UNCHANGED <<client, outcome, requests, tracker, pools, engines, faults, distributed, todo, turn>>

-----------------------------------------------------------------------------
Step(c) == \/ PickReplica(c) \/ EndWait(c) \/ Sent(c)
           \/ CleanStart(c) \/ AbortInPool(c) \/ ReleaseInPool(c) \/ CleanEnd(c)
           \/ ReplyTo(c) \/ EvictReplica(c)

Handle == HandleAdd \/ HandleCompanion \/ HandleAbort

Next ==
    \/ \E r \in Requests : Submit(r) \/ Cancel(r)
    \/ Handle
    \/ \E c \in Coroutines : Step(c)
    \/ \E slot \in Slots :
           \/ Poll(slot) \/ PollDead(slot) \/ Unregister(slot)
           \/ Attach(slot) \/ Die(slot) \/ Delist(slot) \/ List(slot)
           \/ \E i \in Ids : Compute(slot, i) \/ ReportKV(slot, i)

\* The event loop runs every coroutine that can go on, the loop polls every
\* replica, engines end what they compute or die.
Fairness ==
    /\ WF_vars(Handle)
    /\ \A c \in Coroutines : WF_vars(Step(c))
    /\ \A slot \in Slots :
           /\ WF_vars(Poll(slot)) /\ WF_vars(PollDead(slot)) /\ WF_vars(Unregister(slot))
           /\ \A i \in Ids : WF_vars(Compute(slot, i))

OrchestratorSpec == Init /\ [][Next]_vars
FairSpec == OrchestratorSpec /\ Fairness

-----------------------------------------------------------------------------
\* Properties.

Frames == [op : {"pick", "wait", "send"}, id : Ids, stage : Stages]
    \cup [op : {"clean"}, ids : SUBSET Ids, abort : BOOLEAN]
    \cup [op : {"abort", "release"}, ids : SUBSET Ids, stage : Stages]
    \cup [op : {"finish"}, ids : SUBSET Ids]
    \cup [op : {"evict"}, stage : Stages, at : {k[2] : k \in Slots}]
    \cup [op : {"reply"}, ids : SUBSET Ids, kind : {"error", "aborted"}]
Outcomes == {"idle", "waiting", "ok", "empty", "error", "aborted"}
Messages == [type : {"add", "abort"}, id : Requests] \cup [type : {"companion"}, id : Companions]
Outputs == [id : Ids, kind : {"finished", "error"}] \cup [id : Requests, kind : {"kv_ready"}]

\* The types of the variables.
TypeOK ==
    /\ sent \subseteq Requests /\ cancelled \subseteq Requests
    /\ inbox \in Seq(Messages) /\ outcome \in [Requests -> Outcomes]
    /\ states \subseteq Ids
    /\ submitted \in [Ids -> SUBSET Stages] /\ finals \in [Ids -> SUBSET Stages]
    /\ registered \in [Requests -> SUBSET Companions] /\ done \subseteq Companions
    /\ pending \in [Requests -> (Stages \ {LastStage}) \cup {-1}]
    /\ route \in [Stages -> [Ids -> {k[2] : k \in Slots} \cup {NoReplica}]]
    /\ live \subseteq Slots /\ listed \subseteq Slots /\ dead \subseteq Slots
    /\ work \in [Slots -> SUBSET Ids] /\ out \in [Slots -> Seq(Outputs)]
    /\ kvSent \subseteq Requests
    /\ todo \in [Coroutines -> Seq(Frames)]
    /\ turn \in Coroutines \cup {Nobody} /\ faults \in 0 .. MaxFaults
    /\ distributed \in BOOLEAN

\* Where the submission of i to stage s stands: a coroutine looks for a replica,
\* an engine computes it, or an output of its end waits to be polled.
IsPick(f, i, s) == f.op \in {"pick", "wait"} /\ f.id = i /\ f.stage = s
FramesOf(i, s) ==
    UNION {{c} \X {n \in DOMAIN todo[c] : IsPick(todo[c][n], i, s)} : c \in Coroutines}
StageSlots(s) == {slot \in Slots : slot[1] = s}
Computing(i, s) == {slot \in StageSlots(s) : i \in work[slot]}
IsEnd(o, i) == o.id = i /\ o.kind # "kv_ready"
Answered(i, s) ==
    UNION {{slot} \X {n \in DOMAIN out[slot] : IsEnd(out[slot][n], i)} : slot \in StageSlots(s)}

\* No request is handed to a stage twice: the end of the stage before it, its
\* kv_ready report and the last companion's output may each hand it on.
DispatchedOnce ==
    \A i \in Ids, s \in Stages :
        /\ Cardinality(FramesOf(i, s)) + Cardinality(Computing(i, s))
             + Cardinality(Answered(i, s)) <= 1
        /\ s > 0 /\ s \in submitted[i] => FramesOf(i, s) = {}

\* Some engine, output or coroutine has the request in hand, or a replica that
\* died or left with it is about to be noticed.
InHand(i) ==
    \/ \E s \in Stages : FramesOf(i, s) # {} \/ Computing(i, s) # {} \/ Answered(i, s) # {}
    \/ \E c \in Coroutines : \E n \in DOMAIN todo[c] :
           "ids" \in DOMAIN todo[c][n] /\ i \in todo[c][n].ids
    \/ \E slot \in Slots :
           /\ route[slot[1]][i] = slot[2]
           /\ slot \in live \cap dead \/ (distributed /\ slot \notin listed)

\* A request that waits for its companions, and for which the client still
\* waits, waits for one that is on its way: nothing else would ever release it
\* (defer_parent).
NoStrandedParent ==
    turn = Nobody =>
        \A r \in Requests : pending[r] # -1 /\ outcome[r] = "waiting" =>
            /\ r \in states
            /\ \E c \in registered[r] \ done : c \in states /\ InHand(c)

\* No request is forgotten: as long as its state is kept somebody has it in
\* hand, and the state goes only with an answer.
NoLostRequest ==
    turn = Nobody =>
        \A r \in Requests :
            /\ r \in states => (InHand(r) \/ pending[r] # -1)
            /\ outcome[r] = "waiting" =>
                   \/ r \in states \/ InHand(r)
                   \/ \E n \in DOMAIN inbox : inbox[n].id = r

\* What the clients are promised.
LastOf(S) == CHOOSE s \in S : \A t \in S : t <= s
Reached == [r \in Requests |-> IF submitted[r] = {} THEN -1 ELSE LastOf(submitted[r])]
Promise == INSTANCE RequestService WITH reached <- Reached
ServesRequests == Promise!Service

\* Terminal state is monotonic: once a request reached a terminal state, no new
\* work for it is handed to a stage.
TerminalIsMonotonic ==
    [][\A i \in Ids : (\E slot \in Slots : i \in work'[slot] \ work[slot])
                          => outcome[Owner(i)] = "waiting"]_vars
=============================================================================
