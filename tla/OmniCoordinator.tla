-------------------------- MODULE OmniCoordinator --------------------------
(***************************************************************************)
(* The directory of stage replicas of vllm_omni/distributed/               *)
(* omni_coordinator: a stage client in every replica process that sends    *)
(* events (updates and heartbeats), the coordinator whose receive thread   *)
(* keeps the registry and whose periodic thread looks for silent replicas  *)
(* and publishes the list of those that are up, and the hub clients that   *)
(* keep the last list they got.                                            *)
(*                                                                         *)
(* An event is lost when the buffer of the socket is full or the process   *)
(* ends before it was sent; a list is lost when the send fails, when the   *)
(* pipe to a hub is full, or when the hub is not connected.  The events of *)
(* one address arrive in the order in which they were sent, also across a  *)
(* restart of the process behind it.  The queue length an event carries is *)
(* left out but for what a change of it causes.                            *)
(*                                                                         *)
(* A "variant" definition is a plausible mistake, see DiffusionScheduler.  *)
(***************************************************************************)
EXTENDS Integers, Sequences, FiniteSets

CONSTANTS
    Replicas,           \* input addresses
    Hubs,
    HeartbeatTimeout,   \* in ticks of the clock
    GcTtl,              \* gc_ttl, in ticks
    EventBuffer,        \* bound: events of one replica on their way
    ListBuffer          \* bound: lists on their way to one hub

ASSUME CoordinatorAssumption ==
    /\ HeartbeatTimeout \in Nat /\ GcTtl \in Nat /\ HeartbeatTimeout < GcTtl
    /\ EventBuffer \in Nat \ {0} /\ ListBuffer \in Nat \ {0}

Statuses == {"up", "down", "error"}
Oldest == GcTtl + 1     \* all ages beyond are alike

VARIABLES
    running,    \* the replicas whose process runs
    told,       \* the last status of which an update was sent, "none" without
    events,     \* on their way to the coordinator
    registry,   \* _replicas; an unknown address has status "unknown"
    pending,    \* _pending_broadcast
    flush,      \* where the periodic thread is: "idle", "send" or "clear"
    taken,      \* the replicas of the list it publishes
    joined,     \* the hubs that are connected
    lists,      \* lists on their way to a hub
    view        \* _replica_list of the hubs, empty before the first

stage == <<running, told>>
publisher == <<flush, taken>>
hubs == <<joined, lists, view>>
vars == <<stage, events, registry, pending, publisher, hubs>>

Entry(s, age) == [status |-> s, age |-> age]
Unknown == Entry("unknown", 0)

Init ==
    /\ running = {} /\ told = [r \in Replicas |-> "none"]
    /\ events = [r \in Replicas |-> <<>>]
    /\ registry = [r \in Replicas |-> Unknown]
    /\ pending = FALSE /\ flush = "idle" /\ taken = {}
    /\ joined = {} /\ lists = [h \in Hubs |-> <<>>] /\ view = [h \in Hubs |-> {}]

Up(r) == registry[r].status = "up"

\* variant: an unknown address is not told apart.
TakenAsKnown(r) == TRUE

Known(r) == registry[r].status # "unknown"
Older(n) == IF n = Oldest THEN n ELSE n + 1

\* A tick makes everything older.
Tick ==
    /\ registry' = [r \in Replicas |-> IF Known(r) THEN [registry[r] EXCEPT !.age = Older(@)]
                                       ELSE registry[r]]
    /\ UNCHANGED <<stage, events, pending, publisher, hubs>>

-----------------------------------------------------------------------------
\* The stage client.  An event is "heartbeat" or the status of an update.

Room(r) == Len(events[r]) < EventBuffer

\* _send_event: dropped when the buffer is full.
SendEvent(r, e) ==
    events' = IF Room(r) THEN [events EXCEPT ![r] = Append(@, e)] ELSE events

SendUpdate(r, s) ==
    /\ SendEvent(r, s)
    /\ told' = IF Room(r) THEN [told EXCEPT ![r] = s] ELSE told

\* A process starts, again perhaps, and registers.
Start(r) ==
    /\ r \notin running /\ running' = running \cup {r}
    /\ SendUpdate(r, "up")
    /\ UNCHANGED <<registry, pending, publisher, hubs>>

\* update_info.
Report(r) ==
    /\ r \in running
    /\ \E s \in Statuses : SendUpdate(r, s)
    /\ UNCHANGED <<running, registry, pending, publisher, hubs>>

\* A turn of _heartbeat_loop.
Heartbeat(r) ==
    /\ r \in running
    /\ SendEvent(r, "heartbeat")
    /\ UNCHANGED <<stage, registry, pending, publisher, hubs>>

\* The first n events of a closed socket reach the coordinator.
Prefix(es, n) == SubSeq(es, 1, n)

\* close: the last update says "down"; close(0) drops what was not sent yet.
Close(r) ==
    /\ r \in running /\ running' = running \ {r}
    /\ LET last == IF Room(r) THEN Append(events[r], "down") ELSE events[r] IN
       \E n \in 0 .. Len(last) :
           /\ events' = [events EXCEPT ![r] = Prefix(last, n)]
           /\ told' = [told EXCEPT ![r] = IF n > Len(events[r]) THEN "down" ELSE "none"]
    /\ UNCHANGED <<registry, pending, publisher, hubs>>

\* The process ends without a word.
Crash(r) ==
    /\ r \in running /\ running' = running \ {r}
    /\ \E n \in 0 .. Len(events[r]) : events' = [events EXCEPT ![r] = Prefix(@, n)]
    /\ told' = [told EXCEPT ![r] = "none"]
    /\ UNCHANGED <<registry, pending, publisher, hubs>>

-----------------------------------------------------------------------------
\* The receive thread of the coordinator: _handle_event.

\* variant: whatever was not up is up again.
PromoteAny(s) == "up"
\* variant: a silent replica stays an error for ever.
PromoteNone(s) == s

Promoted(s) == IF s = "error" THEN "up" ELSE s

\* An unknown address is ignored.  A new queue length asks for a broadcast.
HandleHeartbeat(r) ==
    \/ ~Known(r) /\ UNCHANGED <<registry, pending>>
    \/ /\ Known(r)
       /\ registry' = [registry EXCEPT ![r] = Entry(Promoted(@.status), 0)]
       /\ \E changed \in BOOLEAN :
              pending' = (pending \/ registry[r].status = "error" \/ changed)

\* An unknown address is registered; another update does not count as a
\* heartbeat.
HandleUpdate(r, s) ==
    /\ registry' = [registry EXCEPT ![r] = Entry(s, IF Known(r) THEN @.age ELSE 0)]
    /\ pending' = TRUE

Receive(r) ==
    /\ events[r] # <<>>
    /\ events' = [events EXCEPT ![r] = Tail(@)]
    /\ \/ Head(events[r]) = "heartbeat" /\ HandleHeartbeat(r)
       \/ Head(events[r]) # "heartbeat" /\ HandleUpdate(r, Head(events[r]))
    /\ UNCHANGED <<stage, publisher, hubs>>

-----------------------------------------------------------------------------
\* The periodic thread of the coordinator: _periodic_loop.

\* variant: only what changed is broadcast.
OnlyChanges == FALSE

\* A heartbeat check asks for a broadcast in any case: for hubs that connected
\* late, and for what was lost.
Keepalive == TRUE

\* variant: a silent replica stays up.
NeverSilent(r) == FALSE

Silent(r) == Up(r) /\ registry[r].age > HeartbeatTimeout
Expired(r) == registry[r].status \in {"down", "error"} /\ registry[r].age > GcTtl

\* _check_heartbeat_timeouts and the broadcast that follows.
Check ==
    /\ flush = "idle"
    /\ registry' = [r \in Replicas |->
                       IF Silent(r) THEN [registry[r] EXCEPT !.status = "error"]
                       ELSE IF Expired(r) THEN Unknown ELSE registry[r]]
    /\ pending' = (pending \/ Keepalive \/ \E r \in Replicas : Silent(r))
    /\ UNCHANGED <<stage, events, publisher, hubs>>

\* get_active_replicas, when a broadcast is pending.
TakeList ==
    /\ flush = "idle" /\ pending
    /\ taken' = {r \in Replicas : Up(r)} /\ flush' = "send"
    /\ UNCHANGED <<stage, events, registry, pending, hubs>>

\* The list holds the entries of the registry themselves: they are written out
\* as they are by now, and who reads the list skips those that are not up.
Published == {r \in taken : Up(r)}

SendFails ==
    /\ flush = "send"
    /\ flush' = "idle" /\ taken' = {}
    /\ UNCHANGED <<stage, events, registry, pending, hubs>>

\* The list goes to the hubs in S.
SendList(S) ==
    /\ flush = "send"
    /\ S \subseteq {h \in joined : Len(lists[h]) < ListBuffer}
    /\ lists' = [h \in Hubs |-> IF h \in S THEN Append(lists[h], Published) ELSE lists[h]]
    /\ flush' = "clear" /\ taken' = {}
    /\ UNCHANGED <<stage, events, registry, pending, joined, view>>

\* After a successful send.  A broadcast asked for since the list was taken
\* goes with it.
ClearPending ==
    /\ flush = "clear"
    /\ flush' = "idle" /\ pending' = FALSE
    /\ UNCHANGED <<stage, events, registry, taken, hubs>>

-----------------------------------------------------------------------------
\* The hub client.

Join(h) ==
    /\ h \notin joined /\ joined' = joined \cup {h}
    /\ UNCHANGED <<stage, events, registry, pending, publisher, lists, view>>

\* The connection breaks; the last list stays.
Disconnect(h) ==
    /\ h \in joined /\ joined' = joined \ {h}
    /\ lists' = [lists EXCEPT ![h] = <<>>]
    /\ UNCHANGED <<stage, events, registry, pending, publisher, view>>

ReceiveList(h) ==
    /\ lists[h] # <<>>
    /\ view' = [view EXCEPT ![h] = Head(lists[h])]
    /\ lists' = [lists EXCEPT ![h] = Tail(@)]
    /\ UNCHANGED <<stage, events, registry, pending, publisher, joined>>

-----------------------------------------------------------------------------
Publish == SendFails \/ \E S \in SUBSET joined : SendList(S)

Next ==
    \/ Tick \/ Check \/ TakeList \/ Publish \/ ClearPending
    \/ \E r \in Replicas : \/ Start(r) \/ Report(r) \/ Heartbeat(r)
                           \/ Close(r) \/ Crash(r) \/ Receive(r)
    \/ \E h \in Hubs : Join(h) \/ Disconnect(h) \/ ReceiveList(h)

\* Time passes, the threads run (a check comes around however often the loop
\* publishes), and a connected hub does not lose every list.
Fairness ==
    /\ WF_vars(Tick) /\ SF_vars(Check)
    /\ SF_vars(TakeList) /\ WF_vars(Publish) /\ WF_vars(ClearPending)
    /\ \A r \in Replicas : WF_vars(Heartbeat(r)) /\ WF_vars(Receive(r))
    /\ \A h \in Hubs :
           /\ WF_vars(ReceiveList(h))
           /\ SF_vars(\E S \in SUBSET joined : h \in S /\ SendList(S))

CoordinatorSpec == Init /\ [][Next]_vars
FairCoordinatorSpec == CoordinatorSpec /\ Fairness

-----------------------------------------------------------------------------
\* Properties.

\* The types of the variables; of an address the registry does not know
\* nothing is kept.
CoordinatorTypeOK ==
    /\ running \subseteq Replicas
    /\ told \in [Replicas -> Statuses \cup {"none"}]
    /\ events \in [Replicas -> Seq(Statuses \cup {"heartbeat"})]
    /\ registry \in [Replicas -> [status : Statuses \cup {"unknown"}, age : 0 .. Oldest]]
    /\ \A r \in Replicas : registry[r].status = "unknown" => registry[r] = Unknown
    /\ pending \in BOOLEAN /\ flush \in {"idle", "send", "clear"}
    /\ taken \subseteq Replicas /\ joined \subseteq Hubs
    /\ lists \in [Hubs -> Seq(SUBSET Replicas)]
    /\ view \in [Hubs -> SUBSET Replicas]

\* The places of the updates on their way.
Updates(r) == {n \in DOMAIN events[r] : events[r][n] # "heartbeat"}

\* Up and error follow from each other, by silence and heartbeats; down does not.
Agrees(status, word) == status = "unknown" \/ (status = "down" <=> word = "down")

\* The registry ends up with what a replica said last, and stays with it.  No
\* older update is behind it, over restarts as well, and once no update is on
\* its way no heartbeat, timeout or sequence of them brings back a replica
\* that said it is down, or keeps one down that said otherwise.
LastWordCounts ==
    \A r \in Replicas : told[r] # "none" =>
        \/ Updates(r) = {} /\ Agrees(registry[r].status, told[r])
        \/ \E n \in Updates(r) :
               events[r][n] = told[r] /\ \A m \in Updates(r) : m <= n

\* A hub that stays connected learns what lasts: a replica that stays up is in
\* its list for good in the end, one that stays away is not, whatever
\* broadcasts were lost, coalesced or overtaken by an event.
HubCatchesUp ==
    \A h \in Hubs, r \in Replicas :
        /\ <>[](h \in joined /\ Up(r)) => <>[](r \in view[h])
        /\ <>[](h \in joined /\ ~Up(r)) => <>[](r \notin view[h])

\* A silent replica that comes back is up again, as long as it is not
\* forgotten: its heartbeats lift the error that the timeout set.
SilenceIsForgiven ==
    \A r \in Replicas :
        <>[](r \in running /\ told[r] = "up" /\ registry[r].status \in {"up", "error"})
            => []<>Up(r)

\* A replica whose process is gone does not stay up, whether or not its last
\* word was received.
DeadIsDropped == \A r \in Replicas : <>[](r \notin running) => <>[]~Up(r)
=============================================================================
