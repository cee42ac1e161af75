------------------------ MODULE OmniCoordinatorProofs ------------------------
(***************************************************************************)
(* Theorems about OmniCoordinator, for any number of replicas and hubs,    *)
(* any timeouts and any buffer sizes.                                      *)
(***************************************************************************)
EXTENDS OmniCoordinator, SequenceTheorems, TLAPS

-----------------------------------------------------------------------------
(* Types.                                                                  *)

Event == Statuses \cup {"heartbeat"}

StageTypes ==
    /\ running \subseteq Replicas
    /\ told \in [Replicas -> Statuses \cup {"none"}]
    /\ events \in [Replicas -> Seq(Event)]

RegistryTypes ==
    /\ registry \in [Replicas -> [status : Statuses \cup {"unknown"}, age : 0 .. Oldest]]
    /\ \A r \in Replicas : registry[r].status = "unknown" => registry[r] = Unknown
    /\ pending \in BOOLEAN

HubTypes ==
    /\ flush \in {"idle", "send", "clear"}
    /\ taken \subseteq Replicas /\ joined \subseteq Hubs
    /\ lists \in [Hubs -> Seq(SUBSET Replicas)]
    /\ view \in [Hubs -> SUBSET Replicas]

Typed == StageTypes /\ RegistryTypes /\ HubTypes

LEMMA TypedInit == Init => Typed
<1> SUFFICES ASSUME Init PROVE Typed
  OBVIOUS
<1>1. StageTypes
  BY DEF Init, StageTypes, Statuses, Event
<1>2. RegistryTypes
  <2>1. Unknown \in [status : Statuses \cup {"unknown"}, age : 0 .. Oldest]
    BY CoordinatorAssumption DEF Unknown, Entry, Oldest, CoordinatorAssumption
  <2> QED BY <2>1 DEF Init, RegistryTypes
<1>3. HubTypes
  BY DEF Init, HubTypes
<1> QED BY <1>1, <1>2, <1>3 DEF Typed

\* What the stage clients do.
StageStep(r) == Start(r) \/ Report(r) \/ Heartbeat(r) \/ Close(r) \/ Crash(r)

LEMMA SendEventTypes ==
    ASSUME StageTypes, NEW r \in Replicas, NEW e \in Event, SendEvent(r, e)
    PROVE  events' \in [Replicas -> Seq(Event)]
<1>1. Append(events[r], e) \in Seq(Event)
  BY AppendProperties DEF StageTypes
<1> QED BY <1>1 DEF SendEvent, StageTypes

LEMMA PrefixTypes ==
    ASSUME NEW es \in Seq(Event), NEW n \in 0 .. Len(es)
    PROVE  Prefix(es, n) \in Seq(Event) /\ Len(Prefix(es, n)) = n
           /\ \A m \in 1 .. n : Prefix(es, n)[m] = es[m]
BY SubSeqProperties, LenProperties DEF Prefix

LEMMA StageTyped ==
    ASSUME Typed, NEW r \in Replicas, StageStep(r)
    PROVE  Typed'
<1> USE DEF Typed
<1>1. RegistryTypes' /\ HubTypes'
  BY DEF StageStep, Start, Report, Heartbeat, Close, Crash, RegistryTypes, HubTypes, publisher,
         hubs
<1>2. CASE Start(r) \/ Report(r)
  <2>1. PICK s \in Statuses : SendUpdate(r, s)
    BY <1>2 DEF Start, Report, Statuses
  <2>2. events' \in [Replicas -> Seq(Event)]
    BY <2>1, SendEventTypes DEF SendUpdate, Event
  <2>3. told' \in [Replicas -> Statuses \cup {"none"}] /\ running' \subseteq Replicas
    BY <1>2, <2>1 DEF Start, Report, SendUpdate, StageTypes
  <2> QED BY <1>1, <2>2, <2>3 DEF StageTypes
<1>3. CASE Heartbeat(r)
  BY <1>1, <1>3, SendEventTypes DEF Heartbeat, Event, stage, StageTypes
<1>4. CASE Close(r)
  <2>1. events[r] \in Seq(Event) /\ Append(events[r], "down") \in Seq(Event)
    BY AppendProperties DEF StageTypes, Event, Statuses
  <2> DEFINE last == IF Room(r) THEN Append(events[r], "down") ELSE events[r]
  <2>2. PICK n \in 0 .. Len(last) :
            /\ events' = [events EXCEPT ![r] = Prefix(last, n)]
            /\ told' = [told EXCEPT ![r] = IF n > Len(events[r]) THEN "down" ELSE "none"]
    BY <1>4 DEF Close
  <2>5. last \in Seq(Event)
    BY <2>1
  <2> HIDE DEF last
  <2>3. Prefix(last, n) \in Seq(Event)
    BY <2>5, PrefixTypes
  <2> QED BY <1>1, <1>4, <2>2, <2>3 DEF Close, StageTypes, Statuses
<1>5. CASE Crash(r)
  <2>1. PICK n \in 0 .. Len(events[r]) : events' = [events EXCEPT ![r] = Prefix(@, n)]
    BY <1>5 DEF Crash
  <2>2. Prefix(events[r], n) \in Seq(Event)
    BY PrefixTypes DEF StageTypes
  <2> QED BY <1>1, <1>5, <2>1, <2>2 DEF Crash, StageTypes
<1> QED BY <1>2, <1>3, <1>4, <1>5 DEF StageStep

LEMMA ReceiveTyped ==
    ASSUME Typed, NEW r \in Replicas, Receive(r)
    PROVE  Typed'
<1> USE DEF Typed
<1>1. events[r] \in Seq(Event) /\ events[r] # <<>>
  BY DEF Receive, StageTypes
<1>2. Head(events[r]) \in Event /\ Tail(events[r]) \in Seq(Event)
  BY <1>1, HeadTailProperties
<1>3. StageTypes'
  BY <1>2 DEF Receive, StageTypes, stage
<1>4. HubTypes'
  BY DEF Receive, HubTypes, publisher, hubs
<1>5. RegistryTypes'
  <2>1. CASE Head(events[r]) = "heartbeat"
    <3>1. CASE UNCHANGED <<registry, pending>>
      BY <3>1 DEF RegistryTypes
    <3>2. CASE /\ Known(r) /\ registry' = [registry EXCEPT ![r] = Entry(Promoted(@.status), 0)]
               /\ pending' \in BOOLEAN
      <4>1. registry[r].status \in Statuses
        BY <3>2 DEF Known, RegistryTypes
      <4>2. Entry(Promoted(registry[r].status), 0) \in [status : Statuses, age : 0 .. Oldest]
        BY <4>1, CoordinatorAssumption
           DEF Entry, Promoted, Statuses, Oldest, CoordinatorAssumption
      <4> QED BY <3>2, <4>2 DEF RegistryTypes, Statuses
    <3> QED BY <2>1, <3>1, <3>2 DEF Receive, HandleHeartbeat, RegistryTypes
  <2>2. CASE Head(events[r]) # "heartbeat"
    <3>1. PICK s \in Statuses : HandleUpdate(r, s)
      BY <1>2, <2>2 DEF Receive, Event
    <3>2. Entry(s, IF Known(r) THEN registry[r].age ELSE 0) \in [status : Statuses, age : 0 .. Oldest]
      BY CoordinatorAssumption DEF Entry, Oldest, RegistryTypes, CoordinatorAssumption
    <3> QED BY <3>1, <3>2 DEF HandleUpdate, RegistryTypes, Statuses
  <2> QED BY <2>1, <2>2
<1> QED BY <1>3, <1>4, <1>5

LEMMA CoordinatorTyped ==
    ASSUME Typed, Tick \/ Check \/ TakeList \/ Publish \/ ClearPending
                  \/ \E h \in Hubs : Join(h) \/ Disconnect(h) \/ ReceiveList(h)
    PROVE  Typed'
<1> USE DEF Typed
<1>1. CASE Tick
  <2>1. ASSUME NEW n \in 0 .. Oldest PROVE Older(n) \in 0 .. Oldest
    BY <2>1, CoordinatorAssumption DEF Older, Oldest, CoordinatorAssumption
  <2>2. RegistryTypes'
    BY <1>1, <2>1 DEF Tick, Known, RegistryTypes
  <2> QED BY <1>1, <2>2 DEF Tick, StageTypes, HubTypes, stage, publisher, hubs
<1>2. CASE Check
  <2>1. Unknown \in [status : Statuses \cup {"unknown"}, age : 0 .. Oldest]
    BY CoordinatorAssumption DEF Unknown, Entry, Oldest, CoordinatorAssumption
  <2>2. pending' \in BOOLEAN
    BY <1>2 DEF Check
  <2>3. \A r \in Replicas :
            /\ registry'[r] \in [status : Statuses \cup {"unknown"}, age : 0 .. Oldest]
            /\ registry'[r].status = "unknown" => registry'[r] = Unknown
    BY <1>2, <2>1 DEF Check, RegistryTypes, Statuses
  <2>4. registry' = [r \in Replicas |-> registry'[r]]
    BY <1>2 DEF Check
  <2>5. RegistryTypes'
    BY <2>2, <2>3, <2>4 DEF RegistryTypes
  <2> QED BY <1>2, <2>5 DEF Check, StageTypes, HubTypes, stage, publisher, hubs
<1>3. CASE TakeList \/ ClearPending \/ SendFails
  BY <1>3 DEF TakeList, ClearPending, SendFails, StageTypes, RegistryTypes, HubTypes, stage, hubs
<1>4. ASSUME NEW S, SendList(S) PROVE Typed'
  <2>1. ASSUME NEW h \in Hubs PROVE Append(lists[h], Published) \in Seq(SUBSET Replicas)
    BY AppendProperties DEF Published, HubTypes
  <2>2. lists' \in [Hubs -> Seq(SUBSET Replicas)]
    BY <1>4, <2>1 DEF SendList, HubTypes
  <2> QED BY <1>4, <2>2 DEF SendList, StageTypes, RegistryTypes, HubTypes, stage
<1>5. ASSUME NEW h \in Hubs, Join(h) \/ Disconnect(h) PROVE Typed'
  <2>1. <<>> \in Seq(SUBSET Replicas)
    OBVIOUS
  <2> QED BY <1>5, <2>1 DEF Join, Disconnect, StageTypes, RegistryTypes, HubTypes, stage, publisher
<1>6. ASSUME NEW h \in Hubs, ReceiveList(h) PROVE Typed'
  <2>1. Head(lists[h]) \in SUBSET Replicas /\ Tail(lists[h]) \in Seq(SUBSET Replicas)
    BY <1>6, HeadTailProperties DEF ReceiveList, HubTypes
  <2> QED BY <1>6, <2>1 DEF ReceiveList, StageTypes, RegistryTypes, HubTypes, stage, publisher
<1> QED BY <1>1, <1>2, <1>3, <1>4, <1>5, <1>6 DEF Publish

LEMMA TypedStep == Typed /\ [Next]_vars => Typed'
<1> SUFFICES ASSUME Typed, [Next]_vars PROVE Typed'
  OBVIOUS
<1>1. CASE UNCHANGED vars
  BY <1>1 DEF vars, stage, publisher, hubs, Typed, StageTypes, RegistryTypes, HubTypes
<1> QED BY <1>1, StageTyped, ReceiveTyped, CoordinatorTyped DEF Next, StageStep

\* The variables keep their types, and nothing is kept of a replica that the
\* registry does not know.
THEOREM CoordinatorTypeCorrect == CoordinatorSpec => []CoordinatorTypeOK
<1>1. Typed => CoordinatorTypeOK
  BY DEF Typed, StageTypes, RegistryTypes, HubTypes, CoordinatorTypeOK, Event
<1> QED BY <1>1, TypedInit, TypedStep, PTL DEF CoordinatorSpec

-----------------------------------------------------------------------------
(* What a replica said last is what counts.                                *)

\* The last update on its way is the word, or none is and the registry agrees.
LastWord(r, word) ==
    \/ /\ \A m \in DOMAIN events[r] : events[r][m] = "heartbeat"
       /\ Agrees(registry[r].status, word)
    \/ \E n \in DOMAIN events[r] :
           /\ events[r][n] = word
           /\ \A m \in DOMAIN events[r] : m > n => events[r][m] = "heartbeat"

WordInv == Typed /\ \A r \in Replicas : told[r] # "none" => LastWord(r, told[r])

\* An event goes to the end of those on their way.
LEMMA Appended ==
    ASSUME Typed, NEW r \in Replicas, NEW e \in Event, events'[r] = Append(events[r], e)
    PROVE  /\ Len(events[r]) \in Nat /\ DOMAIN events[r] = 1 .. Len(events[r])
           /\ DOMAIN events'[r] = 1 .. (Len(events[r]) + 1)
           /\ \A m \in 1 .. Len(events[r]) : events'[r][m] = events[r][m]
           /\ events'[r][Len(events[r]) + 1] = e
<1>1. events[r] \in Seq(Event)
  BY DEF Typed, StageTypes
<1> QED BY <1>1, AppendProperties, LenProperties

LEMMA HeartbeatKeepsWord ==
    ASSUME Typed, NEW r \in Replicas, NEW word \in Statuses, LastWord(r, word),
           events'[r] = Append(events[r], "heartbeat"), registry'[r] = registry[r]
    PROVE  LastWord(r, word)'
<1>1. /\ Len(events[r]) \in Nat /\ DOMAIN events[r] = 1 .. Len(events[r])
      /\ DOMAIN events'[r] = 1 .. (Len(events[r]) + 1)
      /\ \A m \in 1 .. Len(events[r]) : events'[r][m] = events[r][m]
      /\ events'[r][Len(events[r]) + 1] = "heartbeat"
  BY Appended DEF Event
<1>2. ASSUME NEW m \in DOMAIN events'[r]
      PROVE  m \in DOMAIN events[r] \/ events'[r][m] = "heartbeat"
  BY <1>1
<1> QED BY <1>1, <1>2 DEF LastWord, Agrees

LEMMA SayWord ==
    ASSUME Typed, NEW r \in Replicas, NEW word \in Statuses,
           events'[r] = Append(events[r], word)
    PROVE  LastWord(r, word)'
<1>1. /\ Len(events[r]) \in Nat /\ DOMAIN events'[r] = 1 .. (Len(events[r]) + 1)
      /\ events'[r][Len(events[r]) + 1] = word
  BY Appended DEF Event
<1>2. Len(events[r]) + 1 \in DOMAIN events'[r]
      /\ \A m \in DOMAIN events'[r] : ~(m > Len(events[r]) + 1)
  BY <1>1
<1> QED BY <1>1, <1>2 DEF LastWord

LEMMA ReceiveKeepsWord ==
    ASSUME Typed, NEW r \in Replicas, NEW word \in Statuses, LastWord(r, word), Receive(r)
    PROVE  LastWord(r, word)'
<1>1. events[r] \in Seq(Event) /\ events[r] # <<>> /\ events'[r] = Tail(events[r])
  BY DEF Receive, Typed, StageTypes
<1>2. /\ Len(events[r]) \in Nat \ {0} /\ DOMAIN events[r] = 1 .. Len(events[r])
      /\ DOMAIN events'[r] = 1 .. (Len(events[r]) - 1)
      /\ \A m \in DOMAIN events'[r] : events'[r][m] = events[r][m + 1]
      /\ Head(events[r]) = events[r][1]
  BY <1>1, HeadTailProperties, LenProperties, EmptySeq
<1>3. CASE \A m \in DOMAIN events[r] : events[r][m] = "heartbeat"
  <2>1. Head(events[r]) = "heartbeat" /\ \A m \in DOMAIN events'[r] : events'[r][m] = "heartbeat"
    <3>1. 1 \in DOMAIN events[r] /\ \A m \in DOMAIN events'[r] : m + 1 \in DOMAIN events[r]
      BY <1>2
    <3> QED BY <1>2, <1>3, <3>1
  <2>2. Agrees(registry[r].status, word)
    BY <1>3 DEF LastWord, Statuses
  <2>3. Agrees(registry'[r].status, word)
    <3>1. CASE registry' = registry
      BY <2>2, <3>1
    <3>2. CASE Known(r) /\ registry' = [registry EXCEPT ![r] = Entry(Promoted(@.status), 0)]
      <4>1. registry'[r].status = Promoted(registry[r].status)
        BY <3>2 DEF Entry, Typed, RegistryTypes
      <4> QED BY <2>2, <3>2, <4>1 DEF Agrees, Promoted, Known
    <3> QED BY <2>1, <3>1, <3>2 DEF Receive, HandleHeartbeat
  <2> QED BY <2>1, <2>3 DEF LastWord
<1>4. CASE \E n \in DOMAIN events[r] :
               /\ events[r][n] = word
               /\ \A m \in DOMAIN events[r] : m > n => events[r][m] = "heartbeat"
  <2>1. PICK n \in DOMAIN events[r] :
            /\ events[r][n] = word
            /\ \A m \in DOMAIN events[r] : m > n => events[r][m] = "heartbeat"
    BY <1>4
  <2>2. ASSUME NEW m \in DOMAIN events'[r], m > n - 1 PROVE events'[r][m] = "heartbeat"
    BY <1>2, <2>1, <2>2
  <2>3. CASE n > 1
    <3> n - 1 \in DOMAIN events'[r] /\ events'[r][n - 1] = word
      BY <1>2, <2>1, <2>3
    <3> QED BY <2>2 DEF LastWord
  <2>4. CASE n = 1
    <3>1. registry'[r].status = word
      BY <1>2, <2>1, <2>4 DEF Receive, HandleUpdate, Entry, Typed, RegistryTypes, Statuses
    <3>2. \A m \in DOMAIN events'[r] : events'[r][m] = "heartbeat"
      BY <1>2, <2>2, <2>4
    <3> QED BY <3>1, <3>2 DEF LastWord, Agrees
  <2> QED BY <1>2, <2>3, <2>4
<1> QED BY <1>3, <1>4 DEF LastWord

LEMMA WordStep == WordInv /\ [Next]_vars => WordInv'
<1> SUFFICES ASSUME WordInv, [Next]_vars PROVE WordInv'
  OBVIOUS
<1>0. Typed /\ Typed'
  BY TypedStep DEF WordInv
<1>1. ASSUME NEW r \in Replicas, told'[r] # "none" PROVE LastWord(r, told[r])'
  <2>0. told'[r] \in Statuses
    BY <1>0, <1>1 DEF Typed, StageTypes
  <2>1. ASSUME told'[r] = told[r], events'[r] = events[r],
               Agrees(registry[r].status, told[r]) => Agrees(registry'[r].status, told[r])
        PROVE  LastWord(r, told[r])'
    BY <1>1, <2>1 DEF WordInv, LastWord
  <2>2. ASSUME NEW q \in Replicas, StageStep(q) PROVE LastWord(r, told[r])'
    <3>1. registry' = registry
      BY <2>2 DEF StageStep, Start, Report, Heartbeat, Close, Crash
    <3>2. CASE q # r
      <4> told'[r] = told[r] /\ events'[r] = events[r]
        BY <2>2, <3>2, <1>0 DEF StageStep, Start, Report, Heartbeat, Close, Crash, SendUpdate,
                                SendEvent, stage, Typed, StageTypes
      <4> QED BY <2>1, <3>1
    <3>3. CASE q = r
      <4>1. ASSUME NEW s \in Statuses, SendUpdate(r, s) PROVE LastWord(r, told[r])'
        <5>1. CASE Room(r)
          <6> told'[r] = s /\ events'[r] = Append(events[r], s)
            BY <1>0, <4>1, <5>1 DEF SendUpdate, SendEvent, Typed, StageTypes
          <6> QED BY <1>0, SayWord
        <5>2. CASE ~Room(r)
          BY <2>1, <3>1, <4>1, <5>2 DEF SendUpdate, SendEvent
        <5> QED BY <5>1, <5>2
      <4>2. CASE Heartbeat(r)
        <5>1. told' = told
          BY <4>2 DEF Heartbeat, stage
        <5>2. CASE Room(r)
          <6>1. events'[r] = Append(events[r], "heartbeat")
            BY <1>0, <4>2, <5>2 DEF Heartbeat, SendEvent, Typed, StageTypes
          <6>2. told[r] \in Statuses /\ LastWord(r, told[r])
            BY <1>1, <2>0, <5>1 DEF WordInv
          <6> QED BY <1>0, <3>1, <5>1, <6>1, <6>2, HeartbeatKeepsWord
        <5>3. CASE ~Room(r)
          BY <2>1, <3>1, <4>2, <5>1, <5>3 DEF Heartbeat, SendEvent
        <5> QED BY <5>2, <5>3
      <4>3. CASE Close(r)
        <5> DEFINE last == IF Room(r) THEN Append(events[r], "down") ELSE events[r]
        <5>1. PICK n \in 0 .. Len(last) :
                  /\ events' = [events EXCEPT ![r] = Prefix(last, n)]
                  /\ told' = [told EXCEPT ![r] = IF n > Len(events[r]) THEN "down" ELSE "none"]
          BY <4>3 DEF Close
        <5>2. events[r] \in Seq(Event) /\ Len(events[r]) \in Nat /\ "down" \in Event
          BY <1>0, LenProperties DEF Typed, StageTypes, Event, Statuses
        <5>3. n > Len(events[r]) /\ told'[r] = "down"
          BY <1>0, <1>1, <5>1 DEF Typed, StageTypes
        <5>4. last = Append(events[r], "down") /\ Len(last) = Len(events[r]) + 1
              /\ last \in Seq(Event)
          BY <5>2, <5>3, AppendProperties
        <5>5. n = Len(last)
          BY <5>2, <5>3, <5>4
        <5>6. Prefix(last, n) = last
          BY <5>4, <5>5, SubSeqFull DEF Prefix
        <5>7. events'[r] = Append(events[r], "down")
          BY <1>0, <5>1, <5>4, <5>6 DEF Typed, StageTypes
        <5> QED BY <1>0, <2>0, <5>3, <5>7, SayWord
      <4>4. CASE Crash(r)
        BY <1>0, <1>1, <4>4 DEF Crash, Typed, StageTypes
      <4> QED BY <2>2, <3>3, <4>1, <4>2, <4>3, <4>4 DEF StageStep, Start, Report, Statuses
    <3> QED BY <3>2, <3>3
  <2>3. ASSUME NEW q \in Replicas, Receive(q) PROVE LastWord(r, told[r])'
    <3>1. told' = told /\ told[r] \in Statuses /\ LastWord(r, told[r])
      BY <1>1, <2>0, <2>3 DEF Receive, stage, WordInv
    <3>2. CASE q = r
      BY <1>0, <2>3, <3>1, <3>2, ReceiveKeepsWord
    <3>3. CASE q # r
      <4> events'[r] = events[r] /\ registry'[r] = registry[r]
        BY <1>0, <2>3, <3>3 DEF Receive, HandleHeartbeat, HandleUpdate, Typed, StageTypes,
                                RegistryTypes
      <4> QED BY <2>1, <3>1
    <3> QED BY <3>2, <3>3
  <2>4. CASE Tick \/ Check
    <3>1. told' = told /\ events' = events
      BY <2>4 DEF Tick, Check, stage
    <3>2. CASE Tick
      <4> registry'[r].status = registry[r].status
        BY <1>0, <3>2 DEF Tick, Typed, RegistryTypes
      <4> QED BY <2>1, <3>1
    <3>3. CASE Check
      <4> \/ registry'[r].status = registry[r].status
          \/ registry[r].status = "up" /\ registry'[r].status = "error"
          \/ registry'[r].status = "unknown"
        BY <1>0, <3>3 DEF Check, Silent, Up, Unknown, Entry, Typed, RegistryTypes
      <4> QED BY <2>1, <3>1 DEF Agrees
    <3> QED BY <2>4, <3>2, <3>3
  <2>5. CASE TakeList \/ Publish \/ ClearPending \/ UNCHANGED vars
             \/ \E h \in Hubs : Join(h) \/ Disconnect(h) \/ ReceiveList(h)
    <3> UNCHANGED <<told, events, registry>>
      BY <2>5 DEF TakeList, Publish, SendFails, SendList, ClearPending, Join, Disconnect,
                  ReceiveList, stage, vars
    <3> QED BY <2>1
  <2> QED BY <2>2, <2>3, <2>4, <2>5 DEF Next, StageStep
<1> QED BY <1>0, <1>1 DEF WordInv

\* For every number of replicas and every length of the buffers: what a replica
\* said last decides whether it is down, whatever was on its way or lost before
\* and whichever heartbeats and timeouts follow.
THEOREM LastWordStays == CoordinatorSpec => []LastWordCounts
<1>1. Init => WordInv
  BY TypedInit DEF Init, WordInv
<1>2. ASSUME WordInv, NEW r \in Replicas, told[r] # "none"
      PROVE  \/ Updates(r) = {} /\ Agrees(registry[r].status, told[r])
             \/ \E n \in Updates(r) : events[r][n] = told[r] /\ \A m \in Updates(r) : m <= n
  <2>1. /\ told[r] \in Statuses /\ LastWord(r, told[r])
        /\ Len(events[r]) \in Nat /\ DOMAIN events[r] = 1 .. Len(events[r])
    BY <1>2, LenProperties DEF WordInv, Typed, StageTypes
  <2>2. CASE \A m \in DOMAIN events[r] : events[r][m] = "heartbeat"
    BY <2>1, <2>2 DEF LastWord, Updates, Statuses
  <2>3. CASE \E n \in DOMAIN events[r] :
                 /\ events[r][n] = told[r]
                 /\ \A m \in DOMAIN events[r] : m > n => events[r][m] = "heartbeat"
    BY <2>1, <2>3 DEF Updates, Statuses
  <2> QED BY <2>1, <2>2, <2>3 DEF LastWord
<1>3. WordInv => LastWordCounts
  BY <1>2 DEF LastWordCounts
<1> QED BY <1>1, <1>3, WordStep, PTL DEF CoordinatorSpec
=============================================================================
