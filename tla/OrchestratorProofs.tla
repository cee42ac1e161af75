------------------------- MODULE OrchestratorProofs -------------------------
(***************************************************************************)
(* Theorems about Orchestrator, for any pipeline, any requests and their   *)
(* companions, any replicas, and any number of deaths and departures.      *)
(***************************************************************************)
EXTENDS Orchestrator, FiniteSetTheorems, SequenceTheorems, TLAPS

-----------------------------------------------------------------------------
(* Sequences: what the provers need to know of them.                       *)

\* The elements of a sequence.
Elements(s) == {s[n] : n \in DOMAIN s}

LEMMA ElementsOfOne == ASSUME NEW x PROVE Elements(<<x>>) = {x}
BY DEF Elements

LEMMA ElementsOfTwo == ASSUME NEW x, NEW y PROVE Elements(<<x, y>>) = {x, y}
BY DEF Elements

LEMMA ElementsOfConcat ==
    ASSUME NEW S, NEW s \in Seq(S), NEW t \in Seq(S)
    PROVE  Elements(s \o t) = Elements(s) \cup Elements(t)
<1>1. /\ DOMAIN (s \o t) = 1 .. Len(s) + Len(t)
      /\ \A n \in 1 .. Len(s) + Len(t) :
             (s \o t)[n] = IF n <= Len(s) THEN s[n] ELSE t[n - Len(s)]
    OBVIOUS
<1>2. \A n \in DOMAIN s : n \in DOMAIN (s \o t) /\ (s \o t)[n] = s[n]
    BY <1>1
<1>3. \A n \in DOMAIN t : /\ Len(s) + n \in DOMAIN (s \o t)
                          /\ (s \o t)[Len(s) + n] = t[n]
    BY <1>1
<1>4. \A n \in DOMAIN (s \o t) :
          \/ n \in DOMAIN s /\ (s \o t)[n] = s[n]
          \/ n - Len(s) \in DOMAIN t /\ (s \o t)[n] = t[n - Len(s)]
    BY <1>1
<1>5. \A x \in Elements(s \o t) : x \in Elements(s) \cup Elements(t)
    BY <1>4 DEF Elements
<1>6. \A x \in Elements(s) \cup Elements(t) : x \in Elements(s \o t)
    BY <1>2, <1>3 DEF Elements
<1> QED
    BY <1>5, <1>6

LEMMA ElementsOfTail ==
    ASSUME NEW S, NEW s \in Seq(S), s # <<>>
    PROVE  /\ Head(s) \in S /\ Tail(s) \in Seq(S)
           /\ Elements(s) = {Head(s)} \cup Elements(Tail(s))
<1>1. /\ Len(s) \in Nat /\ Len(s) > 0 /\ Head(s) = s[1] /\ Tail(s) \in Seq(S)
      /\ DOMAIN Tail(s) = 1 .. Len(s) - 1
      /\ \A n \in 1 .. Len(s) - 1 : Tail(s)[n] = s[n + 1]
    OBVIOUS
<1>2. \A n \in DOMAIN Tail(s) : n + 1 \in DOMAIN s /\ Tail(s)[n] = s[n + 1]
    BY <1>1
<1>3. \A n \in DOMAIN s : n = 1 \/ (n - 1 \in DOMAIN Tail(s) /\ s[n] = Tail(s)[n - 1])
    BY <1>1
<1>4. 1 \in DOMAIN s /\ Head(s) \in S
    BY <1>1
<1>5. \A x \in Elements(s) : x \in {Head(s)} \cup Elements(Tail(s))
    BY <1>1, <1>3 DEF Elements
<1>6. \A x \in {Head(s)} \cup Elements(Tail(s)) : x \in Elements(s)
    BY <1>1, <1>2, <1>4 DEF Elements
<1> QED
    BY <1>1, <1>4, <1>5, <1>6

LEMMA MessagesJoined ==
    ASSUME NEW s \in Seq(Messages), NEW t \in Seq(Messages)
    PROVE  s \o t \in Seq(Messages) /\ Elements(s \o t) = Elements(s) \cup Elements(t)
<1>1. s \o t \in Seq(Messages)
    BY ConcatProperties
<1>2. Elements(s \o t) = Elements(s) \cup Elements(t)
    BY ElementsOfConcat
<1> QED BY <1>1, <1>2

\* SetToSeq lists every element of a finite set once.
LEMMA SetToSeqOfFinite ==
    ASSUME NEW S, IsFiniteSet(S)
    PROVE  /\ SetToSeq(S) \in Seq(S)
           /\ Elements(SetToSeq(S)) = S
           /\ \A m, n \in DOMAIN SetToSeq(S) :
                  SetToSeq(S)[m] = SetToSeq(S)[n] => m = n
<1> DEFINE n == Cardinality(S)
<1>1. n \in Nat /\ ExistsBijection(1 .. n, S)
    BY FS_CardinalityType
<1>2. PICK b \in Bijection(1 .. n, S) : TRUE
    BY <1>1 DEF ExistsBijection
<1>3. b \in [1 .. n -> S] /\ IsInjective(b)
    BY <1>2 DEF Bijection, Injection, IsInjective
<1>4. SetToSeq(S) \in [1 .. n -> S] /\ IsInjective(SetToSeq(S))
    BY <1>3 DEF SetToSeq
<1>5. SetToSeq(S) \in Seq(S)
    BY <1>1, <1>4
<1>6. SetToSeq(S) \in Injection(1 .. n, S)
    BY <1>4 DEF Injection, IsInjective
<1>7. IsFiniteSet(1 .. n) /\ Cardinality(1 .. n) = n
    <2> HIDE DEF n
    <2> QED BY <1>1, FS_Interval
<1>8. SetToSeq(S) \in Surjection(1 .. n, S)
    BY <1>6, <1>7, FS_Injection
<1>9. Elements(SetToSeq(S)) = S
    BY <1>4, <1>8 DEF Elements, Surjection
<1> QED
    BY <1>4, <1>5, <1>9 DEF IsInjective

-----------------------------------------------------------------------------
(* Types.                                                                  *)

Submission == {"pick", "wait", "send"}

LEMMA ParentIs ==
    /\ \A c \in Companions : Parent[c] \in Requests
    /\ \A i \in Ids : Owner(i) \in Requests
    /\ \A s \in Stages : s \in Int /\ s >= 0 /\ s <= LastStage
    /\ 0 \in Stages /\ LastStage \in Stages
    /\ \A s \in Stages : s # LastStage => s + 1 \in Stages
BY OrchestratorAssumption DEF Owner, Ids, Stages

LEMMA SlotsArePairs ==
    ASSUME NEW slot \in Slots
    PROVE  /\ slot = <<slot[1], slot[2]>> /\ slot[1] \in Stages
           /\ slot[2] \in {k[2] : k \in Slots} /\ slot[2] # NoReplica
BY OrchestratorAssumption

\* What the constructors of frames make, and the fields of a frame.
LEMMA FrameMakers ==
    /\ \A i \in Ids, s \in Stages : {Pick(i, s), Wait(i, s), Send(i, s)} \subseteq Frames
    /\ \A ids \in SUBSET Ids, a \in BOOLEAN : Clean(ids, a) \in Frames
    /\ \A ids \in SUBSET Ids, s \in Stages :
           {AbortAt(ids, s), ReleaseAt(ids, s)} \subseteq Frames
    /\ \A ids \in SUBSET Ids : Finish(ids) \in Frames
    /\ \A slot \in Slots : Evict(slot[1], slot[2]) \in Frames
    /\ \A ids \in SUBSET Ids, kind \in {"error", "aborted"} : Reply(ids, kind) \in Frames
BY SlotsArePairs DEF Frames, Pick, Wait, Send, Clean, AbortAt, ReleaseAt, Finish, Evict, Reply

LEMMA FrameFields ==
    ASSUME NEW f \in Frames
    PROVE  /\ f.op \in Submission => f.id \in Ids /\ f.stage \in Stages
           /\ f.op = "clean" => f.ids \subseteq Ids /\ f.abort \in BOOLEAN
           /\ f.op \in {"abort", "release"} => f.ids \subseteq Ids /\ f.stage \in Stages
           /\ f.op \in {"finish", "reply"} => f.ids \subseteq Ids
           /\ f.op = "evict" => f.stage \in Stages /\ f.at \in {k[2] : k \in Slots}
           /\ f.op = "reply" => f.kind \in {"error", "aborted"}
BY DEF Frames, Submission

LEMMA AtFrame ==
    ASSUME TypeOK, NEW c \in Coroutines, NEW op, At(c, op)
    PROVE  /\ todo[c] \in Seq(Frames) /\ todo[c] # <<>>
           /\ Head(todo[c]) \in Frames /\ Head(todo[c]).op = op
           /\ Rest(c) \in Seq(Frames)
           /\ Elements(todo[c]) = {Head(todo[c])} \cup Elements(Rest(c))
<1>1. todo[c] \in Seq(Frames) /\ todo[c] # <<>>
    BY DEF TypeOK, At
<1> QED
    BY <1>1, ElementsOfTail DEF At, Rest

LEMMA Continued ==
    ASSUME TypeOK, NEW c \in Coroutines, NEW frames \in Seq(Frames), Continue(c, frames)
    PROVE  /\ todo' \in [Coroutines -> Seq(Frames)] /\ turn' \in Coroutines \cup {Nobody}
           /\ todo'[c] = frames /\ \A d \in Coroutines \ {c} : todo'[d] = todo[d]
BY DEF TypeOK, Continue

LEMMA ToldIs ==
    ASSUME TypeOK, NEW ids, NEW kind \in {"ok", "empty", "error", "aborted"}
    PROVE  Told(ids, kind) \in [Requests -> Outcomes]
BY DEF TypeOK, Told, Outcomes

\* One frame in place of the head, or in front of what is left.
LEMMA FramesInFront ==
    ASSUME NEW f \in Frames, NEW rest \in Seq(Frames)
    PROVE  /\ <<f>> \o rest \in Seq(Frames)
           /\ Elements(<<f>> \o rest) = {f} \cup Elements(rest)
           /\ Head(<<f>> \o rest) = f /\ Tail(<<f>> \o rest) = rest
<1>1. <<f>> \in Seq(Frames)
    OBVIOUS
<1>2. <<f>> \o rest \in Seq(Frames) /\ Len(<<f>> \o rest) = Len(rest) + 1
    BY <1>1
<1>3. Head(<<f>> \o rest) = f
    BY <1>1
<1>4. Tail(<<f>> \o rest) = rest
    <2> DEFINE s == <<f>> \o rest
    <2>1. s # <<>> /\ Len(rest) \in Nat
        BY <1>2
    <2>2. \A n \in 1 .. Len(rest) : s[n + 1] = rest[n]
        BY <1>2
    <2>3. s \in Seq(Frames) /\ Len(s) = Len(rest) + 1
        BY <1>2
    <2> HIDE DEF s
    <2>4. /\ Tail(s) \in Seq(Frames) /\ Len(Tail(s)) = Len(rest)
          /\ \A n \in 1 .. Len(Tail(s)) : Tail(s)[n] = rest[n]
        BY <2>1, <2>2, <2>3, HeadTailProperties
    <2>5. Tail(s) = rest
        BY <2>4, SeqEqual
    <2> QED BY <2>5 DEF s
<1>5. Elements(<<f>> \o rest) = {f} \cup Elements(rest)
    <2>1. Elements(<<f>>) = {f}
        BY ElementsOfOne
    <2>2. Elements(<<f>> \o rest) = Elements(<<f>>) \cup Elements(rest)
        BY <1>1, ElementsOfConcat
    <2> QED BY <2>1, <2>2
<1> QED
    BY <1>2, <1>3, <1>4, <1>5

LEMMA FailThenFrames ==
    ASSUME TypeOK, NEW c \in Coroutines, NEW i \in Ids, NEW following \in Seq(Frames),
           FailThen(c, i, following)
    PROVE  /\ outcome' = Told({Owner(i)}, "error") /\ outcome' \in [Requests -> Outcomes]
           /\ Clean({Owner(i)}, TRUE) \in Frames
           /\ Continue(c, <<Clean({Owner(i)}, TRUE)>> \o following)
           /\ <<Clean({Owner(i)}, TRUE)>> \o following \in Seq(Frames)
           /\ todo' \in [Coroutines -> Seq(Frames)] /\ turn' \in Coroutines \cup {Nobody}
           /\ todo'[c] = <<Clean({Owner(i)}, TRUE)>> \o following
           /\ Elements(todo'[c]) = {Clean({Owner(i)}, TRUE)} \cup Elements(following)
           /\ \A d \in Coroutines \ {c} : todo'[d] = todo[d]
<1>1. Owner(i) \in Ids
    BY ParentIs DEF Ids
<1>2. Clean({Owner(i)}, TRUE) \in Frames
    BY <1>1, FrameMakers
<1>3. outcome' \in [Requests -> Outcomes]
    BY ToldIs DEF FailThen
<1>4. /\ <<Clean({Owner(i)}, TRUE)>> \o following \in Seq(Frames)
      /\ Elements(<<Clean({Owner(i)}, TRUE)>> \o following)
             = {Clean({Owner(i)}, TRUE)} \cup Elements(following)
    BY <1>2, FramesInFront
<1> QED
    BY <1>2, <1>3, <1>4, Continued DEF FailThen

\* A conjunct of TypeOK that no step but the named ones disturbs.
LEMMA InitTyped == Init => TypeOK
<1> SUFFICES ASSUME Init PROVE TypeOK
    OBVIOUS
<1>1. \A S : <<>> \in Seq(S)
    OBVIOUS
<1>2. route \in [Stages -> [Ids -> {k[2] : k \in Slots} \cup {NoReplica}]]
    BY DEF Init
<1>3. out \in [Slots -> Seq(Outputs)] /\ todo \in [Coroutines -> Seq(Frames)]
    BY <1>1 DEF Init
<1> QED
    BY <1>1, <1>2, <1>3, OrchestratorAssumption DEF Init, TypeOK, Outcomes

\* Messages of a submission: the request, and then its companions.
CompanionMessages(r) == {[type |-> "companion", id |-> c] : c \in CompanionsOf(r)}

LEMMA MessagesOfSubmit ==
    ASSUME NEW r \in Requests
    PROVE  /\ IsFiniteSet(CompanionMessages(r))
           /\ CompanionMessages(r) \subseteq Messages
           /\ SetToSeq(CompanionMessages(r)) \in Seq(Messages)
           /\ Elements(SetToSeq(CompanionMessages(r))) = CompanionMessages(r)
<1>1. IsFiniteSet(CompanionsOf(r))
    <2>1. CompanionsOf(r) \subseteq Ids
        BY DEF CompanionsOf, Ids
    <2> QED BY <2>1, FS_Subset, OrchestratorAssumption
<1>2. IsFiniteSet(CompanionMessages(r))
    <2> DEFINE f == [c \in CompanionsOf(r) |-> [type |-> "companion", id |-> c]]
    <2>1. f \in Surjection(CompanionsOf(r), CompanionMessages(r))
        BY DEF CompanionMessages, Surjection
    <2> QED BY <1>1, <2>1, FS_Surjection
<1>3. CompanionMessages(r) \subseteq Messages
    BY DEF CompanionMessages, CompanionsOf, Messages, Ids
<1>4. SetToSeq(CompanionMessages(r)) \in Seq(CompanionMessages(r))
    BY <1>2, SetToSeqOfFinite
<1>5. SetToSeq(CompanionMessages(r)) \in Seq(Messages)
    BY <1>3, <1>4, SeqMonotonic
<1> QED
    BY <1>2, <1>3, <1>5, SetToSeqOfFinite

LEMMA DispatchTyped ==
    ASSUME TypeOK, NEW c \in Coroutines, At(c, "pick") \/ At(c, "wait"),
           NEW k, k \in Serviceable(Head(todo[c]).stage),
           Dispatch(c, Head(todo[c]).id, Head(todo[c]).stage, k)
    PROVE  /\ outcome' \in [Requests -> Outcomes]
           /\ route' \in [Stages -> [Ids -> {m[2] : m \in Slots} \cup {NoReplica}]]
           /\ work' \in [Slots -> SUBSET Ids]
           /\ todo' \in [Coroutines -> Seq(Frames)] /\ turn' \in Coroutines \cup {Nobody}
<1> DEFINE i == Head(todo[c]).id
           s == Head(todo[c]).stage
<1>1. i \in Ids /\ s \in Stages /\ Rest(c) \in Seq(Frames)
    BY AtFrame, FrameFields DEF Submission
<1>2. <<s, k>> \in Slots /\ k \in {m[2] : m \in Slots}
    BY SlotsArePairs DEF Serviceable, Live, ReplicasOf, TypeOK
<1> HIDE DEF i, s
<1>3. CASE /\ route' = [route EXCEPT ![s][i] = k]
           /\ work' = IF <<s, k>> \in dead THEN work
                      ELSE [work EXCEPT ![<<s, k>>] = @ \cup {i}]
           /\ Continue(c, <<Send(i, s)>> \o Rest(c))
           /\ UNCHANGED outcome
    <2>1. <<Send(i, s)>> \o Rest(c) \in Seq(Frames)
        BY <1>1, FrameMakers, FramesInFront
    <2>2. route' \in [Stages -> [Ids -> {m[2] : m \in Slots} \cup {NoReplica}]]
        BY <1>1, <1>2, <1>3 DEF TypeOK
    <2>3. work' \in [Slots -> SUBSET Ids]
        BY <1>1, <1>2, <1>3 DEF TypeOK
    <2> QED BY <1>3, <2>1, <2>2, <2>3, Continued DEF TypeOK
<1>4. ASSUME NEW b \in {k, NoReplica}, route' = [route EXCEPT ![s][i] = b],
             FailThen(c, i, (IF b = k THEN <<Evict(s, k)>> ELSE <<>>) \o Rest(c)),
             work' = work
      PROVE  /\ outcome' \in [Requests -> Outcomes]
             /\ route' \in [Stages -> [Ids -> {m[2] : m \in Slots} \cup {NoReplica}]]
             /\ work' \in [Slots -> SUBSET Ids]
             /\ todo' \in [Coroutines -> Seq(Frames)] /\ turn' \in Coroutines \cup {Nobody}
    <2>1. (IF b = k THEN <<Evict(s, k)>> ELSE <<>>) \o Rest(c) \in Seq(Frames)
        <3>1. Evict(s, k) \in Frames
            BY <1>1, <1>2 DEF Evict, Frames
        <3>2. <<Evict(s, k)>> \o Rest(c) \in Seq(Frames)
            BY <1>1, <3>1, FramesInFront
        <3>3. <<>> \o Rest(c) = Rest(c)
            BY <1>1, ConcatEmptySeq
        <3> QED BY <1>1, <3>2, <3>3
    <2>2. route' \in [Stages -> [Ids -> {m[2] : m \in Slots} \cup {NoReplica}]]
        BY <1>1, <1>2, <1>4 DEF TypeOK
    <2> QED BY <1>1, <1>4, <2>1, <2>2, FailThenFrames DEF TypeOK
<1> QED
    BY <1>3, <1>4 DEF Dispatch, i, s

LEMMA NoReplicaForTyped ==
    ASSUME TypeOK, NEW c \in Coroutines, At(c, "pick") \/ At(c, "wait"),
           NoReplicaFor(c, Head(todo[c]).id)
    PROVE  /\ outcome' \in [Requests -> Outcomes] /\ UNCHANGED <<route, work>>
           /\ todo' \in [Coroutines -> Seq(Frames)] /\ turn' \in Coroutines \cup {Nobody}
<1>1. Head(todo[c]).id \in Ids /\ Rest(c) \in Seq(Frames)
    BY AtFrame, FrameFields DEF Submission
<1> QED
    BY <1>1, FailThenFrames DEF NoReplicaFor

LEMMA CandidatesServe ==
    ASSUME NEW i, NEW s PROVE Candidates(i, s) \subseteq Serviceable(s)
BY DEF Candidates

\* The batch that CleanStart works on.
Batch(ids) == LET orphaned == Orphaned(ids)
                  parents == (ids \cup orphaned) \cap Requests
              IN  ids \cup orphaned \cup UNION {registered[p] : p \in parents}
Parents(ids) == (ids \cup Orphaned(ids)) \cap Requests

LEMMA BatchTyped ==
    ASSUME TypeOK, NEW ids \in SUBSET Ids
    PROVE  /\ Orphaned(ids) \subseteq Requests /\ Parents(ids) \subseteq Requests
           /\ Batch(ids) \subseteq Ids
BY ParentIs DEF TypeOK, Orphaned, IsCompanion, Batch, Parents, Ids

\* CleanStart, with its batch and frames named.
CleanNext(f) == IF f.abort THEN AbortAt(Batch(f.ids), 0) ELSE Finish(Batch(f.ids))

LEMMA CleanStartIs ==
    ASSUME TypeOK, NEW c \in Coroutines, CleanStart(c)
    PROVE  LET f == Head(todo[c]) IN
           /\ f \in Frames /\ f.op = "clean" /\ f.ids \subseteq Ids
           /\ outcome' = Told(Orphaned(f.ids), "error")
           /\ registered' = [r \in Requests |-> IF r \in Parents(f.ids) THEN {} ELSE registered[r]]
           /\ done' = done \ UNION {registered[p] : p \in Parents(f.ids)}
           /\ pending' = [r \in Requests |-> IF r \in Parents(f.ids) THEN -1 ELSE pending[r]]
           /\ Batch(f.ids) \subseteq Ids /\ CleanNext(f) \in Frames
           /\ Continue(c, <<CleanNext(f)>> \o Rest(c))
           /\ <<CleanNext(f)>> \o Rest(c) \in Seq(Frames)
<1> DEFINE f == Head(todo[c])
<1>1. At(c, "clean")
    BY DEF CleanStart
<1>2. f \in Frames /\ f.op = "clean" /\ f.ids \subseteq Ids /\ Rest(c) \in Seq(Frames)
    BY <1>1, AtFrame, FrameFields
<1>3. Batch(f.ids) \subseteq Ids
    BY <1>2, BatchTyped
<1>4. CleanNext(f) \in Frames
    BY <1>3, FrameMakers, ParentIs DEF CleanNext
<1>5. <<CleanNext(f)>> \o Rest(c) \in Seq(Frames)
    BY <1>2, <1>4, FramesInFront
<1>6. <<CleanNext(f)>> = IF f.abort THEN <<AbortAt(Batch(f.ids), 0)>> ELSE <<Finish(Batch(f.ids))>>
    BY DEF CleanNext
<1>7. /\ outcome' = Told(Orphaned(f.ids), "error")
      /\ registered' = [r \in Requests |-> IF r \in Parents(f.ids) THEN {} ELSE registered[r]]
      /\ done' = done \ UNION {registered[p] : p \in Parents(f.ids)}
      /\ pending' = [r \in Requests |-> IF r \in Parents(f.ids) THEN -1 ELSE pending[r]]
      /\ Continue(c, (IF f.abort THEN <<AbortAt(Batch(f.ids), 0)>>
                      ELSE <<Finish(Batch(f.ids))>>) \o Rest(c))
    BY DEF CleanStart, Batch, Parents
<1> QED
    BY <1>2, <1>3, <1>4, <1>5, <1>6, <1>7

LEMMA UnboundTyped ==
    ASSUME TypeOK, NEW ids, NEW s \in Stages
    PROVE  Unbound(ids, s) \in [Stages -> [Ids -> {m[2] : m \in Slots} \cup {NoReplica}]]
BY DEF TypeOK, Unbound

LEMMA DisconnectTyped ==
    ASSUME TypeOK, NEW slot, Disconnect(slot)
    PROVE  /\ live' \subseteq Slots /\ work' \in [Slots -> SUBSET Ids]
           /\ out' \in [Slots -> Seq(Outputs)]
<1>1. <<>> \in Seq(Outputs)
    OBVIOUS
<1> QED BY <1>1 DEF TypeOK, Disconnect

\* The frames of an eviction: a clean-up for each victim, requests first.
Victims(f) == {i \in states : /\ f.stage \in submitted[i]
                              /\ (route[f.stage][i] = f.at \/ Live(f.stage) = {f.at})}
Order(f) == SetToSeq(Victims(f) \cap Requests) \o SetToSeq(Victims(f) \cap Companions)
Cleanings(f) == [n \in DOMAIN Order(f) |-> Clean({Order(f)[n]}, TRUE)]

LEMMA CleaningsAre ==
    ASSUME TypeOK, NEW f
    PROVE  /\ Cleanings(f) \in Seq(Frames)
           /\ Elements(Cleanings(f)) = {Clean({i}, TRUE) : i \in Victims(f)}
<1>1. Victims(f) \subseteq Ids
    BY DEF Victims, TypeOK
<1> HIDE DEF Victims
<1>2. /\ IsFiniteSet(Victims(f) \cap Requests) /\ IsFiniteSet(Victims(f) \cap Companions)
    BY <1>1, OrchestratorAssumption, FS_Subset DEF Ids
<1>3. /\ SetToSeq(Victims(f) \cap Requests) \in Seq(Victims(f) \cap Requests)
      /\ Elements(SetToSeq(Victims(f) \cap Requests)) = Victims(f) \cap Requests
      /\ SetToSeq(Victims(f) \cap Companions) \in Seq(Victims(f) \cap Companions)
      /\ Elements(SetToSeq(Victims(f) \cap Companions)) = Victims(f) \cap Companions
    BY <1>2, SetToSeqOfFinite
<1>4. /\ SetToSeq(Victims(f) \cap Requests) \in Seq(Ids)
      /\ SetToSeq(Victims(f) \cap Companions) \in Seq(Ids)
    BY <1>1, <1>3, SeqMonotonic
<1>5. Order(f) \in Seq(Ids) /\ Elements(Order(f)) = Victims(f)
    <2>1. Order(f) \in Seq(Ids)
        BY <1>4 DEF Order
    <2>2. Elements(Order(f)) = Elements(SetToSeq(Victims(f) \cap Requests))
                                   \cup Elements(SetToSeq(Victims(f) \cap Companions))
        BY <1>4, ElementsOfConcat DEF Order
    <2>3. Elements(Order(f)) = (Victims(f) \cap Requests) \cup (Victims(f) \cap Companions)
        BY <1>3, <2>2
    <2> QED BY <1>1, <2>1, <2>3 DEF Ids
<1> HIDE DEF Order
<1>6. DOMAIN Order(f) = 1 .. Len(Order(f)) /\ Len(Order(f)) \in Nat
      /\ \A n \in DOMAIN Order(f) : Order(f)[n] \in Ids
    BY <1>5
<1>7. \A n \in DOMAIN Order(f) : Clean({Order(f)[n]}, TRUE) \in Frames
    BY <1>6, FrameMakers
<1>8. Cleanings(f) \in [1 .. Len(Order(f)) -> Frames]
    BY <1>6, <1>7 DEF Cleanings
<1>9. Elements(Cleanings(f)) = {Clean({i}, TRUE) : i \in Victims(f)}
    <2>1. DOMAIN Cleanings(f) = DOMAIN Order(f)
          /\ \A n \in DOMAIN Order(f) : Cleanings(f)[n] = Clean({Order(f)[n]}, TRUE)
        BY DEF Cleanings
    <2>2. Victims(f) = {Order(f)[n] : n \in DOMAIN Order(f)}
        BY <1>5 DEF Elements
    <2>3. \A x \in Elements(Cleanings(f)) : x \in {Clean({i}, TRUE) : i \in Victims(f)}
        BY <2>1, <2>2 DEF Elements
    <2>4. \A x \in {Clean({i}, TRUE) : i \in Victims(f)} : x \in Elements(Cleanings(f))
        BY <2>1, <2>2 DEF Elements
    <2> QED BY <2>3, <2>4
<1> QED
    BY <1>6, <1>8, <1>9

LEMMA FrameAlone ==
    ASSUME NEW f \in Frames
    PROVE  /\ <<f>> \in Seq(Frames) /\ Elements(<<f>>) = {f} /\ Head(<<f>>) = f
           /\ Tail(<<f>>) = <<>> /\ Elements(<<>>) = {} /\ <<>> \in Seq(Frames)
<1>1. <<f>> \in Seq(Frames) /\ Head(<<f>>) = f /\ <<>> \in Seq(Frames)
    OBVIOUS
<1>2. Tail(<<f>>) \in Seq(Frames) /\ Len(Tail(<<f>>)) = 0
    BY <1>1, HeadTailProperties
<1>3. Tail(<<f>>) = <<>>
    BY <1>2, EmptySeq
<1>4. Elements(<<>>) = {}
    BY DEF Elements
<1> QED
    BY <1>1, <1>3, <1>4, ElementsOfOne

LEMMA ForwardTyped ==
    ASSUME TypeOK, NEW r \in Requests, NEW s \in Stages \ {LastStage},
           NEW following \in Seq(Frames), Forward(r, s, following)
    PROVE  /\ outcome' \in [Requests -> Outcomes]
           /\ todo' \in [Coroutines -> Seq(Frames)] /\ turn' \in Coroutines \cup {Nobody}
<1>1. r \in Ids /\ s + 1 \in Stages /\ "loop" \in Coroutines
    BY ParentIs DEF Ids, Coroutines
<1>2. /\ <<Pick(r, s + 1)>> \o following \in Seq(Frames)
      /\ <<Clean({r}, FALSE)>> \o following \in Seq(Frames)
    BY <1>1, FrameMakers, FramesInFront
<1>3. CASE FailThen("loop", r, following)
    BY <1>1, <1>3, FailThenFrames
<1>4. CASE Continue("loop", <<Pick(r, s + 1)>> \o following) /\ UNCHANGED outcome
    BY <1>1, <1>2, <1>4, Continued DEF TypeOK
<1>5. CASE /\ outcome' = Told({r}, IF s + 1 \in Diffusion THEN "error" ELSE "empty")
           /\ Continue("loop", <<Clean({r}, FALSE)>> \o following)
    BY <1>1, <1>2, <1>5, Continued, ToldIs
<1> QED
    BY <1>3, <1>4, <1>5 DEF Forward

LEMMA HandOnTyped ==
    ASSUME TypeOK, NEW r \in Requests, NEW s \in Stages \ {LastStage},
           NEW following \in Seq(Frames), HandOn(r, s, following)
    PROVE  /\ outcome' \in [Requests -> Outcomes]
           /\ pending' \in [Requests -> (Stages \ {LastStage}) \cup {-1}]
           /\ todo' \in [Coroutines -> Seq(Frames)] /\ turn' \in Coroutines \cup {Nobody}
<1>1. CASE pending' = [pending EXCEPT ![r] = s] /\ Continue("loop", following) /\ UNCHANGED outcome
    BY <1>1, Continued DEF TypeOK, Coroutines
<1>2. CASE Forward(r, s, following) /\ UNCHANGED pending
    BY <1>2, ForwardTyped DEF TypeOK
<1> QED
    BY <1>1, <1>2 DEF HandOn

\* What routing an output leaves well typed.
RoutingTyped ==
    /\ outcome \in [Requests -> Outcomes]
    /\ finals \in [Ids -> SUBSET Stages]
    /\ registered \in [Requests -> SUBSET Companions] /\ done \subseteq Companions
    /\ pending \in [Requests -> (Stages \ {LastStage}) \cup {-1}]
    /\ todo \in [Coroutines -> Seq(Frames)] /\ turn \in Coroutines \cup {Nobody}

Routing(i, kind, s) ==
    \/ Ignore
    \/ RouteError(i)
    \/ kind = "kv_ready" /\ i \in Requests /\ RouteKVReady(i, s)
    \/ IsCompanion(i) /\ RouteCompanion(i)
    \/ ~IsCompanion(i) /\ RouteFinished(i, s)

LEMMA RoutingKeepsTypes ==
    ASSUME TypeOK, NEW i \in Ids, NEW kind, NEW s \in Stages, Routing(i, kind, s)
    PROVE  RoutingTyped'
<1> USE DEF RoutingTyped
<1>a. "loop" \in Coroutines /\ <<>> \in Seq(Frames)
    BY FrameAlone, EmptySeq DEF Coroutines
<1>b. \A r \in Ids, a \in BOOLEAN : <<Clean({r}, a)>> \in Seq(Frames)
    BY FrameMakers
<1>1. CASE Ignore
    BY <1>1, <1>a, Continued DEF Ignore, TypeOK, tracker
<1>2. CASE RouteError(i)
    <2>1. (IF IsCompanion(i) THEN Parent[i] ELSE i) \in Ids
        BY ParentIs DEF IsCompanion, Ids
    <2> QED BY <1>2, <1>a, <1>b, <2>1, Continued, ToldIs DEF RouteError, TypeOK, tracker
<1>3. CASE i \in Requests /\ RouteKVReady(i, s)
    <2>1. CASE Ignore
        BY <2>1, <1>1
    <2>2. CASE s < LastStage /\ HandOn(i, s, <<>>) /\ UNCHANGED <<registered, done, finals>>
        <3>1. s \in Stages \ {LastStage}
            BY <2>2, ParentIs
        <3> QED BY <1>3, <2>2, <3>1, <1>a, HandOnTyped DEF TypeOK
    <2> QED BY <1>3, <2>1, <2>2 DEF RouteKVReady
<1>4. CASE IsCompanion(i) /\ RouteCompanion(i)
    <2> DEFINE p == Parent[i]
    <2>1. i \in Companions /\ p \in Requests
        BY <1>4, ParentIs DEF IsCompanion
    <2>2. done' \subseteq Companions /\ UNCHANGED <<registered, finals>>
        BY <1>4, <2>1 DEF RouteCompanion, TypeOK
    <2>3. <<Clean({i}, FALSE)>> \in Seq(Frames)
        BY <1>b
    <2>4. /\ outcome' \in [Requests -> Outcomes]
          /\ pending' \in [Requests -> (Stages \ {LastStage}) \cup {-1}]
          /\ todo' \in [Coroutines -> Seq(Frames)] /\ turn' \in Coroutines \cup {Nobody}
        <3>1. CASE /\ pending[p] # -1 /\ pending' = [pending EXCEPT ![p] = -1]
                   /\ Forward(p, pending[p], <<Clean({i}, FALSE)>>)
            <4>1. pending[p] \in Stages \ {LastStage}
                BY <3>1, <2>1 DEF TypeOK
            <4>2. pending' \in [Requests -> (Stages \ {LastStage}) \cup {-1}]
                BY <3>1 DEF TypeOK
            <4> QED BY <3>1, <4>1, <4>2, <2>1, <2>3, ForwardTyped
        <3>2. CASE /\ pending' = [pending EXCEPT ![p] = -1] \/ pending' = pending
                   /\ Continue("loop", <<Clean({i}, FALSE)>>) /\ UNCHANGED outcome
            BY <3>2, <1>a, <2>3, Continued DEF TypeOK
        <3> QED BY <1>4, <3>1, <3>2 DEF RouteCompanion
    <2> QED BY <2>2, <2>4 DEF TypeOK
<1>5. CASE ~IsCompanion(i) /\ RouteFinished(i, s)
    <2>1. finals' \in [Ids -> SUBSET Stages] /\ UNCHANGED <<registered, done>>
        BY <1>5 DEF RouteFinished, TypeOK
    <2>2. CASE s < Final(i) /\ HandOn(i, s, <<>>)
        <3>1. i \in Requests /\ s \in Stages \ {LastStage}
            BY <2>2, ParentIs DEF Final, Ids
        <3> QED BY <2>1, <2>2, <3>1, <1>a, HandOnTyped DEF TypeOK
    <2>3. ASSUME NEW complete \in BOOLEAN,
                 outcome' = IF complete THEN Told({i}, "ok") ELSE outcome,
                 Continue("loop", IF complete THEN <<Clean({i}, FALSE)>> ELSE <<>>),
                 UNCHANGED pending
          PROVE  RoutingTyped'
        BY <2>1, <2>3, <1>a, <1>b, Continued, ToldIs DEF TypeOK
    <2> QED BY <1>5, <2>2, <2>3 DEF RouteFinished
<1> QED
    BY <1>1, <1>2, <1>3, <1>4, <1>5 DEF Routing

LEMMA PollIs ==
    ASSUME TypeOK, NEW slot \in Slots, Poll(slot)
    PROVE  LET o == Head(out[slot]) IN
           /\ Idle("loop") /\ slot \in live /\ out[slot] # <<>>
           /\ o \in Outputs /\ o.id \in Ids /\ slot[1] \in Stages
           /\ Elements(out[slot]) = {o} \cup Elements(Tail(out[slot]))
           /\ \/ o.id \notin states /\ Ignore
              \/ o.id \in states /\ Routing(o.id, o.kind, slot[1])
           /\ out' = [out EXCEPT ![slot] = Tail(@)] /\ out' \in [Slots -> Seq(Outputs)]
           /\ UNCHANGED <<client, states, submitted, pools, dead, work, kvSent, environment>>
<1> DEFINE o == Head(out[slot])
<1>1. /\ Idle("loop") /\ slot \in live /\ out[slot] # <<>>
      /\ out' = [out EXCEPT ![slot] = Tail(@)]
      /\ UNCHANGED <<client, states, submitted, pools, dead, work, kvSent, environment>>
    BY DEF Poll
<1>2. /\ o \in Outputs /\ Tail(out[slot]) \in Seq(Outputs)
      /\ Elements(out[slot]) = {o} \cup Elements(Tail(out[slot]))
    BY <1>1, ElementsOfTail DEF TypeOK
<1>3. out' \in [Slots -> Seq(Outputs)]
    BY <1>1, <1>2 DEF TypeOK
<1>4. o.id \in Ids /\ (o.kind = "kv_ready" => o.id \in Requests)
    BY <1>2 DEF Outputs, Ids
<1>5. \/ o.id \notin states /\ Ignore
      \/ o.id \in states /\ Routing(o.id, o.kind, slot[1])
    BY <1>4 DEF Poll, Routing
<1> QED
    BY <1>1, <1>2, <1>3, <1>4, <1>5, SlotsArePairs

LEMMA TwoFrames ==
    ASSUME NEW f \in Frames, NEW g \in Frames
    PROVE  <<f, g>> \in Seq(Frames) /\ Elements(<<f, g>>) = {f, g}
<1>1. <<f, g>> \in Seq(Frames)
    OBVIOUS
<1>2. Elements(<<f, g>>) = {f, g}
    BY ElementsOfTwo
<1> QED BY <1>1, <1>2

\* One pool of an abort, with the requests that a live client has named.
Here(f) == {i \in f.ids : route[f.stage][i] \in Live(f.stage)}

LEMMA AbortInPoolIs ==
    ASSUME NEW c, AbortInPool(c)
    PROVE  LET f == Head(todo[c]) IN
           \/ /\ route' = Unbound(f.ids, f.stage) /\ work' = work
              /\ Continue(c, <<AfterAbortAt(f.ids, f.stage)>> \o Rest(c))
           \/ /\ work' = [slot \in Slots |->
                            IF slot[1] = f.stage
                            THEN work[slot] \ {i \in Here(f) : route[f.stage][i] = slot[2]}
                            ELSE work[slot]]
              /\ Continue(c, <<ReleaseAt(f.ids, f.stage)>> \o Rest(c)) /\ route' = route
BY DEF AbortInPool, Here

LEMMA TypeStep == TypeOK /\ [Next]_vars => TypeOK'
<1> SUFFICES ASSUME TypeOK, [Next]_vars PROVE TypeOK'
    OBVIOUS
<1> USE DEF client, requests, tracker, pools, engines, environment
<1>a. "handler" \in Coroutines /\ "loop" \in Coroutines /\ "member" \in Coroutines
    BY DEF Coroutines
<1>1. ASSUME NEW r \in Requests, Submit(r) PROVE TypeOK'
    <2>1. <<[type |-> "add", id |-> r]>> \in Seq(Messages)
        BY DEF Messages, Ids
    <2>2. inbox' = inbox \o <<[type |-> "add", id |-> r]>> \o SetToSeq(CompanionMessages(r))
        BY <1>1 DEF Submit, CompanionMessages
    <2>3. inbox \o <<[type |-> "add", id |-> r]>> \in Seq(Messages)
        BY <2>1, ConcatProperties DEF TypeOK
    <2>4. inbox' \in Seq(Messages)
        BY <2>2, <2>3, MessagesOfSubmit, ConcatProperties
    <2> QED BY <1>1, <2>4 DEF Submit, TypeOK, Outcomes
<1>2. ASSUME NEW r \in Requests, Cancel(r) PROVE TypeOK'
    <2>1. [type |-> "abort", id |-> r] \in Messages
        BY DEF Messages
    <2>2. inbox' \in Seq(Messages)
        BY <1>2, <2>1, AppendProperties DEF Cancel, TypeOK
    <2> QED BY <1>2, <2>2 DEF Cancel, TypeOK
<1>3. CASE Handle
    <2> DEFINE m == Head(inbox)
    <2>1. inbox # <<>> /\ inbox' = Tail(inbox) /\ UNCHANGED <<sent, cancelled>>
        BY <1>3 DEF Handle, HandleAdd, HandleCompanion, HandleAbort, Receive
    <2>2. m \in Messages /\ inbox' \in Seq(Messages)
        BY <2>1, HeadTailProperties DEF TypeOK
    <2>3. m.id \in Ids /\ 0 \in Stages /\ (m.type = "companion" => m.id \in Companions)
        BY <2>2, ParentIs DEF Messages, Ids
    <2> HIDE DEF m
    <2>4. ASSUME Register(m.id)
          PROVE  /\ states' \subseteq Ids /\ submitted' \in [Ids -> SUBSET Stages] /\ finals' = finals
                 /\ todo' \in [Coroutines -> Seq(Frames)] /\ turn' \in Coroutines \cup {Nobody}
        <3>1. <<Pick(m.id, 0)>> \in Seq(Frames)
            BY <2>3, FrameMakers, FrameAlone
        <3>2. todo' \in [Coroutines -> Seq(Frames)] /\ turn' \in Coroutines \cup {Nobody}
            BY <2>4, <3>1, <1>a, Continued DEF Register
        <3> QED BY <2>3, <2>4, <3>2 DEF Register, TypeOK
    <2>5. CASE HandleAdd
        BY <2>1, <2>2, <2>4, <2>5, ToldIs DEF HandleAdd, TypeOK, m
    <2>6. CASE HandleCompanion
        <3>1. m.id \in Companions /\ Parent[m.id] \in Requests
            BY <2>3, <2>6, ParentIs DEF HandleCompanion, Receive, m
        <3>2. \/ registered' = registered
              \/ registered' = [registered EXCEPT ![Parent[m.id]] = @ \cup {m.id}]
            BY <2>6 DEF HandleCompanion, m
        <3>0. registered \in [Requests -> SUBSET Companions]
            BY DEF TypeOK
        <3>3. registered' \in [Requests -> SUBSET Companions]
            BY <3>0, <3>1, <3>2
        <3> QED BY <2>1, <2>2, <2>4, <2>6, <3>3 DEF HandleCompanion, TypeOK, m
    <2>7. CASE HandleAbort
        <3>1. <<Clean({m.id}, TRUE), Reply({m.id}, "aborted")>> \in Seq(Frames)
            BY <2>3, TwoFrames, FrameMakers
        <3> QED BY <2>1, <2>2, <2>7, <3>1, <1>a, Continued DEF HandleAbort, TypeOK, m
    <2> QED BY <1>3, <2>5, <2>6, <2>7 DEF Handle
<1>4. ASSUME NEW c \in Coroutines, Step(c) PROVE TypeOK'
    <2> DEFINE f == Head(todo[c])
    <2>1. CASE PickReplica(c)
        <3>1. At(c, "pick") /\ f.id \in Ids /\ f.stage \in Stages /\ Rest(c) \in Seq(Frames)
            BY <2>1, AtFrame, FrameFields DEF Submission, PickReplica
        <3>2. CASE \E k \in Candidates(f.id, f.stage) : Dispatch(c, f.id, f.stage, k)
            BY <2>1, <3>1, <3>2, CandidatesServe, DispatchTyped DEF PickReplica, TypeOK
        <3>3. CASE /\ route' = [route EXCEPT ![f.stage][f.id] = NoReplica]
                   /\ Continue(c, <<Wait(f.id, f.stage)>> \o Rest(c))
                   /\ UNCHANGED <<outcome, work>>
            <4>1. <<Wait(f.id, f.stage)>> \o Rest(c) \in Seq(Frames)
                BY <3>1, FrameMakers, FramesInFront
            <4>2. route' \in [Stages -> [Ids -> {k[2] : k \in Slots} \cup {NoReplica}]]
                BY <3>1, <3>3 DEF TypeOK
            <4> QED BY <2>1, <3>3, <4>1, <4>2, Continued DEF PickReplica, TypeOK
        <3>4. CASE NoReplicaFor(c, f.id)
            BY <2>1, <3>1, <3>4, NoReplicaForTyped DEF PickReplica, TypeOK
        <3> QED BY <2>1, <3>2, <3>3, <3>4 DEF PickReplica
    <2>2. CASE EndWait(c)
        <3>1. At(c, "wait")
            BY <2>2 DEF EndWait
        <3>2. CASE \E k \in Serviceable(f.stage) : Dispatch(c, f.id, f.stage, k)
            BY <2>2, <3>1, <3>2, DispatchTyped DEF EndWait, TypeOK
        <3>3. CASE NoReplicaFor(c, f.id)
            BY <2>2, <3>1, <3>3, NoReplicaForTyped DEF EndWait, TypeOK
        <3> QED BY <2>2, <3>2, <3>3 DEF EndWait
    <2>3. CASE Sent(c)
        <3>1. f.id \in Ids /\ f.stage \in Stages /\ Rest(c) \in Seq(Frames)
            BY <2>3, AtFrame, FrameFields DEF Sent, Submission
        <3> QED BY <2>3, <3>1, Continued DEF Sent, TypeOK
    <2>4. CASE CleanStart(c)
        <3>1. outcome' \in [Requests -> Outcomes]
            BY <2>4, CleanStartIs, ToldIs
        <3>2. /\ registered' \in [Requests -> SUBSET Companions] /\ done' \subseteq Companions
              /\ pending' \in [Requests -> (Stages \ {LastStage}) \cup {-1}]
            BY <2>4, CleanStartIs DEF TypeOK
        <3>3. todo' \in [Coroutines -> Seq(Frames)] /\ turn' \in Coroutines \cup {Nobody}
            BY <2>4, CleanStartIs, Continued
        <3> QED BY <2>4, <3>1, <3>2, <3>3 DEF CleanStart, TypeOK
    <2>5. CASE AbortInPool(c)
        <3>1. f.ids \subseteq Ids /\ f.stage \in Stages /\ Rest(c) \in Seq(Frames)
            BY <2>5, AtFrame, FrameFields DEF AbortInPool
        <3>2. AfterAbortAt(f.ids, f.stage) \in Frames /\ ReleaseAt(f.ids, f.stage) \in Frames
            BY <3>1, FrameMakers, ParentIs DEF AfterAbortAt
        <3>0. \/ /\ route' = Unbound(f.ids, f.stage) /\ work' = work
                 /\ Continue(c, <<AfterAbortAt(f.ids, f.stage)>> \o Rest(c))
              \/ /\ work' = [slot \in Slots |->
                               IF slot[1] = f.stage
                               THEN work[slot] \ {i \in Here(f) : route[f.stage][i] = slot[2]}
                               ELSE work[slot]]
                 /\ Continue(c, <<ReleaseAt(f.ids, f.stage)>> \o Rest(c)) /\ route' = route
            BY <2>5, AbortInPoolIs
        <3>3. todo' \in [Coroutines -> Seq(Frames)] /\ turn' \in Coroutines \cup {Nobody}
            BY <3>0, <3>1, <3>2, FramesInFront, Continued
        <3>6. /\ work \in [Slots -> SUBSET Ids]
              /\ route \in [Stages -> [Ids -> {k[2] : k \in Slots} \cup {NoReplica}]]
            BY DEF TypeOK
        <3>4. work' \in [Slots -> SUBSET Ids]
            <4> DEFINE gone(slot) == {i \in Here(f) : route[f.stage][i] = slot[2]}
            <4>1. \/ work' = work
                  \/ work' = [slot \in Slots |-> IF slot[1] = f.stage THEN work[slot] \ gone(slot)
                                                 ELSE work[slot]]
                BY <3>0
            <4> HIDE DEF gone
            <4> QED BY <4>1, <3>6
        <3>5. route' \in [Stages -> [Ids -> {k[2] : k \in Slots} \cup {NoReplica}]]
            <4>1. Unbound(f.ids, f.stage)
                      \in [Stages -> [Ids -> {k[2] : k \in Slots} \cup {NoReplica}]]
                BY <3>1, UnboundTyped
            <4>2. route' = Unbound(f.ids, f.stage) \/ route' = route
                BY <3>0
            <4> QED BY <4>1, <4>2, <3>6
        <3> QED BY <2>5, <3>3, <3>4, <3>5 DEF AbortInPool, TypeOK
    <2>6. CASE ReleaseInPool(c)
        <3>1. f.ids \subseteq Ids /\ f.stage \in Stages /\ Rest(c) \in Seq(Frames)
            BY <2>6, AtFrame, FrameFields DEF ReleaseInPool
        <3>2. AfterAbortAt(f.ids, f.stage) \in Frames
            BY <3>1, FrameMakers, ParentIs DEF AfterAbortAt
        <3>3. todo' \in [Coroutines -> Seq(Frames)] /\ turn' \in Coroutines \cup {Nobody}
            BY <2>6, <3>1, <3>2, FramesInFront, Continued DEF ReleaseInPool
        <3> QED BY <2>6, <3>1, <3>3, UnboundTyped DEF ReleaseInPool, TypeOK
    <2>7. CASE CleanEnd(c)
        <3>1. Rest(c) \in Seq(Frames)
            BY <2>7, AtFrame DEF CleanEnd
        <3>2. route' \in [Stages -> [Ids -> {k[2] : k \in Slots} \cup {NoReplica}]]
            BY <2>7, UnboundTyped DEF CleanEnd, TypeOK
        <3> QED BY <2>7, <3>1, <3>2, Continued DEF CleanEnd, TypeOK
    <2>8. CASE ReplyTo(c)
        <3>1. Rest(c) \in Seq(Frames) /\ f.kind \in {"error", "aborted"}
            BY <2>8, AtFrame, FrameFields DEF ReplyTo
        <3> QED BY <2>8, <3>1, Continued, ToldIs DEF ReplyTo, TypeOK
    <2>9. CASE EvictReplica(c)
        <3>1. Rest(c) \in Seq(Frames)
            BY <2>9, AtFrame DEF EvictReplica
        <3>2. CASE /\ Disconnect(<<f.stage, f.at>>)
                   /\ outcome' = Told(Victims(f), "error")
                   /\ Continue(c, Cleanings(f) \o Rest(c))
            <4>1. Cleanings(f) \o Rest(c) \in Seq(Frames)
                BY <3>1, CleaningsAre, ConcatProperties
            <4> QED BY <2>9, <3>2, <4>1, Continued, DisconnectTyped, ToldIs DEF EvictReplica, TypeOK
        <3>3. CASE Continue(c, Rest(c)) /\ UNCHANGED <<outcome, live, work, out>>
            BY <2>9, <3>1, <3>3, Continued DEF EvictReplica, TypeOK
        <3> QED BY <2>9, <3>2, <3>3 DEF EvictReplica, Victims, Order, Cleanings
    <2> QED BY <1>4, <2>1, <2>2, <2>3, <2>4, <2>5, <2>6, <2>7, <2>8, <2>9 DEF Step
<1>5. ASSUME NEW slot \in Slots, Poll(slot) PROVE TypeOK'
    <2>1. RoutingTyped'
        <3>1. CASE Ignore
            BY <3>1, RoutingKeepsTypes, PollIs, <1>5 DEF Routing
        <3> QED BY <3>1, RoutingKeepsTypes, PollIs, <1>5
    <2> QED BY <1>5, <2>1, PollIs DEF RoutingTyped, TypeOK
<1>6. ASSUME NEW slot \in Slots, PollDead(slot) PROVE TypeOK'
    <2>1. <<Evict(slot[1], slot[2])>> \in Seq(Frames)
        BY FrameMakers, FrameAlone
    <2> QED BY <1>6, <2>1, <1>a, Continued DEF PollDead, TypeOK
<1>7. ASSUME NEW slot \in Slots, Unregister(slot) PROVE TypeOK'
    <2> DEFINE affected == BoundTo(slot)
    <2>1. affected \in SUBSET Ids /\ slot[1] \in Stages
        BY SlotsArePairs DEF BoundTo
    <2> HIDE DEF affected
    <2>5. Clean(affected, TRUE) \in Frames /\ Reply(affected, "error") \in Frames
        BY <2>1, FrameMakers
    <2>6. <<Clean(affected, TRUE), Reply(affected, "error")>> \in Seq(Frames)
        BY <2>5, TwoFrames
    <2>7. <<>> \in Seq(Frames)
        OBVIOUS
    <2>2. (IF affected = {} THEN <<>> ELSE <<Clean(affected, TRUE), Reply(affected, "error")>>)
              \in Seq(Frames)
        BY <2>6, <2>7
    <2>3. /\ route' = Unbound(affected, slot[1]) /\ Disconnect(slot)
          /\ Continue("member", IF affected = {} THEN <<>>
                                ELSE <<Clean(affected, TRUE), Reply(affected, "error")>>)
          /\ UNCHANGED <<client, outcome, requests, tracker, dead, kvSent, environment>>
        BY <1>7 DEF Unregister, affected
    <2>4. todo' \in [Coroutines -> Seq(Frames)] /\ turn' \in Coroutines \cup {Nobody}
        BY <2>2, <2>3, <1>a, Continued
    <2> QED BY <2>1, <2>3, <2>4, UnboundTyped, DisconnectTyped DEF TypeOK
<1>8. ASSUME NEW slot \in Slots, Attach(slot) \/ Die(slot) \/ Delist(slot) \/ List(slot)
      PROVE  TypeOK'
    <2>1. faults' \in 0 .. MaxFaults
        BY <1>8, OrchestratorAssumption DEF Attach, Die, Delist, List, TypeOK
    <2> QED BY <1>8, <2>1 DEF Attach, Die, Delist, List, TypeOK
<1>9. ASSUME NEW slot \in Slots, NEW i \in Ids, Compute(slot, i) PROVE TypeOK'
    <2>1. PICK kind \in {"finished", "error"} :
              out' = [out EXCEPT ![slot] = Append(@, [id |-> i, kind |-> kind])]
        BY <1>9 DEF Compute
    <2>2. [id |-> i, kind |-> kind] \in Outputs
        BY DEF Outputs
    <2>3. out' \in [Slots -> Seq(Outputs)]
        BY <2>1, <2>2, AppendProperties DEF TypeOK
    <2> QED BY <1>9, <2>3 DEF Compute, TypeOK
<1>10. ASSUME NEW slot \in Slots, NEW i \in Ids, ReportKV(slot, i) PROVE TypeOK'
    <2>1. i \in Requests /\ [id |-> i, kind |-> "kv_ready"] \in Outputs
        BY <1>10, OrchestratorAssumption DEF Outputs, ReportKV
    <2>2. out' \in [Slots -> Seq(Outputs)]
        BY <1>10, <2>1, AppendProperties DEF TypeOK, ReportKV
    <2> QED BY <1>10, <2>1, <2>2 DEF ReportKV, TypeOK
<1>11. CASE UNCHANGED vars
    BY <1>11 DEF vars, TypeOK
<1> QED
    BY <1>1, <1>2, <1>3, <1>4, <1>5, <1>6, <1>7, <1>8, <1>9, <1>10, <1>11 DEF Next

\* The variables keep their types: for any pipeline, a clean-up, an eviction or
\* an unregister, wherever it interrupts a submission, leaves well-formed frames
\* and bindings.
THEOREM OrchestratorTypeCorrect == OrchestratorSpec => []TypeOK
BY InitTyped, TypeStep, PTL DEF OrchestratorSpec

-----------------------------------------------------------------------------
(* Where a submission can be.                                              *)

\* The positions at which an engine answered the end of i.
Ends(q, i) == {n \in DOMAIN q : IsEnd(q[n], i)}

\* Replica slot computes i, or anything that it said about i was not polled.
Holds(slot, i) == i \in work[slot] \/ \E o \in Elements(out[slot]) : o.id = i

NoEnd(i, s) == \A slot \in Slots : slot[1] = s => i \notin work[slot] /\ Ends(out[slot], i) = {}

\* Only the frame in front submits: a coroutine does nothing else before the
\* client call returned.
SubmissionsInFront ==
    \A c \in Coroutines : todo[c] # <<>> =>
        \A f \in Elements(Rest(c)) : f.op \notin Submission

\* The handler submits to the first stage, for which the submission was noted
\* when the request was registered, and the loop to the next one.
Making(c, op, i, s) == /\ todo[c] # <<>> /\ Head(todo[c]).op = op
                       /\ Head(todo[c]).id = i /\ Head(todo[c]).stage = s
SubmissionFrames ==
    \A c \in Coroutines, op \in Submission, i \in Ids, s \in Stages : Making(c, op, i, s) =>
        /\ \/ c = "handler" /\ s = 0 /\ 0 \in submitted[i]
           \/ /\ c = "loop" /\ s > 0 /\ i \in Requests
              /\ s - 1 \in submitted[i] /\ s \notin submitted[i]
        /\ op # "send" => NoEnd(i, s)

\* The replicas of a stage only have what was submitted to it, or what the loop
\* is just submitting.
HeldWasSubmitted ==
    \A slot \in Slots, i \in Ids : Holds(slot, i) =>
        \/ slot[1] \in submitted[i]
        \/ todo["loop"] # <<>> /\ Head(todo["loop"]) = Send(i, slot[1])

\* A request is at most once in the hands of a stage.
OnceInAStage ==
    \A i \in Ids, a, b \in Slots : a[1] = b[1] =>
        /\ i \in work[a] /\ i \in work[b] => a = b
        /\ i \in work[a] => Ends(out[b], i) = {}
        /\ Ends(out[a], i) # {} /\ Ends(out[b], i) # {} => a = b
        /\ \A m, n \in Ends(out[a], i) : m = n

\* The stages are submitted to in order.
SubmittedInOrder ==
    /\ \A i \in Ids : submitted[i] = {} \/ \E m \in Stages : submitted[i] = 0 .. m
    /\ \A i \in Ids : finals[i] \subseteq submitted[i]
    /\ \A r \in Requests : pending[r] # -1 => pending[r] \in submitted[r]

\* A request is new until its message was handled, which is in the queue once.
NewUntilHandled ==
    /\ \A m, n \in DOMAIN inbox : inbox[m] = inbox[n] /\ inbox[m].type # "abort" => m = n
    /\ \A m \in Elements(inbox) : m.type # "abort" =>
           submitted[m.id] = {} /\ Owner(m.id) \in sent

\* Only what a client sent is known.
KnownWasSent ==
    /\ \A i \in Ids : submitted[i] # {} => Owner(i) \in sent
    /\ \A r \in Requests : outcome[r] = "idle" <=> r \notin sent

PlacementInv ==
    /\ SubmissionsInFront /\ SubmissionFrames /\ HeldWasSubmitted /\ OnceInAStage
    /\ SubmittedInOrder /\ NewUntilHandled /\ KnownWasSent

-----------------------------------------------------------------------------
(* Steps that submit nothing.                                              *)

Quiet(frames) == \A f \in Elements(frames) : f.op \notin Submission

LEMMA QuietFrames ==
    /\ \A ids, a : Clean(ids, a).op \notin Submission
    /\ \A ids, s : AbortAt(ids, s).op \notin Submission /\ ReleaseAt(ids, s).op \notin Submission
    /\ \A ids : Finish(ids).op \notin Submission
    /\ \A s, k : Evict(s, k).op \notin Submission
    /\ \A ids, kind : Reply(ids, kind).op \notin Submission
BY DEF Clean, AbortAt, ReleaseAt, Finish, Evict, Reply, Submission

LEMMA QuietInFront ==
    ASSUME NEW f \in Frames, f.op \notin Submission,
           NEW rest \in Seq(Frames), Quiet(rest)
    PROVE  Quiet(<<f>> \o rest) /\ Quiet(<<f>>) /\ Quiet(<<>>)
<1>1. Elements(<<f>> \o rest) = {f} \cup Elements(rest)
    BY FramesInFront
<1>2. Elements(<<f>>) = {f} /\ Elements(<<>>) = {}
    BY FrameAlone
<1> QED
    BY <1>1, <1>2 DEF Quiet

LEMMA QuietRest ==
    ASSUME TypeOK, SubmissionsInFront, NEW c \in Coroutines, NEW op, At(c, op)
    PROVE  Quiet(Rest(c)) /\ (op \notin Submission => Quiet(todo[c]))
<1>1. /\ todo[c] # <<>> /\ Head(todo[c]).op = op
      /\ Elements(todo[c]) = {Head(todo[c])} \cup Elements(Rest(c))
    BY AtFrame
<1>2. Quiet(Rest(c))
    BY <1>1 DEF SubmissionsInFront, Quiet
<1> QED
    BY <1>1, <1>2 DEF Quiet

\* The engines have no more than before.
Less ==
    \A slot \in Slots :
        /\ work'[slot] \subseteq work[slot]
        /\ \/ out'[slot] = out[slot]
           \/ out[slot] # <<>> /\ out'[slot] = Tail(out[slot])
           \/ out'[slot] = <<>>

LEMMA EndsOfTail ==
    ASSUME NEW q \in Seq(Outputs), q # <<>>, NEW i
    PROVE  /\ \A n \in Ends(Tail(q), i) : n \in Int /\ n + 1 \in Ends(q, i)
           /\ Elements(Tail(q)) \subseteq Elements(q)
<1>1. /\ Tail(q) \in Seq(Outputs) /\ Len(q) \in Nat /\ Len(q) > 0
      /\ DOMAIN Tail(q) = 1 .. Len(q) - 1 /\ DOMAIN q = 1 .. Len(q)
      /\ \A n \in 1 .. Len(q) - 1 : Tail(q)[n] = q[n + 1]
    OBVIOUS
<1>2. \A n \in DOMAIN Tail(q) : n \in Int /\ n + 1 \in DOMAIN q /\ Tail(q)[n] = q[n + 1]
    BY <1>1
<1>3. Elements(Tail(q)) \subseteq Elements(q)
    BY ElementsOfTail
<1> QED
    BY <1>2, <1>3 DEF Ends

LEMMA LessKeeps ==
    ASSUME TypeOK, Less
    PROVE  /\ \A slot \in Slots, i \in Ids : Holds(slot, i)' => Holds(slot, i)
           /\ \A i \in Ids, s \in Stages : NoEnd(i, s) => NoEnd(i, s)'
           /\ OnceInAStage => OnceInAStage'
<1>1. ASSUME NEW slot \in Slots
      PROVE  /\ work'[slot] \subseteq work[slot]
             /\ Elements(out'[slot]) \subseteq Elements(out[slot])
             /\ \A i \in Ids : Ends(out'[slot], i) # {} => Ends(out[slot], i) # {}
             /\ \A i \in Ids : (\A m, n \in Ends(out[slot], i) : m = n)
                                   => (\A m, n \in Ends(out'[slot], i) : m = n)
    <2>1. out[slot] \in Seq(Outputs) /\ work'[slot] \subseteq work[slot]
        BY DEF TypeOK, Less
    <2>2. CASE out'[slot] = out[slot]
        BY <2>1, <2>2
    <2>3. CASE out[slot] # <<>> /\ out'[slot] = Tail(out[slot])
        <3>1. Elements(out'[slot]) \subseteq Elements(out[slot])
            BY <2>1, <2>3, EndsOfTail
        <3>2. \A i \in Ids : \A n \in Ends(out'[slot], i) : n \in Int /\ n + 1 \in Ends(out[slot], i)
            BY <2>1, <2>3, EndsOfTail
        <3>3. \A i \in Ids : Ends(out'[slot], i) # {} => Ends(out[slot], i) # {}
            BY <3>2
        <3>4. ASSUME NEW i \in Ids, \A m, n \in Ends(out[slot], i) : m = n,
                     NEW m \in Ends(out'[slot], i), NEW n \in Ends(out'[slot], i)
              PROVE  m = n
            <4>1. m \in Int /\ n \in Int /\ m + 1 = n + 1
                BY <3>2, <3>4
            <4> QED BY <4>1
        <3> QED BY <2>1, <3>1, <3>3, <3>4
    <2>4. CASE out'[slot] = <<>>
        <3>1. Elements(out'[slot]) = {} /\ \A i \in Ids : Ends(out'[slot], i) = {}
            BY <2>4 DEF Elements, Ends
        <3> QED BY <2>1, <3>1
    <2> QED BY <2>2, <2>3, <2>4 DEF Less
<1>2. \A slot \in Slots, i \in Ids : Holds(slot, i)' => Holds(slot, i)
    BY <1>1 DEF Holds
<1>3. \A i \in Ids, s \in Stages : NoEnd(i, s) => NoEnd(i, s)'
    BY <1>1 DEF NoEnd
<1>4. OnceInAStage => OnceInAStage'
    <2> SUFFICES ASSUME OnceInAStage, NEW i \in Ids, NEW a \in Slots, NEW b \in Slots, a[1] = b[1]
                 PROVE  /\ i \in work'[a] /\ i \in work'[b] => a = b
                        /\ i \in work'[a] => Ends(out'[b], i) = {}
                        /\ Ends(out'[a], i) # {} /\ Ends(out'[b], i) # {} => a = b
                        /\ \A m, n \in Ends(out'[a], i) : m = n
        BY DEF OnceInAStage
    <2>1. /\ i \in work[a] /\ i \in work[b] => a = b
          /\ i \in work[a] => Ends(out[b], i) = {}
          /\ Ends(out[a], i) # {} /\ Ends(out[b], i) # {} => a = b
          /\ \A m, n \in Ends(out[a], i) : m = n
        BY DEF OnceInAStage
    <2>2. /\ work'[a] \subseteq work[a] /\ work'[b] \subseteq work[b]
          /\ Ends(out'[a], i) # {} => Ends(out[a], i) # {}
          /\ Ends(out'[b], i) # {} => Ends(out[b], i) # {}
          /\ (\A m, n \in Ends(out[a], i) : m = n) => (\A m, n \in Ends(out'[a], i) : m = n)
        BY <1>1
    <2> QED BY <2>1, <2>2
<1> QED
    BY <1>2, <1>3, <1>4

Tokens == SubmissionsInFront /\ SubmissionFrames /\ HeldWasSubmitted /\ OnceInAStage

\* A coroutine goes on without submitting.
LEMMA QuietStep ==
    ASSUME TypeOK, Tokens, NEW c \in Coroutines, NEW frames \in Seq(Frames),
           Continue(c, frames), Quiet(frames), Less, submitted' = submitted,
           c = "loop" /\ todo[c] # <<>> => Head(todo[c]).op # "send"
    PROVE  Tokens'
<1>1. todo'[c] = frames /\ \A d \in Coroutines \ {c} : todo'[d] = todo[d]
    BY Continued
<1>2. todo'[c] # <<>> => /\ Head(todo'[c]).op \notin Submission
                         /\ \A f \in Elements(Tail(todo'[c])) : f.op \notin Submission
    BY <1>1, ElementsOfTail DEF Quiet
<1>3. SubmissionsInFront'
    BY <1>1, <1>2 DEF SubmissionsInFront, Tokens, Rest
<1>4. SubmissionFrames'
    <2>1. ASSUME NEW d \in Coroutines, NEW op \in Submission, NEW i, NEW s, Making(d, op, i, s)'
          PROVE  Making(d, op, i, s)
        BY <1>1, <1>2, <2>1 DEF Making
    <2> QED BY <2>1, LessKeeps DEF SubmissionFrames, Tokens
<1>5. HeldWasSubmitted'
    <2> SUFFICES ASSUME NEW slot \in Slots, NEW i \in Ids, Holds(slot, i)'
                 PROVE  \/ slot[1] \in submitted'[i]
                        \/ todo'["loop"] # <<>> /\ Head(todo'["loop"]) = Send(i, slot[1])
        BY DEF HeldWasSubmitted
    <2>1. Holds(slot, i)
        BY LessKeeps
    <2>2. Send(i, slot[1]).op = "send" /\ "loop" \in Coroutines
        BY DEF Send, Coroutines
    <2> QED BY <1>1, <2>1, <2>2 DEF HeldWasSubmitted, Tokens
<1> QED
    BY <1>3, <1>4, <1>5, LessKeeps DEF Tokens

\* A step of nobody.
LEMMA StillStep ==
    ASSUME TypeOK, Tokens, todo' = todo, Less, submitted' = submitted
    PROVE  Tokens'
<1>1. SubmissionsInFront'
    BY DEF SubmissionsInFront, Tokens, Rest
<1>2. SubmissionFrames'
    <2>1. \A d, op, i, s : Making(d, op, i, s)' => Making(d, op, i, s)
        BY DEF Making
    <2> QED BY <2>1, LessKeeps DEF SubmissionFrames, Tokens
<1>3. HeldWasSubmitted'
    BY LessKeeps DEF HeldWasSubmitted, Tokens
<1> QED
    BY <1>1, <1>2, <1>3, LessKeeps DEF Tokens

-----------------------------------------------------------------------------
(* Steps that submit.                                                      *)

\* The frame of a submission in front: what it is about.
LEMMA SubmissionOf ==
    ASSUME TypeOK, Tokens, NEW c \in Coroutines, todo[c] # <<>>, Head(todo[c]).op \in Submission
    PROVE  LET f == Head(todo[c]) IN
           /\ f \in Frames /\ f.id \in Ids /\ f.stage \in Stages
           /\ \/ c = "handler" /\ f.stage = 0 /\ 0 \in submitted[f.id]
              \/ /\ c = "loop" /\ f.stage > 0 /\ f.id \in Requests
                 /\ f.stage - 1 \in submitted[f.id] /\ f.stage \notin submitted[f.id]
           /\ f.op # "send" => NoEnd(f.id, f.stage)
           /\ Rest(c) \in Seq(Frames) /\ Quiet(Rest(c))
<1>1. Head(todo[c]) \in Frames /\ Rest(c) \in Seq(Frames)
    BY ElementsOfTail DEF TypeOK, Rest
<1>2. Quiet(Rest(c))
    BY DEF Quiet, Tokens, SubmissionsInFront
<1>3. Head(todo[c]).id \in Ids /\ Head(todo[c]).stage \in Stages
    BY <1>1, FrameFields
<1> QED
    BY <1>1, <1>2, <1>3 DEF Tokens, SubmissionFrames, Making

\* Coroutine c puts one frame in front of frames that submit nothing.
LEMMA FrontStep ==
    ASSUME TypeOK, Tokens, NEW c \in Coroutines, NEW f \in Frames, f.op \in Submission,
           NEW rest \in Seq(Frames), Quiet(rest), Continue(c, <<f>> \o rest),
           \* what is submitted meanwhile does not concern the other coroutines
           \A i \in Ids : submitted[i] \subseteq submitted'[i],
           \A i \in Ids : submitted'[i] = submitted[i] \/ submitted[i] = {},
           \/ c = "handler" /\ f.stage = 0 /\ 0 \in submitted'[f.id]
           \/ /\ c = "loop" /\ f.stage > 0 /\ f.id \in Requests
              /\ f.stage - 1 \in submitted'[f.id] /\ f.stage \notin submitted'[f.id],
           f.op # "send" => NoEnd(f.id, f.stage)',
           \* the ends that the other coroutine waits for are not disturbed
           \A i \in Ids, s \in Stages :
               NoEnd(i, s) => NoEnd(i, s)' \/ (i = f.id /\ s = f.stage)
    PROVE  SubmissionsInFront' /\ SubmissionFrames'
<1>1. /\ todo'[c] = <<f>> \o rest /\ \A d \in Coroutines \ {c} : todo'[d] = todo[d]
      /\ Head(todo'[c]) = f /\ Tail(todo'[c]) = rest
    <2>1. /\ <<f>> \o rest \in Seq(Frames)
          /\ Head(<<f>> \o rest) = f /\ Tail(<<f>> \o rest) = rest
        BY FramesInFront
    <2> QED BY <2>1, Continued
<1>2. SubmissionsInFront'
    BY <1>1 DEF SubmissionsInFront, Tokens, Rest, Quiet
<1>3. SubmissionFrames'
    <2> SUFFICES ASSUME NEW d \in Coroutines, NEW op \in Submission, NEW i \in Ids,
                        NEW s \in Stages, Making(d, op, i, s)'
                 PROVE  /\ \/ d = "handler" /\ s = 0 /\ 0 \in submitted'[i]
                           \/ /\ d = "loop" /\ s > 0 /\ i \in Requests
                              /\ s - 1 \in submitted'[i] /\ s \notin submitted'[i]
                        /\ op # "send" => NoEnd(i, s)'
        BY DEF SubmissionFrames
    <2>1. CASE d = c
        <3>1. f.op = op /\ f.id = i /\ f.stage = s
            BY <1>1, <2>1 DEF Making
        <3> QED BY <2>1, <3>1
    <2>2. CASE d # c
        <3>1. Making(d, op, i, s)
            BY <1>1, <2>2 DEF Making
        <3>2. /\ \/ d = "handler" /\ s = 0 /\ 0 \in submitted[i]
                 \/ /\ d = "loop" /\ s > 0 /\ i \in Requests
                    /\ s - 1 \in submitted[i] /\ s \notin submitted[i]
              /\ op # "send" => NoEnd(i, s)
            BY <3>1 DEF SubmissionFrames, Tokens
        <3>3. submitted'[i] = submitted[i] /\ s # f.stage
            BY <2>2, <3>2
        <3> QED BY <3>2, <3>3
    <2> QED BY <2>1, <2>2
<1> QED
    BY <1>2, <1>3

\* The coroutine waits for a replica.
LEMMA WaitStep ==
    ASSUME TypeOK, Tokens, NEW c \in Coroutines, At(c, "pick"),
           Continue(c, <<Wait(Head(todo[c]).id, Head(todo[c]).stage)>> \o Rest(c)),
           UNCHANGED <<work, out, submitted>>
    PROVE  Tokens'
<1> DEFINE f == Head(todo[c])
           g == Wait(f.id, f.stage)
<1>1. todo[c] # <<>> /\ f.op = "pick"
    BY DEF At
<1>2. /\ f.id \in Ids /\ f.stage \in Stages
      /\ \/ c = "handler" /\ f.stage = 0 /\ 0 \in submitted[f.id]
         \/ /\ c = "loop" /\ f.stage > 0 /\ f.id \in Requests
            /\ f.stage - 1 \in submitted[f.id] /\ f.stage \notin submitted[f.id]
      /\ NoEnd(f.id, f.stage) /\ Rest(c) \in Seq(Frames) /\ Quiet(Rest(c))
    BY <1>1, SubmissionOf DEF Submission
<1>3. g \in Frames /\ g.op = "wait" /\ g.id = f.id /\ g.stage = f.stage
    BY <1>2, FrameMakers DEF Wait
<1>4. Less
    BY DEF Less
<1>5. SubmissionsInFront' /\ SubmissionFrames'
    <2> HIDE DEF g
    <2> QED BY <1>2, <1>3, <1>4, LessKeeps, FrontStep DEF Submission, g
<1>6. HeldWasSubmitted'
    <2>1. "loop" \in Coroutines /\ \A d \in Coroutines \ {c} : todo'[d] = todo[d]
        BY <1>2, <1>3, FramesInFront, Continued DEF Coroutines
    <2>2. \A i, s : Send(i, s).op = "send"
        BY DEF Send
    <2> QED BY <1>1, <1>4, <2>1, <2>2, LessKeeps DEF HeldWasSubmitted, Tokens
<1> QED
    BY <1>4, <1>5, <1>6, LessKeeps DEF Tokens

\* The message of a submission is on its way, or lost with its process.
LEMMA SendStep ==
    ASSUME TypeOK, Tokens, NEW c \in Coroutines, At(c, "pick") \/ At(c, "wait"),
           NEW k, <<Head(todo[c]).stage, k>> \in Slots,
           work' = IF <<Head(todo[c]).stage, k>> \in dead THEN work
                   ELSE [work EXCEPT ![<<Head(todo[c]).stage, k>>] = @ \cup {Head(todo[c]).id}],
           Continue(c, <<Send(Head(todo[c]).id, Head(todo[c]).stage)>> \o Rest(c)),
           UNCHANGED <<out, submitted>>
    PROVE  Tokens'
<1> DEFINE f == Head(todo[c])
           i == f.id
           s == f.stage
           g == Send(i, s)
<1>1. todo[c] # <<>> /\ f.op \in {"pick", "wait"}
    BY DEF At
<1>2. /\ i \in Ids /\ s \in Stages
      /\ \/ c = "handler" /\ s = 0 /\ 0 \in submitted[i]
         \/ /\ c = "loop" /\ s > 0 /\ i \in Requests
            /\ s - 1 \in submitted[i] /\ s \notin submitted[i]
      /\ NoEnd(i, s) /\ Rest(c) \in Seq(Frames) /\ Quiet(Rest(c))
    BY <1>1, SubmissionOf DEF Submission
<1>3. g \in Frames /\ g.op = "send" /\ g.id = i /\ g.stage = s
    BY <1>2, FrameMakers DEF Send
<1>4. \A a \in Slots : /\ work'[a] = work[a] \/ (work'[a] = work[a] \cup {i} /\ a[1] = s /\ a[2] = k)
                       /\ out'[a] = out[a]
    <2>1. work \in [Slots -> SUBSET Ids]
        BY DEF TypeOK
    <2> QED BY <2>1
<1> HIDE DEF i, s, g
<1>5. SubmissionsInFront' /\ SubmissionFrames'
    <2>1. \A j \in Ids, t \in Stages : NoEnd(j, t) => NoEnd(j, t)' \/ (j = i /\ t = s)
        BY <1>4 DEF NoEnd
    <2>2. Continue(c, <<g>> \o Rest(c)) /\ submitted' = submitted
        BY DEF g, i, s
    <2> QED BY <1>2, <1>3, <2>1, <2>2, FrontStep DEF Submission
<1>6. /\ "loop" \in Coroutines /\ \A d \in Coroutines \ {c} : todo'[d] = todo[d]
      /\ todo'[c] # <<>> /\ Head(todo'[c]) = g
    <2>1. /\ <<g>> \o Rest(c) \in Seq(Frames) /\ Head(<<g>> \o Rest(c)) = g
          /\ Continue(c, <<g>> \o Rest(c))
        BY <1>2, <1>3, FramesInFront DEF g, i, s
    <2>2. <<g>> \o Rest(c) # <<>>
        BY <1>2, <1>3
    <2>3. todo'[c] = <<g>> \o Rest(c) /\ \A d \in Coroutines \ {c} : todo'[d] = todo[d]
        BY <2>1, Continued
    <2> QED BY <2>1, <2>2, <2>3 DEF Coroutines
<1>7. HeldWasSubmitted'
    <2> SUFFICES ASSUME NEW a \in Slots, NEW j \in Ids, Holds(a, j)'
                 PROVE  \/ a[1] \in submitted'[j]
                        \/ todo'["loop"] # <<>> /\ Head(todo'["loop"]) = Send(j, a[1])
        BY DEF HeldWasSubmitted
    <2>1. CASE Holds(a, j)
        <3>1. \/ a[1] \in submitted[j]
              \/ todo["loop"] # <<>> /\ Head(todo["loop"]) = Send(j, a[1])
            BY <2>1 DEF HeldWasSubmitted, Tokens
        <3>2. Send(j, a[1]).op = "send"
            BY DEF Send
        <3> QED BY <1>1, <1>6, <3>1, <3>2
    <2>2. CASE ~Holds(a, j)
        <3>1. j = i /\ a[1] = s
            BY <1>4, <2>2 DEF Holds
        <3> QED BY <1>2, <1>6, <3>1 DEF g
    <2> QED BY <2>1, <2>2
<1>8. OnceInAStage'
    <2> SUFFICES ASSUME NEW j \in Ids, NEW a \in Slots, NEW b \in Slots, a[1] = b[1]
                 PROVE  /\ j \in work'[a] /\ j \in work'[b] => a = b
                        /\ j \in work'[a] => Ends(out'[b], j) = {}
                        /\ Ends(out'[a], j) # {} /\ Ends(out'[b], j) # {} => a = b
                        /\ \A m, n \in Ends(out'[a], j) : m = n
        BY DEF OnceInAStage
    <2>1. /\ j \in work[a] /\ j \in work[b] => a = b
          /\ j \in work[a] => Ends(out[b], j) = {}
          /\ Ends(out[a], j) # {} /\ Ends(out[b], j) # {} => a = b
          /\ \A m, n \in Ends(out[a], j) : m = n
        BY DEF OnceInAStage, Tokens
    <2>2. CASE j # i \/ a[1] # s
        BY <1>4, <2>1, <2>2
    <2>3. CASE j = i /\ a[1] = s
        <3>1. i \notin work[a] /\ i \notin work[b] /\ Ends(out[a], i) = {} /\ Ends(out[b], i) = {}
            BY <1>2, <2>3 DEF NoEnd
        <3>2. j \in work'[a] /\ j \in work'[b] => a[2] = b[2]
            BY <1>4, <2>3, <3>1
        <3> QED BY <1>4, <2>3, <3>1, <3>2, SlotsArePairs
    <2> QED BY <2>2, <2>3
<1> QED
    BY <1>5, <1>7, <1>8 DEF Tokens

\* The client call returned.
LEMMA SentStep ==
    ASSUME TypeOK, Tokens, NEW c \in Coroutines, Sent(c)
    PROVE  /\ Tokens'
           /\ LET f == Head(todo[c]) IN
              /\ f.id \in Ids /\ f.stage \in Stages
              /\ submitted' = [submitted EXCEPT ![f.id] = @ \cup {f.stage}]
              /\ f.stage \in submitted[f.id] \/ f.stage - 1 \in submitted[f.id]
<1> DEFINE f == Head(todo[c])
           i == f.id
           s == f.stage
<1>1. /\ todo[c] # <<>> /\ f.op = "send" /\ Continue(c, Rest(c))
      /\ submitted' = [submitted EXCEPT ![i] = @ \cup {s}] /\ UNCHANGED <<work, out>>
    BY DEF Sent, At, engines
<1>2. /\ f \in Frames /\ i \in Ids /\ s \in Stages
      /\ \/ c = "handler" /\ s = 0 /\ 0 \in submitted[i]
         \/ /\ c = "loop" /\ s > 0 /\ i \in Requests
            /\ s - 1 \in submitted[i] /\ s \notin submitted[i]
      /\ Rest(c) \in Seq(Frames) /\ Quiet(Rest(c))
    BY <1>1, SubmissionOf DEF Submission
<1>3. Less
    BY <1>1 DEF Less
<1>4. submitted \in [Ids -> SUBSET Stages]
    BY DEF TypeOK
<1> HIDE DEF i, s
<1>5. CASE c = "handler"
    <2>1. submitted' = submitted
        BY <1>1, <1>2, <1>4, <1>5
    <2>2. Tokens'
        BY <1>1, <1>2, <1>3, <1>5, <2>1, QuietStep
    <2> QED BY <1>1, <1>2, <2>2 DEF i, s
<1>6. CASE c = "loop"
    <2>1. todo'[c] = Rest(c) /\ \A d \in Coroutines \ {c} : todo'[d] = todo[d]
        BY <1>1, <1>2, Continued
    <2>2. todo'[c] # <<>> => /\ Head(todo'[c]).op \notin Submission
                             /\ \A g \in Elements(Tail(todo'[c])) : g.op \notin Submission
        BY <1>2, <2>1, ElementsOfTail DEF Quiet
    <2>3. SubmissionsInFront'
        BY <2>1, <2>2 DEF SubmissionsInFront, Tokens, Rest
    <2>4. \A j \in Ids : submitted[j] \subseteq submitted'[j]
        BY <1>1, <1>2, <1>4
    <2>5. SubmissionFrames'
        <3> SUFFICES ASSUME NEW d \in Coroutines, NEW op \in Submission, NEW j \in Ids,
                            NEW t \in Stages, Making(d, op, j, t)'
                     PROVE  /\ d = "handler" /\ t = 0 /\ 0 \in submitted'[j]
                            /\ op # "send" => NoEnd(j, t)'
            BY DEF SubmissionFrames
        <3>1. d # "loop" /\ Making(d, op, j, t)
            BY <1>6, <2>1, <2>2 DEF Making
        <3>2. /\ d = "handler" /\ t = 0 /\ 0 \in submitted[j]
              /\ op # "send" => NoEnd(j, t)
            BY <3>1 DEF SubmissionFrames, Tokens
        <3> QED BY <1>3, <2>4, <3>2, LessKeeps
    <2>6. HeldWasSubmitted'
        <3> SUFFICES ASSUME NEW a \in Slots, NEW j \in Ids, Holds(a, j)'
                     PROVE  a[1] \in submitted'[j]
            BY DEF HeldWasSubmitted
        <3>1. \/ a[1] \in submitted[j]
              \/ f = Send(j, a[1])
            BY <1>3, <1>6, LessKeeps DEF HeldWasSubmitted, Tokens
        <3>2. f = Send(j, a[1]) => j = i /\ a[1] = s
            BY DEF Send, i, s
        <3>3. s \in submitted'[i]
            BY <1>1, <1>2, <1>4
        <3> QED BY <2>4, <3>1, <3>2, <3>3
    <2> QED BY <1>1, <1>2, <1>3, <2>3, <2>5, <2>6, LessKeeps DEF Tokens, i, s
<1> QED
    BY <1>2, <1>5, <1>6

LEMMA EndIsHeld ==
    ASSUME NEW slot \in Slots, NEW i \in Ids, ~Holds(slot, i)
    PROVE  i \notin work[slot] /\ Ends(out[slot], i) = {}
BY DEF Holds, Ends, IsEnd, Elements

\* A new request: nobody has it yet.
LEMMA RegisterStep ==
    ASSUME TypeOK, Tokens, NEW i \in Ids, submitted[i] = {}, todo["handler"] = <<>>,
           submitted' = [submitted EXCEPT ![i] = {0}],
           Continue("handler", <<Pick(i, 0)>>), UNCHANGED <<work, out>>
    PROVE  Tokens'
<1>1. "handler" \in Coroutines /\ "loop" \in Coroutines /\ 0 \in Stages
      /\ Pick(i, 0) \in Frames /\ Pick(i, 0).op = "pick" /\ Pick(i, 0).id = i
      /\ Pick(i, 0).stage = 0
    BY ParentIs, FrameMakers DEF Coroutines, Pick
<1>2. Less
    BY DEF Less
<1>3. /\ \A j \in Ids : submitted[j] \subseteq submitted'[j]
      /\ \A j \in Ids : submitted'[j] = submitted[j] \/ submitted[j] = {}
      /\ 0 \in submitted'[i]
    BY DEF TypeOK
<1>4. \A slot \in Slots : ~Holds(slot, i)
    <2> SUFFICES ASSUME NEW slot \in Slots, Holds(slot, i) PROVE FALSE
        OBVIOUS
    <2>1. todo["loop"] # <<>> /\ Head(todo["loop"]) = Send(i, slot[1])
        BY DEF HeldWasSubmitted, Tokens
    <2>2. Send(i, slot[1]).op \in Submission /\ Send(i, slot[1]).id = i
        BY DEF Send, Submission
    <2> QED BY <1>1, <2>1, <2>2, SubmissionOf
<1>5. NoEnd(i, 0)'
    <2>1. NoEnd(i, 0)
        BY <1>4, EndIsHeld DEF NoEnd
    <2> QED BY <1>1, <1>2, <2>1, LessKeeps
<1>6. /\ <<>> \in Seq(Frames) /\ Quiet(<<>>) /\ <<Pick(i, 0)>> \o <<>> = <<Pick(i, 0)>>
    <2>1. <<>> \in Seq(Frames) /\ Elements(<<>>) = {} /\ <<Pick(i, 0)>> \in Seq(Frames)
        BY <1>1, FrameAlone
    <2> QED BY <2>1, ConcatEmptySeq DEF Quiet
<1>7. SubmissionsInFront' /\ SubmissionFrames'
    <2> DEFINE f == Pick(i, 0)
    <2>1. /\ f \in Frames /\ f.op = "pick" /\ f.id = i /\ f.stage = 0
          /\ Continue("handler", <<f>> \o <<>>)
        BY <1>1, <1>6
    <2> HIDE DEF f
    <2> QED BY <1>1, <1>2, <1>3, <1>5, <1>6, <2>1, LessKeeps, FrontStep DEF Submission
<1>8. HeldWasSubmitted'
    <2>1. todo'["loop"] = todo["loop"]
        <3>1. <<Pick(i, 0)>> \in Seq(Frames)
            BY <1>1, FrameAlone
        <3> QED BY <1>1, <3>1, Continued
    <2> QED BY <1>2, <1>3, <2>1, LessKeeps DEF HeldWasSubmitted, Tokens
<1> QED
    BY <1>2, <1>7, <1>8, LessKeeps DEF Tokens

\* A request that goes on to the next stage: no replica of it has it yet.
LEMMA ForwardStep ==
    ASSUME TypeOK, Tokens, NEW r \in Requests, NEW s \in Stages \ {LastStage},
           s \in submitted[r], s + 1 \notin submitted[r], todo["loop"] = <<>>,
           NEW following \in Seq(Frames), Quiet(following),
           Continue("loop", <<Pick(r, s + 1)>> \o following), Less, submitted' = submitted
    PROVE  Tokens'
<1> DEFINE f == Pick(r, s + 1)
<1>1. "loop" \in Coroutines /\ s + 1 \in Stages /\ s \in Int /\ s >= 0 /\ r \in Ids
    BY ParentIs DEF Coroutines, Ids
<1>2. f \in Frames /\ f.op = "pick" /\ f.id = r /\ f.stage = s + 1
    BY <1>1, FrameMakers DEF Pick
<1> HIDE DEF f
<1>3. \A slot \in Slots : slot[1] = s + 1 => ~Holds(slot, r)
    BY <1>1 DEF HeldWasSubmitted, Tokens
<1>4. NoEnd(r, s + 1)'
    <2>1. NoEnd(r, s + 1)
        BY <1>1, <1>3, EndIsHeld DEF NoEnd
    <2> QED BY <1>1, <2>1, LessKeeps
<1>5. SubmissionsInFront' /\ SubmissionFrames'
    <2>1. Continue("loop", <<f>> \o following)
        BY DEF f
    <2>2. /\ f.stage > 0 /\ f.stage - 1 \in submitted'[f.id] /\ f.stage \notin submitted'[f.id]
          /\ NoEnd(f.id, f.stage)'
        BY <1>1, <1>2, <1>4
    <2> QED BY <1>1, <1>2, <2>1, <2>2, LessKeeps, FrontStep DEF Submission
<1>6. HeldWasSubmitted'
    BY LessKeeps DEF HeldWasSubmitted, Tokens
<1> QED
    BY <1>5, <1>6, LessKeeps DEF Tokens

LEMMA EndsOfAppend ==
    ASSUME NEW q \in Seq(Outputs), NEW o \in Outputs, NEW i
    PROVE  /\ Ends(Append(q, o), i) = Ends(q, i) \cup (IF IsEnd(o, i) THEN {Len(q) + 1} ELSE {})
           /\ Elements(Append(q, o)) = Elements(q) \cup {o}
<1>1. /\ Len(q) \in Nat /\ DOMAIN q = 1 .. Len(q) /\ DOMAIN Append(q, o) = 1 .. Len(q) + 1
      /\ \A n \in 1 .. Len(q) : Append(q, o)[n] = q[n]
      /\ Append(q, o)[Len(q) + 1] = o
    OBVIOUS
<1>2. /\ \A n \in DOMAIN Append(q, o) :
             n = Len(q) + 1 \/ (n \in DOMAIN q /\ Append(q, o)[n] = q[n])
      /\ \A n \in DOMAIN q : n \in DOMAIN Append(q, o) /\ Append(q, o)[n] = q[n]
      /\ Len(q) + 1 \in DOMAIN Append(q, o)
    BY <1>1
<1>3. Ends(Append(q, o), i) = Ends(q, i) \cup (IF IsEnd(o, i) THEN {Len(q) + 1} ELSE {})
    BY <1>1, <1>2 DEF Ends
<1>4. Elements(Append(q, o)) = Elements(q) \cup {o}
    BY <1>1, <1>2 DEF Elements
<1> QED
    BY <1>3, <1>4

\* An engine answers: what it computed is an output now, or is still computed
\* after a kv_ready.
LEMMA AnswerStep ==
    ASSUME TypeOK, Tokens, NEW slot \in Slots, NEW i \in Ids, i \in work[slot],
           NEW o \in Outputs, o.id = i, out' = [out EXCEPT ![slot] = Append(@, o)],
           work' = IF o.kind = "kv_ready" THEN work ELSE [work EXCEPT ![slot] = @ \ {i}],
           UNCHANGED <<submitted, todo>>
    PROVE  Tokens'
<1>1. \A a \in Slots : out[a] \in Seq(Outputs)
    BY DEF TypeOK
<1>2. \A a \in Slots :
          /\ \A j \in Ids : j \in work'[a] <=>
                 j \in work[a] /\ ~(a = slot /\ j = i /\ o.kind # "kv_ready")
          /\ a # slot => out'[a] = out[a]
    BY DEF TypeOK
<1>3. /\ out'[slot] = Append(out[slot], o)
      /\ Elements(out'[slot]) = Elements(out[slot]) \cup {o}
      /\ \A j \in Ids : Ends(out'[slot], j) = Ends(out[slot], j)
             \cup (IF j = i /\ o.kind # "kv_ready" THEN {Len(out[slot]) + 1} ELSE {})
    <2>1. out'[slot] = Append(out[slot], o)
        BY DEF TypeOK
    <2>2. /\ \A j \in Ids : Ends(out'[slot], j) = Ends(out[slot], j)
                  \cup (IF IsEnd(o, j) THEN {Len(out[slot]) + 1} ELSE {})
          /\ Elements(out'[slot]) = Elements(out[slot]) \cup {o}
        BY <1>1, <2>1, EndsOfAppend
    <2> QED BY <2>1, <2>2 DEF IsEnd
<1>4. \A j \in Ids, s \in Stages : NoEnd(j, s) => NoEnd(j, s)'
    <2> SUFFICES ASSUME NEW j \in Ids, NEW s \in Stages, NoEnd(j, s), NEW a \in Slots, a[1] = s
                 PROVE  j \notin work'[a] /\ Ends(out'[a], j) = {}
        BY DEF NoEnd
    <2>1. j \notin work[a] /\ Ends(out[a], j) = {}
        BY DEF NoEnd
    <2> QED BY <1>2, <1>3, <2>1
<1>5. SubmissionsInFront'
    BY DEF SubmissionsInFront, Tokens, Rest
<1>6. SubmissionFrames'
    <2>1. \A d, op, j, s : Making(d, op, j, s)' => Making(d, op, j, s)
        BY DEF Making
    <2> QED BY <1>4, <2>1 DEF SubmissionFrames, Tokens
<1>7. HeldWasSubmitted'
    <2>1. \A a \in Slots, j \in Ids : Holds(a, j)' => Holds(a, j)
        BY <1>2, <1>3 DEF Holds
    <2> QED BY <2>1 DEF HeldWasSubmitted, Tokens
<1>8. OnceInAStage'
    <2> SUFFICES ASSUME NEW j \in Ids, NEW a \in Slots, NEW b \in Slots, a[1] = b[1]
                 PROVE  /\ j \in work'[a] /\ j \in work'[b] => a = b
                        /\ j \in work'[a] => Ends(out'[b], j) = {}
                        /\ Ends(out'[a], j) # {} /\ Ends(out'[b], j) # {} => a = b
                        /\ \A m, n \in Ends(out'[a], j) : m = n
        BY DEF OnceInAStage
    <2>1. /\ j \in work[a] /\ j \in work[b] => a = b
          /\ j \in work[a] => Ends(out[b], j) = {}
          /\ j \in work[b] => Ends(out[a], j) = {} /\ Ends(out[b], j) = {}
          /\ j \in work[a] => Ends(out[a], j) = {}
          /\ Ends(out[a], j) # {} /\ Ends(out[b], j) # {} => a = b
          /\ \A m, n \in Ends(out[a], j) : m = n
        BY DEF OnceInAStage, Tokens
    <2>2. CASE j # i \/ o.kind = "kv_ready"
        <3>1. \A d \in {a, b} : Ends(out'[d], j) = Ends(out[d], j) /\ (j \in work'[d] => j \in work[d])
            BY <1>2, <1>3, <2>2
        <3> QED BY <2>1, <3>1
    <2>3. CASE j = i /\ o.kind # "kv_ready" /\ a[1] # slot[1]
        BY <1>2, <1>3, <2>1, <2>3
    <2>4. CASE j = i /\ o.kind # "kv_ready" /\ a[1] = slot[1]
        <3>1. \A d \in Slots : d[1] = slot[1] => /\ i \in work[d] => d = slot
                                                 /\ Ends(out[d], i) = {}
            BY DEF OnceInAStage, Tokens
        <3>2. \A d \in {a, b} : /\ j \notin work'[d]
                                /\ d # slot => Ends(out'[d], j) = {}
                                /\ d = slot => Ends(out'[d], j) = {Len(out[slot]) + 1}
            BY <1>2, <1>3, <2>4, <3>1
        <3> QED BY <2>4, <3>2
    <2> QED BY <2>2, <2>3, <2>4
<1> QED
    BY <1>5, <1>6, <1>7, <1>8 DEF Tokens

-----------------------------------------------------------------------------
(* The order of the stages, and what clients know.                         *)

\* What one step does to the outcomes: it settles requests that wait, with a
\* result only after the last stage.
Answering ==
    \A r \in Requests :
        \/ outcome'[r] = outcome[r]
        \/ /\ outcome[r] = "waiting"
           /\ \/ outcome'[r] \in {"error", "aborted", "empty"}
              \/ outcome'[r] = "ok" /\ LastStage \in submitted[r]

\* What one step does to the submissions of a request: it goes on by one stage.
Advancing ==
    \A i \in Ids :
        \/ submitted'[i] = submitted[i]
        \/ submitted[i] = {} /\ submitted'[i] = {0} /\ Owner(i) \in sent
        \/ \E m \in Stages : /\ m + 1 \in Stages
                             /\ submitted[i] = 0 .. m /\ submitted'[i] = 0 .. m + 1

LEMMA MessageIds ==
    ASSUME NEW q \in Seq(Messages)
    PROVE  \A m \in Elements(q) : m \in Messages /\ m.id \in Ids
<1>1. \A m \in Messages : m.id \in Ids
    BY DEF Messages, Ids
<1>2. \A n \in DOMAIN q : q[n] \in Messages
    OBVIOUS
<1> QED BY <1>1, <1>2 DEF Elements

\* What one step notes about a stage it was submitted to.
Noting ==
    /\ \A i \in Ids : finals'[i] \subseteq finals[i] \cup submitted[i]
    /\ \A r \in Requests : pending'[r] \in {-1, pending[r]} \cup submitted[r]

LEMMA ToldAnswers ==
    ASSUME TypeOK, NEW ids, NEW kind \in {"error", "aborted", "empty"}, outcome' = Told(ids, kind)
    PROVE  Answering
BY DEF Told, Answering

\* A step that submits nothing and takes nothing back.
LEMMA OrderStep ==
    ASSUME TypeOK, SubmittedInOrder, submitted' = submitted, Noting
    PROVE  SubmittedInOrder' /\ Advancing
BY DEF SubmittedInOrder, Advancing, Noting

LEMMA NothingNoted ==
    ASSUME TypeOK, finals' = finals, \A r \in Requests : pending'[r] \in {-1, pending[r]}
    PROVE  Noting
BY DEF Noting

\* A step that leaves the queue alone, and goes on with requests that are known.
LEMMA KnownStep ==
    ASSUME TypeOK, NewUntilHandled, KnownWasSent, UNCHANGED <<sent, inbox>>, Answering,
           \A i \in Ids : submitted'[i] = submitted[i] \/ submitted[i] # {}
    PROVE  NewUntilHandled' /\ KnownWasSent'
<1>1. \A m \in Elements(inbox) : m.id \in Ids
    BY MessageIds DEF TypeOK
<1>2. NewUntilHandled'
    BY <1>1 DEF NewUntilHandled
<1>3. KnownWasSent'
    BY DEF KnownWasSent, Answering
<1> QED BY <1>2, <1>3

\* The conjuncts of the invariant, as the lemmas about the steps need them.
LEMMA PlacementIs ==
    /\ PlacementInv <=> Tokens /\ SubmittedInOrder /\ NewUntilHandled /\ KnownWasSent
    /\ PlacementInv' <=> Tokens' /\ SubmittedInOrder' /\ NewUntilHandled' /\ KnownWasSent'
BY DEF PlacementInv, Tokens

Kept == PlacementInv' /\ Answering /\ Advancing

\* A step of a coroutine that submits nothing.
LEMMA QuietKept ==
    ASSUME TypeOK, PlacementInv, NEW c \in Coroutines, NEW frames \in Seq(Frames),
           Continue(c, frames), Quiet(frames), Less,
           c = "loop" /\ todo[c] # <<>> => Head(todo[c]).op # "send",
           UNCHANGED <<sent, inbox, submitted>>, Answering, Noting
    PROVE  Kept
BY PlacementIs, QuietStep, OrderStep, KnownStep DEF Kept

LEMMA StillKept ==
    ASSUME TypeOK, PlacementInv, Less, UNCHANGED <<todo, sent, inbox, submitted, finals, outcome, pending>>
    PROVE  Kept
<1>1. Answering
    BY DEF Answering
<1> QED
    BY <1>1, PlacementIs, StillStep, OrderStep, NothingNoted, KnownStep DEF Kept

\* A failed submission.
LEMMA FailKept ==
    ASSUME TypeOK, PlacementInv, NEW c \in Coroutines, NEW i \in Ids,
           NEW following \in Seq(Frames), Quiet(following), FailThen(c, i, following), Less,
           c = "loop" /\ todo[c] # <<>> => Head(todo[c]).op # "send",
           UNCHANGED <<sent, inbox, submitted>>, Noting
    PROVE  Kept
<1> DEFINE f == Clean({Owner(i)}, TRUE)
<1>1. /\ outcome' = Told({Owner(i)}, "error") /\ f \in Frames
      /\ <<f>> \o following \in Seq(Frames) /\ Continue(c, <<f>> \o following)
    BY FailThenFrames
<1>2. f.op \notin Submission
    BY QuietFrames
<1> HIDE DEF f
<1>3. Quiet(<<f>> \o following)
    BY <1>1, <1>2, QuietInFront
<1>4. Answering
    BY <1>1, ToldAnswers
<1> QED
    BY <1>1, <1>3, <1>4, QuietKept

LEMMA DispatchKept ==
    ASSUME TypeOK, PlacementInv, NEW c \in Coroutines, At(c, "pick") \/ At(c, "wait"),
           NEW k, k \in Serviceable(Head(todo[c]).stage),
           Dispatch(c, Head(todo[c]).id, Head(todo[c]).stage, k),
           UNCHANGED <<sent, inbox, submitted, finals, pending, out>>
    PROVE  Kept
<1> DEFINE i == Head(todo[c]).id
           s == Head(todo[c]).stage
<1>1. /\ i \in Ids /\ s \in Stages /\ Rest(c) \in Seq(Frames) /\ Quiet(Rest(c))
      /\ todo[c] # <<>> /\ Head(todo[c]).op # "send"
    <2>1. todo[c] # <<>> /\ Head(todo[c]).op \in {"pick", "wait"}
        BY DEF At
    <2> QED BY <2>1, PlacementIs, SubmissionOf DEF Submission
<1>2. <<s, k>> \in Slots /\ Evict(s, k) \in Frames
    <2>1. <<s, k>> \in Slots
        BY DEF Serviceable, Live, ReplicasOf, TypeOK
    <2>2. Evict(<<s, k>>[1], <<s, k>>[2]) \in Frames
        BY <2>1, FrameMakers
    <2> QED BY <2>1, <2>2
<1>3. CASE /\ work' = IF <<s, k>> \in dead THEN work
                      ELSE [work EXCEPT ![<<s, k>>] = @ \cup {i}]
           /\ Continue(c, <<Send(i, s)>> \o Rest(c))
           /\ UNCHANGED outcome
    <2>1. Tokens'
        BY <1>2, <1>3, PlacementIs, SendStep
    <2>2. Answering
        BY <1>3 DEF Answering
    <2> QED BY <2>1, <2>2, PlacementIs, OrderStep, NothingNoted, KnownStep DEF Kept
<1>4. ASSUME NEW b, FailThen(c, i, (IF b = k THEN <<Evict(s, k)>> ELSE <<>>) \o Rest(c)),
             work' = work
      PROVE  Kept
    <2>1. /\ <<Evict(s, k)>> \o Rest(c) \in Seq(Frames) /\ Quiet(<<Evict(s, k)>> \o Rest(c))
        <3>1. Evict(s, k).op \notin Submission
            BY QuietFrames
        <3> QED BY <1>1, <1>2, <3>1, FramesInFront, QuietInFront
    <2>2. <<>> \o Rest(c) = Rest(c)
        BY <1>1, ConcatEmptySeq
    <2> DEFINE following == (IF b = k THEN <<Evict(s, k)>> ELSE <<>>) \o Rest(c)
    <2>3. following \in Seq(Frames) /\ Quiet(following)
        BY <1>1, <2>1, <2>2
    <2>4. Less
        BY <1>4 DEF Less
    <2>5. FailThen(c, i, following)
        BY <1>4
    <2> HIDE DEF following
    <2> QED BY <1>1, <2>3, <2>4, <2>5, NothingNoted, FailKept
<1> QED
    BY <1>3, <1>4 DEF Dispatch

\* A request is forwarded, from a poll.
LEMMA ForwardKept ==
    ASSUME TypeOK, PlacementInv, NEW r \in Requests, NEW s \in Stages \ {LastStage},
           s \in submitted[r], s + 1 \notin submitted[r], todo["loop"] = <<>>,
           NEW following \in Seq(Frames), Quiet(following), Forward(r, s, following),
           Less, UNCHANGED <<sent, inbox, submitted>>, Noting
    PROVE  Kept
<1>1. "loop" \in Coroutines /\ r \in Ids
    BY DEF Coroutines, Ids
<1>2. CASE FailThen("loop", r, following)
    BY <1>1, <1>2, FailKept
<1>3. CASE Continue("loop", <<Pick(r, s + 1)>> \o following) /\ UNCHANGED outcome
    <2>1. Tokens'
        BY <1>3, PlacementIs, ForwardStep
    <2>2. Answering
        BY <1>3 DEF Answering
    <2> QED BY <2>1, <2>2, PlacementIs, OrderStep, KnownStep DEF Kept
<1>4. CASE /\ outcome' = Told({r}, IF s + 1 \in Diffusion THEN "error" ELSE "empty")
           /\ Continue("loop", <<Clean({r}, FALSE)>> \o following)
    <2>1. Answering
        BY <1>4, ToldAnswers
    <2>2. Clean({r}, FALSE) \in Frames /\ Clean({r}, FALSE).op \notin Submission
        BY <1>1, FrameMakers, QuietFrames
    <2>3. /\ <<Clean({r}, FALSE)>> \o following \in Seq(Frames)
          /\ Quiet(<<Clean({r}, FALSE)>> \o following)
        BY <2>2, FramesInFront, QuietInFront
    <2> QED BY <1>1, <1>4, <2>1, <2>3, QuietKept
<1> QED
    BY <1>2, <1>3, <1>4 DEF Forward

\* A request is handed on, from a poll.
LEMMA HandOnKept ==
    ASSUME TypeOK, PlacementInv, NEW r \in Requests, NEW s \in Stages \ {LastStage},
           s \in submitted[r], s + 1 \notin submitted[r], todo["loop"] = <<>>,
           HandOn(r, s, <<>>), Less, UNCHANGED <<sent, inbox, submitted>>,
           \A i \in Ids : finals'[i] \subseteq finals[i] \cup submitted[i]
    PROVE  Kept
<1>1. "loop" \in Coroutines /\ <<>> \in Seq(Frames) /\ Quiet(<<>>)
    BY EmptySeq DEF Coroutines, Quiet, Elements
<1>2. CASE pending' = [pending EXCEPT ![r] = s] /\ Continue("loop", <<>>) /\ UNCHANGED outcome
    <2>1. Noting
        BY <1>2 DEF Noting, TypeOK
    <2>2. Answering
        BY <1>2 DEF Answering
    <2> QED BY <1>1, <1>2, <2>1, <2>2, QuietKept
<1>3. CASE Forward(r, s, <<>>) /\ UNCHANGED pending
    <2>1. Noting
        BY <1>3 DEF Noting
    <2> QED BY <1>1, <1>3, <2>1, ForwardKept
<1> QED
    BY <1>2, <1>3 DEF HandOn

LEMMA RoutingKept ==
    ASSUME TypeOK, PlacementInv, NEW i \in Ids, NEW kind, NEW s \in Stages, Routing(i, kind, s),
           s \in submitted[i], todo["loop"] = <<>>, Less, UNCHANGED <<sent, inbox, submitted>>
    PROVE  Kept
<1>a. /\ "loop" \in Coroutines /\ <<>> \in Seq(Frames) /\ Quiet(<<>>)
      /\ \A j \in Ids, a \in BOOLEAN : <<Clean({j}, a)>> \in Seq(Frames) /\ Quiet(<<Clean({j}, a)>>)
    <2>1. "loop" \in Coroutines /\ <<>> \in Seq(Frames) /\ Quiet(<<>>)
        BY EmptySeq DEF Coroutines, Quiet, Elements
    <2>2. ASSUME NEW j \in Ids, NEW a \in BOOLEAN
          PROVE  <<Clean({j}, a)>> \in Seq(Frames) /\ Quiet(<<Clean({j}, a)>>)
        <3>1. Clean({j}, a) \in Frames /\ Clean({j}, a).op \notin Submission
            BY FrameMakers, QuietFrames
        <3> QED BY <2>1, <3>1, FrameAlone, QuietInFront
    <2> QED BY <2>1, <2>2
<1>1. CASE Ignore
    <2>1. Answering /\ Noting
        BY <1>1 DEF Ignore, Answering, Noting, tracker
    <2> QED BY <1>1, <1>a, <2>1, QuietKept DEF Ignore
<1>2. CASE RouteError(i)
    <2>1. (IF IsCompanion(i) THEN Parent[i] ELSE i) \in Ids
        BY ParentIs DEF IsCompanion, Ids
    <2>2. Answering /\ Noting
        BY <1>2, ToldAnswers DEF RouteError, Noting, tracker
    <2> QED BY <1>2, <1>a, <2>1, <2>2, QuietKept DEF RouteError
<1>3. CASE i \in Requests /\ RouteKVReady(i, s)
    <2>1. CASE Ignore
        BY <2>1, <1>1
    <2>2. CASE /\ s < LastStage /\ ~NextSubmitted(i, s)
               /\ HandOn(i, s, <<>>) /\ UNCHANGED <<registered, done, finals>>
        <3>1. s \in Stages \ {LastStage}
            BY <2>2, ParentIs
        <3> QED BY <1>3, <2>2, <3>1, HandOnKept DEF NextSubmitted
    <2> QED BY <1>3, <2>1, <2>2 DEF RouteKVReady
<1>4. CASE IsCompanion(i) /\ RouteCompanion(i)
    <2> DEFINE p == Parent[i]
    <2>1. i \in Companions /\ p \in Requests
        BY <1>4, ParentIs DEF IsCompanion
    <2>2. <<Clean({i}, FALSE)>> \in Seq(Frames) /\ Quiet(<<Clean({i}, FALSE)>>)
        BY <1>a
    <2>3. CASE /\ pending[p] # -1 /\ pending' = [pending EXCEPT ![p] = -1]
               /\ ~NextSubmitted(p, pending[p])
               /\ Forward(p, pending[p], <<Clean({i}, FALSE)>>) /\ UNCHANGED <<registered, finals>>
        <3>1. pending[p] \in Stages \ {LastStage} /\ pending[p] \in submitted[p]
            BY <2>1, <2>3 DEF TypeOK, PlacementInv, SubmittedInOrder
        <3>2. Noting
            BY <2>3 DEF Noting, TypeOK
        <3> QED BY <2>1, <2>2, <2>3, <3>1, <3>2, ForwardKept DEF NextSubmitted
    <2>4. CASE /\ pending' = [pending EXCEPT ![p] = -1] \/ pending' = pending
               /\ Continue("loop", <<Clean({i}, FALSE)>>) /\ UNCHANGED <<outcome, registered, finals>>
        <3>1. Answering /\ Noting
            BY <2>4 DEF Answering, Noting, TypeOK
        <3> QED BY <1>a, <2>2, <2>4, <3>1, QuietKept
    <2> QED BY <1>4, <2>3, <2>4 DEF RouteCompanion
<1>5. CASE ~IsCompanion(i) /\ RouteFinished(i, s)
    <2>1. \A j \in Ids : finals'[j] \subseteq finals[j] \cup submitted[j]
        BY <1>5 DEF RouteFinished, TypeOK
    <2>2. CASE s < Final(i) /\ ~NextSubmitted(i, s) /\ HandOn(i, s, <<>>)
        <3>1. i \in Requests /\ s \in Stages \ {LastStage}
            BY <2>2, ParentIs DEF Final, Ids
        <3> QED BY <2>1, <2>2, <3>1, HandOnKept DEF NextSubmitted
    <2> DEFINE complete == s \in FinalOutput /\ FinalStages(i) \subseteq finals[i] \cup {s}
    <2>3. CASE /\ outcome' = IF complete THEN Told({i}, "ok") ELSE outcome
               /\ Continue("loop", IF complete THEN <<Clean({i}, FALSE)>> ELSE <<>>)
               /\ UNCHANGED pending
        <3>1. complete /\ i \in Requests => LastStage \in submitted[i]
            BY OrchestratorAssumption DEF FinalStages, PlacementInv, SubmittedInOrder, Ids
        <3> HIDE DEF complete
        <3>2. Answering
            BY <2>3, <3>1 DEF Answering, Told
        <3>3. Noting
            BY <2>1, <2>3 DEF Noting
        <3> QED BY <1>a, <2>3, <3>2, <3>3, QuietKept
    <2> QED BY <1>5, <2>2, <2>3 DEF RouteFinished
<1> QED
    BY <1>1, <1>2, <1>3, <1>4, <1>5 DEF Routing

-----------------------------------------------------------------------------
(* The queue of the handler.                                               *)

OnceEach(q) == \A m, n \in DOMAIN q : q[m] = q[n] /\ q[m].type # "abort" => m = n

LEMMA OnceInConcat ==
    ASSUME NEW q \in Seq(Messages), NEW p \in Seq(Messages), OnceEach(q), OnceEach(p),
           \A x \in Elements(q) \cap Elements(p) : x.type = "abort"
    PROVE  OnceEach(q \o p)
<1>1. \A n \in DOMAIN (q \o p) :
          \/ n \in DOMAIN q /\ (q \o p)[n] = q[n]
          \/ n - Len(q) \in DOMAIN p /\ (q \o p)[n] = p[n - Len(q)]
    OBVIOUS
<1>2. DOMAIN (q \o p) \subseteq Int /\ Len(q) \in Int
    OBVIOUS
<1> DEFINE r == q \o p
<1> SUFFICES ASSUME NEW m \in DOMAIN r, NEW n \in DOMAIN r, r[m] = r[n], r[m].type # "abort"
             PROVE  m = n
    BY DEF OnceEach
<1>3. \/ m \in DOMAIN q /\ r[m] = q[m]
      \/ m - Len(q) \in DOMAIN p /\ r[m] = p[m - Len(q)]
    BY <1>1
<1>4. \/ n \in DOMAIN q /\ r[n] = q[n]
      \/ n - Len(q) \in DOMAIN p /\ r[n] = p[n - Len(q)]
    BY <1>1
<1>5. m \in Int /\ n \in Int
    BY <1>2
<1> HIDE DEF r
<1> QED
    BY <1>2, <1>3, <1>4, <1>5 DEF OnceEach, Elements

LEMMA OnceInTail ==
    ASSUME NEW q \in Seq(Messages), q # <<>>, OnceEach(q)
    PROVE  /\ OnceEach(Tail(q)) /\ Head(q) \in Messages /\ Tail(q) \in Seq(Messages)
           /\ Elements(q) = {Head(q)} \cup Elements(Tail(q))
           /\ Head(q).type # "abort" => Head(q) \notin Elements(Tail(q))
<1>1. /\ Len(q) \in Nat /\ Len(q) > 0 /\ Head(q) = q[1] /\ 1 \in DOMAIN q
      /\ DOMAIN Tail(q) = 1 .. Len(q) - 1 /\ DOMAIN q = 1 .. Len(q)
      /\ \A n \in 1 .. Len(q) - 1 : Tail(q)[n] = q[n + 1]
    OBVIOUS
<1>2. \A n \in DOMAIN Tail(q) : n \in Int /\ n > 0 /\ n + 1 \in DOMAIN q /\ Tail(q)[n] = q[n + 1]
    BY <1>1
<1>3. OnceEach(Tail(q))
    <2> SUFFICES ASSUME NEW m \in DOMAIN Tail(q), NEW n \in DOMAIN Tail(q),
                        Tail(q)[m] = Tail(q)[n], Tail(q)[m].type # "abort"
                 PROVE  m = n
        BY DEF OnceEach
    <2>1. m + 1 = n + 1
        BY <1>2 DEF OnceEach
    <2> QED BY <1>2, <2>1
<1>4. ASSUME Head(q).type # "abort", Head(q) \in Elements(Tail(q)) PROVE FALSE
    <2>1. PICK n \in DOMAIN Tail(q) : Tail(q)[n] = Head(q)
        BY <1>4 DEF Elements
    <2>2. q[n + 1] = q[1] /\ n + 1 \in DOMAIN q /\ n + 1 # 1
        BY <1>1, <1>2, <2>1
    <2> QED BY <1>1, <1>4, <2>2 DEF OnceEach
<1> QED
    BY <1>3, <1>4, ElementsOfTail

\* Of a request or a companion there is one message that makes it known.
LEMMA MessageOf ==
    ASSUME NEW m \in Messages, NEW n \in Messages, m.type # "abort", n.type # "abort", m.id = n.id
    PROVE  m = n
<1>1. Requests \cap Companions = {}
    BY OrchestratorAssumption
<1> QED BY <1>1 DEF Messages

\* The handler takes a message, and registers what it is about or not.
LEMMA TakenKept ==
    ASSUME TypeOK, NewUntilHandled, KnownWasSent, inbox # <<>>, inbox' = Tail(inbox), sent' = sent,
           Answering,
           \/ submitted' = submitted
           \/ /\ Head(inbox).type # "abort"
              /\ submitted' = [submitted EXCEPT ![Head(inbox).id] = {0}]
    PROVE  NewUntilHandled' /\ KnownWasSent'
<1> DEFINE m == Head(inbox)
<1>1. inbox \in Seq(Messages) /\ OnceEach(inbox)
    BY DEF TypeOK, NewUntilHandled, OnceEach
<1>2. /\ OnceEach(Tail(inbox)) /\ m \in Messages
      /\ Elements(inbox) = {m} \cup Elements(Tail(inbox))
      /\ m.type # "abort" => m \notin Elements(Tail(inbox))
    BY <1>1, OnceInTail
<1>3. \A n \in Elements(inbox) : n \in Messages /\ n.id \in Ids
    BY <1>1, MessageIds
<1>4. \A n \in Elements(inbox) : n.type # "abort" => submitted[n.id] = {} /\ Owner(n.id) \in sent
    BY DEF NewUntilHandled
<1> HIDE DEF m
<1>5. \/ submitted' = submitted
      \/ m.type # "abort" /\ submitted' = [submitted EXCEPT ![m.id] = {0}]
    BY DEF m
<1>6. ASSUME NEW n \in Elements(Tail(inbox)), n.type # "abort"
      PROVE  submitted'[n.id] = {} /\ Owner(n.id) \in sent'
    <2>1. submitted[n.id] = {} /\ Owner(n.id) \in sent' /\ n.id \in Ids /\ n \in Messages
        BY <1>2, <1>3, <1>4, <1>6
    <2>2. m.type # "abort" => n.id # m.id
        BY <1>2, <1>6, <2>1, MessageOf
    <2> QED BY <1>5, <2>1, <2>2 DEF TypeOK
<1>7. NewUntilHandled'
    BY <1>2, <1>6 DEF NewUntilHandled, OnceEach
<1>8. KnownWasSent'
    <2>1. m.type # "abort" => Owner(m.id) \in sent
        BY <1>2, <1>4
    <2>2. ASSUME NEW i \in Ids, submitted'[i] # {} PROVE Owner(i) \in sent'
        <3>1. submitted'[i] = submitted[i] \/ (m.type # "abort" /\ i = m.id)
            BY <1>5 DEF TypeOK
        <3> QED BY <2>1, <2>2, <3>1 DEF KnownWasSent
    <2>3. \A r \in Requests : outcome'[r] = "idle" <=> r \notin sent'
        BY DEF KnownWasSent, Answering
    <2> QED BY <2>2, <2>3 DEF KnownWasSent
<1> QED
    BY <1>7, <1>8

\* A client submits a request.
LEMMA SubmitKept ==
    ASSUME TypeOK, PlacementInv, NEW r \in Requests, Submit(r)
    PROVE  PlacementInv' /\ Advancing
<1> DEFINE first == <<[type |-> "add", id |-> r]>>
           second == SetToSeq(CompanionMessages(r))
<1>1. /\ r \notin sent /\ sent' = sent \cup {r} /\ outcome' = [outcome EXCEPT ![r] = "waiting"]
      /\ inbox' = inbox \o first \o second
      /\ UNCHANGED <<todo, work, out, submitted, finals, pending>>
    BY DEF Submit, requests, tracker, engines, CompanionMessages
<1>2. Tokens'
    <2>1. Less
        BY <1>1 DEF Less
    <2> QED BY <1>1, <2>1, PlacementIs, StillStep
<1>3. SubmittedInOrder' /\ Advancing
    <2>1. Noting
        BY <1>1 DEF Noting
    <2> QED BY <1>1, <2>1, PlacementIs, OrderStep
<1>4. KnownWasSent'
    BY <1>1 DEF KnownWasSent, PlacementInv, TypeOK
<1>5. /\ first \in Seq(Messages) /\ Elements(first) = {[type |-> "add", id |-> r]}
      /\ OnceEach(first)
    BY ElementsOfOne DEF Messages, OnceEach
<1>6. /\ second \in Seq(Messages) /\ Elements(second) = CompanionMessages(r)
      /\ OnceEach(second)
    BY MessagesOfSubmit, SetToSeqOfFinite DEF OnceEach
<1>7. inbox \in Seq(Messages) /\ OnceEach(inbox)
    BY DEF TypeOK, NewUntilHandled, OnceEach, PlacementInv
<1>8. \A n \in Elements(inbox) : n.type # "abort" => Owner(n.id) # r
    BY <1>1 DEF NewUntilHandled, PlacementInv
<1>9. Owner(r) = r /\ \A c \in CompanionsOf(r) : c \in Companions /\ c \in Ids /\ Owner(c) = r
    BY OrchestratorAssumption DEF Owner, CompanionsOf, Ids
<1> HIDE DEF first, second
<1>10. /\ inbox \o first \in Seq(Messages) /\ OnceEach(inbox \o first)
       /\ Elements(inbox \o first) = Elements(inbox) \cup Elements(first)
    <2>1. \A x \in Elements(inbox) \cap Elements(first) : x.type = "abort"
        BY <1>5, <1>8, <1>9
    <2> QED BY <1>5, <1>7, <2>1, OnceInConcat, MessagesJoined
<1>11. /\ OnceEach(inbox') /\ Elements(inbox') = Elements(inbox) \cup Elements(first) \cup Elements(second)
    <2>1. \A x \in Elements(inbox \o first) \cap Elements(second) : x.type = "abort"
        <3>1. \A x \in Elements(second) : x.type = "companion" /\ x.id \in CompanionsOf(r)
            BY <1>6 DEF CompanionMessages
        <3>2. \A x \in Elements(first) : x.type = "add"
            BY <1>5
        <3> QED BY <1>8, <1>9, <1>10, <3>1, <3>2
    <2>2. OnceEach((inbox \o first) \o second)
        BY <1>6, <1>10, <2>1, OnceInConcat
    <2>3. Elements((inbox \o first) \o second) = Elements(inbox \o first) \cup Elements(second)
        BY <1>6, <1>10, MessagesJoined
    <2> QED BY <1>1, <1>10, <2>2, <2>3
<1>12. NewUntilHandled'
    <2>1. \A i \in Ids : Owner(i) = r => submitted[i] = {}
        BY <1>1 DEF KnownWasSent, PlacementInv
    <2>2. ASSUME NEW m \in Elements(inbox'), m.type # "abort"
          PROVE  submitted'[m.id] = {} /\ Owner(m.id) \in sent'
        <3>1. CASE m \in Elements(inbox)
            BY <1>1, <2>2, <3>1 DEF NewUntilHandled, PlacementInv
        <3>2. CASE m \in Elements(first) \cup Elements(second)
            <4>1. m.id = r \/ m.id \in CompanionsOf(r)
                BY <1>5, <1>6, <3>2 DEF CompanionMessages
            <4>2. r \in Ids
                BY DEF Ids
            <4> QED BY <1>1, <1>9, <2>1, <4>1, <4>2
        <3> QED BY <1>11, <2>2, <3>1, <3>2
    <2> QED BY <1>11, <2>2 DEF NewUntilHandled, OnceEach
<1> QED
    BY <1>2, <1>3, <1>4, <1>12, PlacementIs

-----------------------------------------------------------------------------
(* Every step keeps the placement of the submissions.                      *)

LEMMA InitPlaced == Init => PlacementInv
<1> SUFFICES ASSUME Init PROVE PlacementInv
    OBVIOUS
<1>1. \A c \in Coroutines : todo[c] = <<>>
    BY DEF Init
<1>2. Elements(<<>>) = {} /\ \A i : Ends(<<>>, i) = {}
    BY DEF Elements, Ends
<1>3. SubmissionsInFront /\ SubmissionFrames
    BY <1>1 DEF SubmissionsInFront, SubmissionFrames, Making
<1>4. \A slot \in Slots : work[slot] = {} /\ out[slot] = <<>>
    BY DEF Init
<1>5. HeldWasSubmitted /\ OnceInAStage
    BY <1>2, <1>4 DEF HeldWasSubmitted, OnceInAStage, Holds
<1>6. SubmittedInOrder /\ KnownWasSent
    BY DEF SubmittedInOrder, KnownWasSent, Init
<1>7. NewUntilHandled
    BY <1>2 DEF NewUntilHandled, Init
<1> QED
    BY <1>3, <1>5, <1>6, <1>7 DEF PlacementInv

\* A step of a coroutine, which submits, fails to, or does something else.
LEMMA StepKept ==
    ASSUME TypeOK, PlacementInv, NEW c \in Coroutines, Step(c)
    PROVE  Kept
<1> DEFINE f == Head(todo[c])
<1> USE DEF client, requests, tracker, pools, engines, environment
<1>a. ASSUME NEW op, At(c, op)
      PROVE  /\ todo[c] # <<>> /\ f.op = op /\ f \in Frames /\ Rest(c) \in Seq(Frames)
             /\ Quiet(Rest(c))
    BY <1>a, AtFrame, QuietRest, PlacementIs DEF Tokens
<1>b. ASSUME NEW g \in Frames, g.op \notin Submission, NEW op, At(c, op)
      PROVE  <<g>> \o Rest(c) \in Seq(Frames) /\ Quiet(<<g>> \o Rest(c))
    BY <1>a, <1>b, FramesInFront, QuietInFront
<1>1. CASE PickReplica(c)
    <2>1. /\ At(c, "pick") /\ f.id \in Ids /\ f.stage \in Stages /\ f.op = "pick"
          /\ Rest(c) \in Seq(Frames) /\ Quiet(Rest(c))
        BY <1>1, <1>a, FrameFields DEF Submission, PickReplica
    <2>2. UNCHANGED <<sent, inbox, submitted, finals, pending, out>>
        BY <1>1 DEF PickReplica
    <2>3. CASE \E k \in Candidates(f.id, f.stage) : Dispatch(c, f.id, f.stage, k)
        BY <2>1, <2>2, <2>3, CandidatesServe, DispatchKept
    <2>4. CASE /\ Continue(c, <<Wait(f.id, f.stage)>> \o Rest(c))
               /\ UNCHANGED <<outcome, work>>
        <3>1. Tokens'
            BY <2>1, <2>2, <2>4, PlacementIs, WaitStep
        <3>2. Answering
            BY <2>4 DEF Answering
        <3> QED BY <2>2, <3>1, <3>2, PlacementIs, OrderStep, NothingNoted, KnownStep DEF Kept
    <2>5. CASE NoReplicaFor(c, f.id)
        <3>1. Less
            BY <2>2, <2>5 DEF Less, NoReplicaFor
        <3> QED BY <2>1, <2>2, <2>5, <3>1, NothingNoted, FailKept DEF NoReplicaFor
    <2> QED BY <1>1, <2>3, <2>4, <2>5 DEF PickReplica
<1>2. CASE EndWait(c)
    <2>1. /\ At(c, "wait") /\ f.id \in Ids /\ f.stage \in Stages /\ f.op = "wait"
          /\ Rest(c) \in Seq(Frames) /\ Quiet(Rest(c))
        BY <1>2, <1>a, FrameFields DEF Submission, EndWait
    <2>2. UNCHANGED <<sent, inbox, submitted, finals, pending, out>>
        BY <1>2 DEF EndWait
    <2>3. CASE \E k \in Serviceable(f.stage) : Dispatch(c, f.id, f.stage, k)
        BY <2>1, <2>2, <2>3, DispatchKept
    <2>4. CASE NoReplicaFor(c, f.id)
        <3>1. Less
            BY <2>2, <2>4 DEF Less, NoReplicaFor
        <3> QED BY <2>1, <2>2, <2>4, <3>1, NothingNoted, FailKept DEF NoReplicaFor
    <2> QED BY <1>2, <2>3, <2>4 DEF EndWait
<1>3. CASE Sent(c)
    <2>1. /\ Tokens' /\ f.id \in Ids /\ f.stage \in Stages
          /\ submitted' = [submitted EXCEPT ![f.id] = @ \cup {f.stage}]
          /\ f.stage \in submitted[f.id] \/ f.stage - 1 \in submitted[f.id]
        BY <1>3, PlacementIs, SentStep
    <2>2. UNCHANGED <<sent, inbox, finals, pending, outcome>>
        BY <1>3 DEF Sent
    <2>3. Answering
        BY <2>2 DEF Answering
    <2> DEFINE i == f.id
               s == f.stage
    <2>4. PICK m \in Stages : submitted[i] = 0 .. m
        BY <2>1 DEF PlacementInv, SubmittedInOrder
    <2> HIDE DEF i, s
    <2>5. \/ submitted'[i] = submitted[i]
          \/ m + 1 \in Stages /\ submitted'[i] = 0 .. m + 1
        <3>1. m \in Int /\ m >= 0 /\ s \in Stages /\ s \in Int
            BY <2>1, ParentIs DEF s
        <3>2. submitted'[i] = (0 .. m) \cup {s}
            BY <2>1, <2>4 DEF TypeOK, i, s
        <3>3. s \in 0 .. m \/ s = m + 1
            BY <2>1, <2>4, <3>1 DEF i, s
        <3>4. s \in 0 .. m => (0 .. m) \cup {s} = 0 .. m
            OBVIOUS
        <3>5. (0 .. m) \cup {m + 1} = 0 .. m + 1
            BY <3>1
        <3> QED BY <2>4, <3>1, <3>2, <3>3, <3>4, <3>5
    <2>6. \A j \in Ids \ {i} : submitted'[j] = submitted[j]
        BY <2>1 DEF TypeOK, i
    <2>7. Advancing
        BY <2>4, <2>5, <2>6 DEF Advancing
    <2>8. SubmittedInOrder'
        <3>1. \A j \in Ids : submitted[j] \subseteq submitted'[j]
            BY <2>1 DEF TypeOK
        <3>2. \A j \in Ids : submitted'[j] = {} \/ \E n \in Stages : submitted'[j] = 0 .. n
            BY <2>4, <2>5, <2>6 DEF PlacementInv, SubmittedInOrder
        <3>3. \A r \in Requests : r \in Ids
            BY DEF Ids
        <3> QED BY <2>2, <3>1, <3>2, <3>3 DEF PlacementInv, SubmittedInOrder
    <2>9. \A j \in Ids : submitted'[j] = submitted[j] \/ submitted[j] # {}
        <3>1. submitted[i] # {}
            BY <2>1 DEF i
        <3> QED BY <2>6, <3>1
    <2> QED BY <2>1, <2>2, <2>3, <2>7, <2>8, <2>9, PlacementIs, KnownStep DEF Kept
<1>4. CASE CleanStart(c)
    <2>1. /\ At(c, "clean") /\ UNCHANGED <<sent, inbox, submitted, finals, work, out>>
        BY <1>4 DEF CleanStart
    <2>2. /\ outcome' = Told(Orphaned(f.ids), "error")
          /\ pending' = [r \in Requests |-> IF r \in Parents(f.ids) THEN -1 ELSE pending[r]]
          /\ CleanNext(f) \in Frames /\ Continue(c, <<CleanNext(f)>> \o Rest(c))
        BY <1>4, CleanStartIs
    <2>3. CleanNext(f).op \notin Submission
        BY QuietFrames DEF CleanNext
    <2>4. Less /\ Answering
        BY <2>1, <2>2, ToldAnswers DEF Less
    <2>5. <<CleanNext(f)>> \o Rest(c) \in Seq(Frames) /\ Quiet(<<CleanNext(f)>> \o Rest(c))
        BY <1>b, <2>1, <2>2, <2>3
    <2>6. todo[c] # <<>> /\ Head(todo[c]).op # "send"
        BY <1>a, <2>1
    <2>7. Noting
        BY <2>1, <2>2, NothingNoted
    <2> QED BY <2>1, <2>2, <2>4, <2>5, <2>6, <2>7, QuietKept
<1>5. CASE AbortInPool(c)
    <2>1. /\ At(c, "abort") /\ UNCHANGED <<sent, inbox, submitted, finals, pending, outcome, out>>
        BY <1>5 DEF AbortInPool
    <2>2. f.op = "abort" /\ f.ids \subseteq Ids /\ f.stage \in Stages /\ f \in Frames
        BY <1>a, <2>1, FrameFields
    <2>3. /\ AfterAbortAt(f.ids, f.stage) \in Frames /\ ReleaseAt(f.ids, f.stage) \in Frames
          /\ AfterAbortAt(f.ids, f.stage).op \notin Submission
          /\ ReleaseAt(f.ids, f.stage).op \notin Submission
        BY <2>2, FrameMakers, ParentIs, QuietFrames DEF AfterAbortAt
    <2>4. \/ work' = work
          \/ work' = [slot \in Slots |->
                        IF slot[1] = f.stage
                        THEN work[slot] \ {i \in Here(f) : route[f.stage][i] = slot[2]}
                        ELSE work[slot]]
        BY <1>5, AbortInPoolIs
    <2>5. Less
        BY <2>1, <2>4 DEF Less
    <2>6. \/ Continue(c, <<AfterAbortAt(f.ids, f.stage)>> \o Rest(c))
          \/ Continue(c, <<ReleaseAt(f.ids, f.stage)>> \o Rest(c))
        BY <1>5, AbortInPoolIs
    <2>7. Answering
        BY <2>1 DEF Answering
    <2> QED BY <1>b, <2>1, <2>2, <2>3, <2>5, <2>6, <2>7, NothingNoted, QuietKept
<1>6. CASE ReleaseInPool(c)
    <2>1. /\ At(c, "release") /\ UNCHANGED <<sent, inbox, submitted, finals, pending, outcome, out, work>>
          /\ Continue(c, <<AfterAbortAt(f.ids, f.stage)>> \o Rest(c))
        BY <1>6 DEF ReleaseInPool
    <2>2. f.op = "release" /\ f.ids \subseteq Ids /\ f.stage \in Stages /\ f \in Frames
        BY <1>a, <2>1, FrameFields
    <2>3. /\ AfterAbortAt(f.ids, f.stage) \in Frames
          /\ AfterAbortAt(f.ids, f.stage).op \notin Submission
        BY <2>2, FrameMakers, ParentIs, QuietFrames DEF AfterAbortAt
    <2>4. Less /\ Answering
        BY <2>1 DEF Less, Answering
    <2> QED BY <1>b, <2>1, <2>2, <2>3, <2>4, NothingNoted, QuietKept
<1>7. CASE CleanEnd(c) \/ ReplyTo(c)
    <2>1. /\ At(c, "finish") \/ At(c, "reply")
          /\ UNCHANGED <<sent, inbox, submitted, finals, pending, out, work>>
          /\ Continue(c, Rest(c))
        BY <1>7 DEF CleanEnd, ReplyTo
    <2>2. /\ Rest(c) \in Seq(Frames) /\ Quiet(Rest(c)) /\ f \in Frames
          /\ f.op \in {"finish", "reply"}
        BY <1>a, <2>1
    <2>3. Answering
        <3>1. CASE CleanEnd(c)
            BY <3>1 DEF CleanEnd, Answering
        <3>2. CASE ReplyTo(c)
            <4>1. f.kind \in {"error", "aborted"}
                BY <1>a, <3>2, FrameFields DEF ReplyTo
            <4> QED BY <3>2, <4>1, ToldAnswers DEF ReplyTo
        <3> QED BY <1>7, <3>1, <3>2
    <2>4. Less
        BY <2>1 DEF Less
    <2> QED BY <2>1, <2>2, <2>3, <2>4, NothingNoted, QuietKept
<1>8. CASE EvictReplica(c)
    <2>1. At(c, "evict") /\ UNCHANGED <<sent, inbox, submitted, finals, pending>>
        BY <1>8 DEF EvictReplica
    <2>2. Rest(c) \in Seq(Frames) /\ Quiet(Rest(c)) /\ f.op = "evict"
        BY <1>a, <2>1
    <2>3. CASE /\ Disconnect(<<f.stage, f.at>>)
               /\ outcome' = Told(Victims(f), "error")
               /\ Continue(c, Cleanings(f) \o Rest(c))
        <3>1. /\ Cleanings(f) \in Seq(Frames)
              /\ Elements(Cleanings(f)) = {Clean({i}, TRUE) : i \in Victims(f)}
            BY CleaningsAre
        <3>2. /\ Cleanings(f) \o Rest(c) \in Seq(Frames)
              /\ Elements(Cleanings(f) \o Rest(c)) = Elements(Cleanings(f)) \cup Elements(Rest(c))
            BY <2>2, <3>1, ConcatProperties, ElementsOfConcat
        <3>3. Quiet(Cleanings(f) \o Rest(c))
            BY <2>2, <3>1, <3>2, QuietFrames DEF Quiet
        <3>4. Less
            BY <2>3 DEF Disconnect, Less, TypeOK
        <3>5. Answering
            BY <2>3, ToldAnswers
        <3> QED BY <2>1, <2>2, <2>3, <3>2, <3>3, <3>4, <3>5, NothingNoted, QuietKept
    <2>4. CASE Continue(c, Rest(c)) /\ UNCHANGED <<outcome, live, work, out>>
        <3>1. Less /\ Answering
            BY <2>4 DEF Less, Answering
        <3> QED BY <2>1, <2>2, <2>4, <3>1, NothingNoted, QuietKept
    <2> QED BY <1>8, <2>3, <2>4 DEF EvictReplica, Victims, Order, Cleanings
<1> QED
    BY <1>1, <1>2, <1>3, <1>4, <1>5, <1>6, <1>7, <1>8 DEF Step

\* What one step does to the outcomes, the submission of a request included.
Serving ==
    \A r \in Requests :
        \/ outcome'[r] = outcome[r]
        \/ outcome[r] = "idle" /\ outcome'[r] = "waiting"
        \/ /\ outcome[r] = "waiting"
           /\ \/ outcome'[r] \in {"error", "aborted", "empty"}
              \/ outcome'[r] = "ok" /\ LastStage \in submitted[r]

LEMMA PlacementStep ==
    TypeOK /\ PlacementInv /\ [Next]_vars => PlacementInv' /\ Serving /\ Advancing
<1> SUFFICES ASSUME TypeOK, PlacementInv, [Next]_vars PROVE PlacementInv' /\ Serving /\ Advancing
    OBVIOUS
<1> USE DEF client, requests, tracker, pools, engines, environment
<1>a. "handler" \in Coroutines /\ "loop" \in Coroutines /\ "member" \in Coroutines
      /\ <<>> \in Seq(Frames) /\ Quiet(<<>>)
    BY EmptySeq DEF Coroutines, Quiet, Elements
<1>b. Kept => PlacementInv' /\ Serving /\ Advancing
    BY DEF Kept, Serving, Answering
<1>1. ASSUME NEW r \in Requests, Submit(r) PROVE PlacementInv' /\ Serving /\ Advancing
    <2>1. outcome[r] = "idle" /\ outcome' = [outcome EXCEPT ![r] = "waiting"]
        BY <1>1 DEF Submit, PlacementInv, KnownWasSent
    <2>2. Serving
        BY <2>1 DEF Serving, TypeOK
    <2> QED BY <1>1, <2>2, SubmitKept
<1>2. ASSUME NEW r \in Requests, Cancel(r) PROVE PlacementInv' /\ Serving /\ Advancing
    <2> DEFINE m == [type |-> "abort", id |-> r]
    <2>1. /\ inbox' = Append(inbox, m)
          /\ UNCHANGED <<todo, work, out, submitted, finals, pending, outcome, sent>>
        BY <1>2 DEF Cancel
    <2>2. Less /\ Answering
        BY <2>1 DEF Less, Answering
    <2>3. inbox \in Seq(Messages) /\ m.type = "abort" /\ m \in Messages
        BY DEF TypeOK, Messages
    <2> HIDE DEF m
    <2>4. inbox' = inbox \o <<m>> /\ <<m>> \in Seq(Messages) /\ OnceEach(<<m>>)
        BY <2>1, <2>3 DEF OnceEach
    <2>5. OnceEach(inbox') /\ Elements(inbox') = Elements(inbox) \cup {m}
        <3>1. OnceEach(inbox)
            BY DEF OnceEach, PlacementInv, NewUntilHandled
        <3>2. Elements(<<m>>) = {m}
            BY ElementsOfOne
        <3>3. Elements(inbox \o <<m>>) = Elements(inbox) \cup {m}
            BY <2>3, <2>4, <3>2, MessagesJoined
        <3>4. OnceEach(inbox \o <<m>>)
            BY <2>3, <2>4, <3>1, <3>2, OnceInConcat
        <3> QED BY <2>4, <3>3, <3>4
    <2>6. NewUntilHandled'
        BY <2>1, <2>3, <2>5 DEF NewUntilHandled, PlacementInv, OnceEach
    <2>7. KnownWasSent'
        BY <2>1 DEF KnownWasSent, PlacementInv
    <2>8. Tokens' /\ SubmittedInOrder' /\ Advancing
        BY <2>1, <2>2, PlacementIs, StillStep, OrderStep, NothingNoted
    <2> QED BY <2>2, <2>6, <2>7, <2>8, PlacementIs DEF Serving, Answering
<1>3. CASE Handle
    <2> DEFINE m == Head(inbox)
    <2>1. /\ inbox # <<>> /\ inbox' = Tail(inbox) /\ sent' = sent /\ todo["handler"] = <<>>
          /\ UNCHANGED <<work, out, finals, pending>>
        <3>1. /\ inbox # <<>> /\ inbox' = Tail(inbox) /\ sent' = sent /\ todo["handler"] = <<>>
            BY <1>3 DEF Handle, HandleAdd, HandleCompanion, HandleAbort, Receive, Idle
        <3>2. CASE HandleAdd
            BY <3>1, <3>2 DEF HandleAdd, Register
        <3>3. CASE HandleCompanion
            BY <3>1, <3>3 DEF HandleCompanion, Register
        <3>4. CASE HandleAbort
            BY <3>1, <3>4 DEF HandleAbort
        <3> QED BY <1>3, <3>2, <3>3, <3>4 DEF Handle
    <2>2. m \in Messages /\ m \in Elements(inbox) /\ m.id \in Ids
        BY <2>1, ElementsOfTail DEF TypeOK, Messages, Ids
    <2>3. m.type # "abort" => submitted[m.id] = {} /\ Owner(m.id) \in sent
        BY <2>2 DEF PlacementInv, NewUntilHandled
    <2>4. Less
        BY <2>1 DEF Less
    <2> HIDE DEF m
    <2>5. CASE /\ m.type # "abort" /\ Register(m.id) /\ UNCHANGED outcome
        <3>1. /\ submitted' = [submitted EXCEPT ![m.id] = {0}]
              /\ Continue("handler", <<Pick(m.id, 0)>>)
            BY <2>5 DEF Register
        <3>2. Tokens'
            BY <2>1, <2>2, <2>3, <2>5, <3>1, PlacementIs, RegisterStep
        <3>3. Answering
            BY <2>5 DEF Answering
        <3>4. NewUntilHandled' /\ KnownWasSent'
            BY <2>1, <2>5, <3>1, <3>3, PlacementIs, TakenKept DEF m
        <3>5. \A i \in Ids : submitted'[i] = IF i = m.id THEN {0} ELSE submitted[i]
            BY <2>2, <3>1 DEF TypeOK
        <3>6. Advancing
            BY <2>2, <2>3, <2>5, <3>5 DEF Advancing
        <3>7. SubmittedInOrder'
            <4>1. {0} = 0 .. 0 /\ 0 \in Stages
                BY ParentIs
            <4>2. \A i \in Ids : submitted'[i] = {} \/ \E n \in Stages : submitted'[i] = 0 .. n
                BY <3>5, <4>1 DEF PlacementInv, SubmittedInOrder
            <4>3. \A i \in Ids : submitted[i] \subseteq submitted'[i]
                BY <2>3, <2>5, <3>5
            <4>4. \A r \in Requests : r \in Ids
                BY DEF Ids
            <4> QED BY <2>1, <4>2, <4>3, <4>4 DEF PlacementInv, SubmittedInOrder
        <3> QED BY <3>2, <3>3, <3>4, <3>6, <3>7, PlacementIs DEF Serving, Answering
    <2>6. CASE UNCHANGED <<submitted, todo>> /\ Answering
        <3>1. NewUntilHandled' /\ KnownWasSent'
            BY <2>1, <2>6, PlacementIs, TakenKept
        <3>2. Tokens' /\ SubmittedInOrder' /\ Advancing
            BY <2>1, <2>4, <2>6, PlacementIs, StillStep, OrderStep, NothingNoted
        <3> QED BY <2>6, <3>1, <3>2, PlacementIs DEF Serving, Answering
    <2>7. CASE HandleAdd
        <3>1. m.type = "add"
            BY <2>7 DEF HandleAdd, Receive, m
        <3>2. CASE outcome' = Told({m.id}, "error") /\ UNCHANGED <<requests, todo, turn>>
            BY <2>6, <3>2, ToldAnswers
        <3>3. CASE Register(m.id) /\ UNCHANGED outcome
            BY <2>5, <3>1, <3>3
        <3> QED BY <2>7, <3>2, <3>3 DEF HandleAdd, m
    <2>8. CASE HandleCompanion
        <3>1. m.type = "companion" /\ outcome' = outcome
            BY <2>8 DEF HandleCompanion, Receive, m
        <3>2. CASE UNCHANGED <<requests, registered, todo, turn>>
            BY <2>6, <3>1, <3>2 DEF Answering
        <3>3. CASE Register(m.id)
            BY <2>5, <3>1, <3>3
        <3> QED BY <2>8, <3>2, <3>3 DEF HandleCompanion, m
    <2>9. CASE HandleAbort
        <3> DEFINE f == Clean({m.id}, TRUE)
                   g == Reply({m.id}, "aborted")
        <3>1. /\ Continue("handler", <<f, g>>) /\ UNCHANGED <<submitted, outcome>>
            BY <2>9 DEF HandleAbort, m
        <3>2. f \in Frames /\ g \in Frames /\ f.op \notin Submission /\ g.op \notin Submission
            BY <2>2, FrameMakers, QuietFrames
        <3> HIDE DEF f, g
        <3>3. <<f, g>> \in Seq(Frames) /\ Quiet(<<f, g>>)
            BY <3>2, TwoFrames DEF Quiet
        <3>4. Answering
            BY <3>1 DEF Answering
        <3>5. Tokens'
            BY <1>a, <2>1, <2>4, <3>1, <3>3, PlacementIs, QuietStep
        <3>6. SubmittedInOrder' /\ Advancing
            BY <2>1, <3>1, PlacementIs, OrderStep, NothingNoted
        <3>7. NewUntilHandled' /\ KnownWasSent'
            BY <2>1, <3>1, <3>4, PlacementIs, TakenKept
        <3> QED BY <3>4, <3>5, <3>6, <3>7, PlacementIs DEF Serving, Answering
    <2> QED BY <1>3, <2>7, <2>8, <2>9 DEF Handle
<1>4. ASSUME NEW c \in Coroutines, Step(c) PROVE PlacementInv' /\ Serving /\ Advancing
    BY <1>4, <1>b, StepKept
<1>5. ASSUME NEW slot \in Slots, Poll(slot) PROVE PlacementInv' /\ Serving /\ Advancing
    <2> DEFINE o == Head(out[slot])
    <2>1. /\ todo["loop"] = <<>> /\ o.id \in Ids /\ slot[1] \in Stages /\ out[slot] # <<>>
          /\ out' = [out EXCEPT ![slot] = Tail(@)] /\ UNCHANGED <<work, sent, inbox, submitted>>
          /\ \/ o.id \notin states /\ Ignore
             \/ o.id \in states /\ Routing(o.id, o.kind, slot[1])
        <3>1. /\ Idle("loop") /\ o.id \in Ids /\ slot[1] \in Stages /\ out[slot] # <<>>
              /\ \/ o.id \notin states /\ Ignore
                 \/ o.id \in states /\ Routing(o.id, o.kind, slot[1])
            BY <1>5, PollIs
        <3>2. out' = [out EXCEPT ![slot] = Tail(@)] /\ UNCHANGED <<work, sent, inbox, submitted>>
            BY <1>5 DEF Poll
        <3> QED BY <3>1, <3>2 DEF Idle
    <2>2. Less
        BY <2>1 DEF Less, TypeOK
    <2>3. slot[1] \in submitted[o.id]
        <3>1. Holds(slot, o.id)
            BY <1>5, PollIs DEF Holds
        <3> QED BY <2>1, <3>1 DEF PlacementInv, HeldWasSubmitted
    <2>4. Routing(o.id, o.kind, slot[1])
        BY <2>1 DEF Routing
    <2> QED BY <1>b, <2>1, <2>2, <2>3, <2>4, RoutingKept
<1>6. ASSUME NEW slot \in Slots, PollDead(slot) PROVE PlacementInv' /\ Serving /\ Advancing
    <2> DEFINE f == Evict(slot[1], slot[2])
    <2>1. /\ Continue("loop", <<f>>) /\ todo["loop"] = <<>>
          /\ UNCHANGED <<sent, inbox, submitted, finals, pending, outcome, work, out>>
        BY <1>6 DEF PollDead, Idle
    <2>2. f \in Frames /\ f.op \notin Submission
        BY FrameMakers, QuietFrames
    <2> HIDE DEF f
    <2>3. <<f>> \in Seq(Frames) /\ Quiet(<<f>>)
        BY <1>a, <2>2, FrameAlone, QuietInFront
    <2>4. Less /\ Answering
        BY <2>1 DEF Less, Answering
    <2> QED BY <1>a, <1>b, <2>1, <2>3, <2>4, NothingNoted, QuietKept
<1>7. ASSUME NEW slot \in Slots, Unregister(slot) PROVE PlacementInv' /\ Serving /\ Advancing
    <2> DEFINE affected == BoundTo(slot)
               f == Clean(affected, TRUE)
               g == Reply(affected, "error")
    <2>1. /\ Continue("member", IF affected = {} THEN <<>> ELSE <<f, g>>) /\ Disconnect(slot)
          /\ UNCHANGED <<sent, inbox, submitted, finals, pending, outcome>>
        BY <1>7 DEF Unregister
    <2>2. f \in Frames /\ g \in Frames /\ f.op \notin Submission /\ g.op \notin Submission
        <3>1. affected \in SUBSET Ids
            BY DEF BoundTo
        <3> QED BY <3>1, FrameMakers, QuietFrames
    <2> HIDE DEF f, g
    <2>3. <<f, g>> \in Seq(Frames) /\ Quiet(<<f, g>>)
        BY <2>2, TwoFrames DEF Quiet
    <2>4. Less /\ Answering
        BY <2>1 DEF Disconnect, Less, Answering, TypeOK
    <2> DEFINE frames == IF affected = {} THEN <<>> ELSE <<f, g>>
    <2>5. frames \in Seq(Frames) /\ Quiet(frames) /\ Continue("member", frames)
        BY <1>a, <2>1, <2>3
    <2> HIDE DEF frames
    <2> QED BY <1>a, <1>b, <2>1, <2>4, <2>5, NothingNoted, QuietKept
<1>8. ASSUME NEW slot \in Slots, Attach(slot) \/ Die(slot) \/ Delist(slot) \/ List(slot)
      PROVE  PlacementInv' /\ Serving /\ Advancing
    <2>1. /\ UNCHANGED <<todo, sent, inbox, submitted, finals, outcome, pending, out>>
          /\ work' = work \/ work' = [work EXCEPT ![slot] = {}]
        BY <1>8 DEF Attach, Die, Delist, List
    <2>2. Less
        BY <2>1 DEF Less, TypeOK
    <2> QED BY <1>b, <2>1, <2>2, StillKept
<1>9. ASSUME NEW slot \in Slots, NEW i \in Ids, Compute(slot, i) \/ ReportKV(slot, i)
      PROVE  PlacementInv' /\ Serving /\ Advancing
    <2>1. /\ i \in work[slot]
          /\ UNCHANGED <<todo, sent, inbox, submitted, finals, outcome, pending>>
        BY <1>9 DEF Compute, ReportKV
    <2>2. PICK o \in Outputs : /\ o.id = i /\ out' = [out EXCEPT ![slot] = Append(@, o)]
                               /\ work' = IF o.kind = "kv_ready" THEN work
                                          ELSE [work EXCEPT ![slot] = @ \ {i}]
        <3>1. CASE Compute(slot, i)
            <4>1. PICK kind \in {"finished", "error"} :
                      out' = [out EXCEPT ![slot] = Append(@, [id |-> i, kind |-> kind])]
                BY <3>1 DEF Compute
            <4> DEFINE o == [id |-> i, kind |-> kind]
            <4>2. o \in Outputs /\ o.id = i /\ o.kind # "kv_ready"
                BY DEF Outputs
            <4> QED BY <3>1, <4>1, <4>2 DEF Compute
        <3>2. CASE ReportKV(slot, i)
            <4> DEFINE o == [id |-> i, kind |-> "kv_ready"]
            <4>1. o \in Outputs /\ o.id = i /\ o.kind = "kv_ready"
                BY <3>2, OrchestratorAssumption DEF Outputs, ReportKV
            <4> QED BY <3>2, <4>1 DEF ReportKV
        <3> QED BY <1>9, <3>1, <3>2
    <2>3. Tokens'
        BY <2>1, <2>2, PlacementIs, AnswerStep
    <2>4. Answering
        BY <2>1 DEF Answering
    <2> QED BY <1>b, <2>1, <2>3, <2>4, PlacementIs, OrderStep, NothingNoted, KnownStep DEF Kept
<1>10. CASE UNCHANGED vars
    <2>1. /\ UNCHANGED <<todo, sent, inbox, submitted, finals, outcome, pending, out, work>>
        BY <1>10 DEF vars
    <2>2. Less
        BY <2>1 DEF Less
    <2> QED BY <1>b, <2>1, <2>2, StillKept
<1> QED
    BY <1>1, <1>2, <1>3, <1>4, <1>5, <1>6, <1>7, <1>8, <1>9, <1>10 DEF Next

\* Where a request can be: in a stage's replica or in a queue at most once per
\* stage, only in stages it was submitted to, in order, and with a submission
\* under way only on top of a coroutine's frames.
THEOREM OrchestratorPlacement == OrchestratorSpec => []PlacementInv
<1>1. OrchestratorSpec => []TypeOK
    BY OrchestratorTypeCorrect
<1>2. TypeOK /\ PlacementInv /\ [Next]_vars => PlacementInv'
    BY PlacementStep
<1> QED
    BY <1>1, <1>2, InitPlaced, PTL DEF OrchestratorSpec

-----------------------------------------------------------------------------
(* What the placement means.                                               *)

LEMMA AtMostOne ==
    ASSUME NEW S, \A x, y \in S : x = y
    PROVE  Cardinality(S) \in {0, 1} /\ (S = {} => Cardinality(S) = 0)
<1>1. CASE S = {}
    BY <1>1, FS_EmptySet
<1>2. CASE S # {}
    <2>1. PICK x \in S : TRUE
        BY <1>2
    <2>2. S = {x}
        BY <2>1
    <2>3. Cardinality(S) = 1
        BY <2>2, FS_Singleton
    <2> QED BY <1>2, <2>3
<1> QED BY <1>1, <1>2

\* Only the frame in front submits, and of two coroutines only one to the same
\* stage.
LEMMA FramesOfIs ==
    ASSUME TypeOK, PlacementInv, NEW i \in Ids, NEW s \in Stages
    PROVE  /\ FramesOf(i, s) \subseteq {<<IF s = 0 THEN "handler" ELSE "loop", 1>>}
           /\ FramesOf(i, s) # {} => NoEnd(i, s) /\ (s > 0 => s \notin submitted[i])
<1>1. ASSUME NEW p \in FramesOf(i, s)
      PROVE  /\ p = <<IF s = 0 THEN "handler" ELSE "loop", 1>>
             /\ NoEnd(i, s) /\ (s > 0 => s \notin submitted[i])
    <2>0. PICK c \in Coroutines :
              \E n \in DOMAIN todo[c] : p = <<c, n>> /\ IsPick(todo[c][n], i, s)
        BY DEF FramesOf
    <2>1. PICK n \in DOMAIN todo[c] : p = <<c, n>> /\ IsPick(todo[c][n], i, s)
        BY <2>0
    <2>2. /\ todo[c] \in Seq(Frames) /\ todo[c] # <<>> /\ Len(todo[c]) \in Nat
          /\ DOMAIN todo[c] = 1 .. Len(todo[c])
        BY <2>1 DEF TypeOK
    <2>3. todo[c][n].op \in Submission /\ todo[c][n].op # "send"
        BY <2>1 DEF IsPick, Submission
    <2>4. n = 1
        <3> SUFFICES ASSUME n # 1 PROVE FALSE
            OBVIOUS
        <3>1. /\ DOMAIN Tail(todo[c]) = 1 .. Len(todo[c]) - 1
              /\ \A m \in 1 .. Len(todo[c]) - 1 : Tail(todo[c])[m] = todo[c][m + 1]
            BY <2>2
        <3>2. n \in Int /\ n > 1 /\ n <= Len(todo[c])
            BY <2>1, <2>2
        <3>3. n - 1 \in DOMAIN Tail(todo[c]) /\ Tail(todo[c])[n - 1] = todo[c][n]
            BY <2>2, <3>1, <3>2
        <3>4. todo[c][n] \in Elements(Rest(c))
            BY <3>3 DEF Rest, Elements
        <3> QED BY <2>2, <2>3, <3>4 DEF PlacementInv, SubmissionsInFront
    <2>5. Head(todo[c]) = todo[c][n]
        BY <2>2, <2>4
    <2>6. /\ \/ c = "handler" /\ s = 0
             \/ c = "loop" /\ s > 0 /\ s \notin submitted[i]
          /\ NoEnd(i, s)
        BY <2>1, <2>2, <2>3, <2>5, PlacementIs, SubmissionOf DEF IsPick
    <2> QED BY <2>1, <2>4, <2>6
<1> QED
    BY <1>1

LEMMA PlacedOnce == TypeOK /\ PlacementInv => DispatchedOnce
<1> SUFFICES ASSUME TypeOK, PlacementInv, NEW i \in Ids, NEW s \in Stages
             PROVE  /\ Cardinality(FramesOf(i, s)) + Cardinality(Computing(i, s))
                         + Cardinality(Answered(i, s)) <= 1
                    /\ s > 0 /\ s \in submitted[i] => FramesOf(i, s) = {}
    BY DEF DispatchedOnce
<1>1. \A p, q \in FramesOf(i, s) : p = q
    BY FramesOfIs
<1>2. \A a, b \in Computing(i, s) : a = b
    BY DEF Computing, StageSlots, PlacementInv, OnceInAStage
<1>3. \A p \in Answered(i, s) : \E a \in Slots : \E n \in Ends(out[a], i) : a[1] = s /\ p = <<a, n>>
    BY DEF Answered, StageSlots, Ends
<1>4. \A p, q \in Answered(i, s) : p = q
    <2> SUFFICES ASSUME NEW p \in Answered(i, s), NEW q \in Answered(i, s) PROVE p = q
        OBVIOUS
    <2>1. PICK a \in Slots : \E n \in Ends(out[a], i) : a[1] = s /\ p = <<a, n>>
        BY <1>3
    <2>2. PICK b \in Slots : \E n \in Ends(out[b], i) : b[1] = s /\ q = <<b, n>>
        BY <1>3
    <2>3. a = b /\ \A m, n \in Ends(out[a], i) : m = n
        BY <2>1, <2>2 DEF PlacementInv, OnceInAStage
    <2> QED BY <2>1, <2>2, <2>3
<1>5. Computing(i, s) # {} => Answered(i, s) = {}
    BY <1>3 DEF Computing, StageSlots, PlacementInv, OnceInAStage
<1>6. FramesOf(i, s) # {} => Computing(i, s) = {} /\ Answered(i, s) = {}
    BY <1>3, FramesOfIs DEF Computing, StageSlots, NoEnd
<1>7. /\ Cardinality(FramesOf(i, s)) \in {0, 1}
      /\ FramesOf(i, s) = {} => Cardinality(FramesOf(i, s)) = 0
    BY <1>1, AtMostOne
<1>8. /\ Cardinality(Computing(i, s)) \in {0, 1}
      /\ Computing(i, s) = {} => Cardinality(Computing(i, s)) = 0
    BY <1>2, AtMostOne
<1>9. /\ Cardinality(Answered(i, s)) \in {0, 1}
      /\ Answered(i, s) = {} => Cardinality(Answered(i, s)) = 0
    BY <1>4, AtMostOne
<1>10. Cardinality(FramesOf(i, s)) + Cardinality(Computing(i, s))
           + Cardinality(Answered(i, s)) <= 1
    <2> DEFINE x == Cardinality(FramesOf(i, s))
               y == Cardinality(Computing(i, s))
               z == Cardinality(Answered(i, s))
    <2>1. x \in {0, 1} /\ y \in {0, 1} /\ z \in {0, 1}
        BY <1>7, <1>8, <1>9
    <2>2. (x = 0 \/ y = 0) /\ (x = 0 \/ z = 0) /\ (y = 0 \/ z = 0)
        BY <1>5, <1>6, <1>7, <1>8, <1>9
    <2> HIDE DEF x, y, z
    <2>3. x + y + z <= 1
        BY <2>1, <2>2
    <2> QED BY <2>3 DEF x, y, z
<1> QED
    BY <1>10, FramesOfIs

\* No request is handed to a stage twice, whichever of the end of the stage
\* before it, its kv_ready report or the last companion's output hands it on,
\* and wherever a clean-up interrupts the submission.
THEOREM OrchestratorDispatchesOnce == OrchestratorSpec => []DispatchedOnce
BY OrchestratorTypeCorrect, OrchestratorPlacement, PlacedOnce, PTL

-----------------------------------------------------------------------------
(* The orchestrator implements the promise of RequestService.              *)

LEMMA LastOfInterval == ASSUME NEW m \in Stages PROVE LastOf(0 .. m) = m
<1>1. m \in Int /\ m >= 0
    BY ParentIs
<1>2. m \in 0 .. m /\ \A t \in 0 .. m : t <= m
    BY <1>1
<1>3. \A x \in 0 .. m : (\A t \in 0 .. m : t <= x) => x = m
    BY <1>1
<1> QED
    BY <1>2, <1>3 DEF LastOf

LEMMA ReachedIs ==
    ASSUME TypeOK, NEW r \in Requests
    PROVE  /\ submitted[r] = {} => Reached[r] = -1
           /\ \A m \in Stages : submitted[r] = 0 .. m => Reached[r] = m
<1>1. ASSUME NEW m \in Stages, submitted[r] = 0 .. m PROVE Reached[r] = m
    <2>1. m \in Int /\ m >= 0
        BY ParentIs
    <2>2. 0 .. m # {}
        <3>1. 0 \in 0 .. m
            BY <2>1
        <3> QED BY <3>1
    <2> QED BY <1>1, <2>2, LastOfInterval DEF Reached
<1> QED
    BY <1>1 DEF Reached

LEMMA InitPromised == Init => Promise!ServiceInit
BY DEF Init, Promise!ServiceInit, Reached, Ids

LEMMA StepPromised ==
    TypeOK /\ TypeOK' /\ PlacementInv /\ [Next]_vars => [Promise!ServiceNext]_(Promise!serviceVars)
<1> SUFFICES ASSUME TypeOK, TypeOK', PlacementInv, [Next]_vars PROVE Promise!ServiceNext
    OBVIOUS
<1>1. Serving /\ Advancing
    BY PlacementStep
<1> SUFFICES ASSUME NEW r \in Requests
             PROVE  /\ \/ outcome'[r] = outcome[r]
                       \/ outcome[r] = "idle" /\ outcome'[r] = "waiting"
                       \/ /\ outcome[r] = "waiting"
                          /\ \/ outcome'[r] \in {"error", "aborted", "empty"}
                             \/ outcome'[r] = "ok" /\ Reached[r] = LastStage
                    /\ \/ Reached'[r] = Reached[r]
                       \/ /\ outcome[r] # "idle" /\ Reached[r] < LastStage
                          /\ Reached'[r] = Reached[r] + 1
    BY DEF Promise!ServiceNext, Promise!Submits, Promise!Settles, Promise!Enters, Promise!Waiting
<1>2. /\ r \in Ids /\ Owner(r) = r /\ LastStage \in Int /\ LastStage >= 0
      /\ submitted[r] # {} => r \in sent
      /\ outcome[r] = "idle" <=> r \notin sent
    <2>1. r \in Ids /\ Owner(r) = r /\ LastStage \in Int /\ LastStage >= 0
        BY OrchestratorAssumption DEF Ids, Owner
    <2> QED BY <2>1 DEF PlacementInv, KnownWasSent
<1>3. LastStage \in submitted[r] => Reached[r] = LastStage
    <2> SUFFICES ASSUME LastStage \in submitted[r] PROVE Reached[r] = LastStage
        OBVIOUS
    <2>1. PICK m \in Stages : submitted[r] = 0 .. m
        BY <1>2 DEF PlacementInv, SubmittedInOrder
    <2>2. m = LastStage
        BY <1>2, <2>1, ParentIs
    <2> QED BY <2>1, <2>2, ReachedIs
<1>4. \/ Reached'[r] = Reached[r]
      \/ /\ outcome[r] # "idle" /\ Reached[r] < LastStage
         /\ Reached'[r] = Reached[r] + 1
    <2>1. CASE submitted'[r] = submitted[r]
        BY <2>1 DEF Reached
    <2>2. CASE submitted[r] = {} /\ submitted'[r] = {0} /\ Owner(r) \in sent
        <3>1. {0} = 0 .. 0 /\ 0 \in Stages
            BY ParentIs
        <3>2. Reached[r] = -1
            BY <2>2, ReachedIs
        <3>3. Reached'[r] = 0
            <4>1. LastOf(0 .. 0) = 0
                BY <3>1, LastOfInterval
            <4> QED BY <2>2, <3>1, <4>1 DEF Reached
        <3> QED BY <1>2, <2>2, <3>2, <3>3
    <2>3. ASSUME NEW m \in Stages, m + 1 \in Stages,
                 submitted[r] = 0 .. m, submitted'[r] = 0 .. m + 1
          PROVE  /\ outcome[r] # "idle" /\ Reached[r] < LastStage
                 /\ Reached'[r] = Reached[r] + 1
        <3>1. m \in Int /\ m >= 0 /\ m + 1 <= LastStage
            BY <2>3, ParentIs
        <3>2. 0 \in 0 .. m /\ 0 \in 0 .. m + 1
            BY <3>1
        <3>3. Reached[r] = m
            BY <2>3, ReachedIs
        <3>4. Reached'[r] = m + 1
            <4>1. LastOf(0 .. m + 1) = m + 1
                BY <2>3, LastOfInterval
            <4>2. submitted'[r] # {}
                BY <2>3, <3>2
            <4> QED BY <2>3, <4>1, <4>2 DEF Reached
        <3>5. submitted[r] # {}
            BY <2>3, <3>2
        <3> QED BY <1>2, <3>1, <3>3, <3>4, <3>5
    <2> QED BY <1>1, <1>2, <2>1, <2>2, <2>3 DEF Advancing
<1> QED
    BY <1>1, <1>3, <1>4 DEF Serving

\* Every behaviour of the orchestrator keeps the safety part of what clients are
\* promised: stages in order, none twice, one outcome that never changes, and a
\* result only from the last stage.
THEOREM OrchestratorKeepsPromise == OrchestratorSpec => Promise!ServiceSafe
<1>1. TypeOK /\ [Next]_vars => TypeOK'
    BY TypeStep
<1>2. TypeOK /\ PlacementInv /\ [Next]_vars => [Promise!ServiceNext]_(Promise!serviceVars)
    BY <1>1, StepPromised
<1>3. OrchestratorSpec => []TypeOK /\ []PlacementInv
    BY OrchestratorTypeCorrect, OrchestratorPlacement, PTL
<1> QED
    BY <1>2, <1>3, InitPromised, PTL DEF OrchestratorSpec, Promise!ServiceSafe

-----------------------------------------------------------------------------
(* Who has a request in hand.                                              *)

\* The frames of a clean-up; those after its first await.
Leave == {"abort", "release", "finish"}
Cleanup == {"clean"} \cup Leave

NamedIn(frames, ops, i) == \E f \in Elements(frames) : f.op \in ops /\ i \in f.ids
Named(ops, i) == \E c \in Coroutines : NamedIn(todo[c], ops, i)
Cleaned(i) == Named(Cleanup, i)
Leaving(i) == Named(Leave, i)

\* Replica slot has i: it computes it, or it answered its end.  A replica lost i
\* when its process died with it and the loop did not notice yet.
Has(slot, i) == i \in work[slot] \/ Ends(out[slot], i) # {}
Lost(slot, i) == route[slot[1]][i] = slot[2] /\ slot \in live \cap dead
Token(i, s) == \E slot \in Slots : slot[1] = s /\ (Has(slot, i) \/ Lost(slot, i))

Picks(c, i, s) == todo[c] # <<>> /\ IsPick(Head(todo[c]), i, s)
Sends(c, i, s) == todo[c] # <<>> /\ Head(todo[c]) = Send(i, s)
Replies(c, r) == todo[c] # <<>> /\ Head(todo[c]).op = "reply" /\ r \in Head(todo[c]).ids

\* Stage s has i, or the handler looks for a replica of the first stage.
Hold(i, s) == Token(i, s) \/ (s = 0 /\ Picks("handler", i, 0))

\* A request is bound to the replica that has it, until it is cleaned up.
BoundWhereHeld ==
    \A i \in states, slot \in Slots : Has(slot, i) /\ ~Cleaned(i) => route[slot[1]][i] = slot[2]

\* The last stage that a request was submitted to has it, or it waits to be
\* handed on, or the loop does that; every stage with a final output has it
\* until that output came.
Tracked(r) ==
    /\ LastStage \notin submitted[r] =>
           \E m \in submitted[r] :
               /\ m + 1 \notin submitted[r]
               /\ \/ pending[r] = m \/ Hold(r, m)
                  \/ Picks("loop", r, m + 1) \/ Sends("loop", r, m + 1)
    /\ \A s \in (submitted[r] \cap FinalOutput) \ finals[r] : Hold(r, s)
    /\ ~(FinalOutput \subseteq finals[r])
    /\ \A s \in Stages : Sends("loop", r, s) => Token(r, s)
AllTracked == \A r \in Requests \cap states : Cleaned(r) \/ Tracked(r)

\* Only what was registered is kept, cleaned up, bound, or a companion.
Known(i) == IF i \in Companions THEN submitted[i] # {} ELSE i \in sent
KnownWasRegistered ==
    /\ \A i \in states : submitted[i] # {}
    /\ \A i \in Ids : Cleaned(i) => Known(i)
    /\ \A m \in Elements(inbox) : Owner(m.id) \in sent
    /\ \A s \in Stages, i \in Ids : route[s][i] # NoReplica => submitted[i] # {}
    /\ \A r \in Requests : \A c \in registered[r] : Parent[c] = r /\ submitted[c] # {}

\* A companion that a waiting parent counts on is on its way.
CompanionsTracked ==
    \A r \in Requests : \A c \in registered[r] \ done :
        /\ ~Leaving(c)
        /\ outcome[r] = "waiting" => c \in states /\ (Cleaned(c) \/ Hold(c, 0))

\* The reply to a request that is cleaned up first comes right after that.
ParentsWait ==
    \A r \in Requests : pending[r] # -1 =>
        /\ ~AllDone(r)
        /\ outcome[r] = "waiting" => r \in states \/ \E c \in Coroutines : turn = c /\ Replies(c, r)

\* A request that is cleaned up was answered, or the reply is the next frame.
CleanedAreAnswered ==
    \A c \in Coroutines : todo[c] # <<>> =>
        /\ \A f \in Elements(Rest(c)) : f.op \in Cleanup =>
               \A r \in Requests \cap f.ids : outcome[r] # "waiting"
        /\ Head(todo[c]).op \in Cleanup =>
               \A r \in Requests \cap Head(todo[c]).ids : outcome[r] = "waiting" =>
                   Rest(c) # <<>> /\ Head(Rest(c)).op = "reply" /\ r \in Head(Rest(c)).ids

WaitingIsKnown ==
    \A r \in Requests : outcome[r] = "waiting" =>
        \/ r \in states
        \/ \E m \in Elements(inbox) : m.type = "add" /\ m.id = r
        \/ \E c \in Coroutines : Replies(c, r)

\* Only the loop evicts.
LoopEvicts == \A c \in Coroutines : \A f \in Elements(todo[c]) : f.op = "evict" => c = "loop"

HandInv ==
    /\ BoundWhereHeld /\ AllTracked /\ KnownWasRegistered /\ CompanionsTracked
    /\ ParentsWait /\ CleanedAreAnswered /\ WaitingIsKnown /\ LoopEvicts

-----------------------------------------------------------------------------
(* How the frames of a coroutine change.                                   *)

\* What coroutine c has left after this step, in front of what it had.
Adds(c, frames, G) ==
    /\ frames \in Seq(Frames) /\ Continue(c, frames)
    /\ \/ todo[c] = <<>> /\ Elements(frames) = G
       \/ todo[c] # <<>> /\ Elements(frames) = G \cup Elements(Rest(c))

LEMMA FramesStep ==
    ASSUME TypeOK, NEW c \in Coroutines, NEW frames, NEW G, Adds(c, frames, G)
    PROVE  \A ops, i :
               /\ Named(ops, i)' => Named(ops, i) \/ \E g \in G : g.op \in ops /\ i \in g.ids
               /\ (\E g \in G : g.op \in ops /\ i \in g.ids) => Named(ops, i)'
               /\ Named(ops, i) =>
                      \/ Named(ops, i)'
                      \/ todo[c] # <<>> /\ Head(todo[c]).op \in ops /\ i \in Head(todo[c]).ids
<1>1. todo'[c] = frames /\ \A d \in Coroutines \ {c} : todo'[d] = todo[d]
    BY Continued DEF Adds
<1>2. todo[c] # <<>> => Elements(todo[c]) = {Head(todo[c])} \cup Elements(Rest(c))
    BY ElementsOfTail DEF TypeOK, Rest
<1>3. Elements(<<>>) = {}
    BY DEF Elements
<1>4. /\ \A f \in Elements(todo'[c]) : f \in G \/ f \in Elements(todo[c])
      /\ \A f \in G : f \in Elements(todo'[c])
      /\ \A f \in Elements(todo[c]) :
             f \in Elements(todo'[c]) \/ (todo[c] # <<>> /\ f = Head(todo[c]))
    BY <1>1, <1>2, <1>3 DEF Adds
<1> SUFFICES ASSUME NEW ops, NEW i
             PROVE  /\ Named(ops, i)' => Named(ops, i) \/ \E g \in G : g.op \in ops /\ i \in g.ids
                    /\ (\E g \in G : g.op \in ops /\ i \in g.ids) => Named(ops, i)'
                    /\ Named(ops, i) =>
                           \/ Named(ops, i)'
                           \/ /\ todo[c] # <<>> /\ Head(todo[c]).op \in ops
                              /\ i \in Head(todo[c]).ids
    OBVIOUS
<1>5. ASSUME Named(ops, i)' PROVE Named(ops, i) \/ \E g \in G : g.op \in ops /\ i \in g.ids
    BY <1>1, <1>4, <1>5 DEF Named, NamedIn
<1>6. ASSUME NEW g \in G, g.op \in ops, i \in g.ids PROVE Named(ops, i)'
    BY <1>4, <1>6 DEF Named, NamedIn
<1>7. ASSUME Named(ops, i)
      PROVE  \/ Named(ops, i)'
             \/ todo[c] # <<>> /\ Head(todo[c]).op \in ops /\ i \in Head(todo[c]).ids
    BY <1>1, <1>4, <1>7 DEF Named, NamedIn
<1> QED
    BY <1>5, <1>6, <1>7

\* What stands in front of the coroutines.
SameSubmissions ==
    \A d \in Coroutines : \A i, s : /\ Picks(d, i, s)' <=> Picks(d, i, s)
                                    /\ Sends(d, i, s)' <=> Sends(d, i, s)
RepliesStay ==
    \A r \in Requests : outcome'[r] = "waiting" =>
        \A d \in Coroutines : Replies(d, r) => Replies(d, r)' /\ (turn = d => turn' = d)

LEMMA StillFrames ==
    ASSUME UNCHANGED <<todo, turn>>
    PROVE  /\ \A ops, i : Named(ops, i)' <=> Named(ops, i)
           /\ SameSubmissions /\ RepliesStay
           /\ LoopEvicts => LoopEvicts'
<1>1. \A ops, i : Named(ops, i)' <=> Named(ops, i)
    BY DEF Named, NamedIn
<1>2. SameSubmissions
    BY DEF SameSubmissions, Picks, Sends
<1>3. RepliesStay
    BY DEF RepliesStay, Replies
<1>4. LoopEvicts => LoopEvicts'
    BY DEF LoopEvicts
<1> QED BY <1>1, <1>2, <1>3, <1>4

LEMMA QuietHeads ==
    ASSUME TypeOK, NEW c \in Coroutines, NEW frames \in Seq(Frames), Continue(c, frames),
           Quiet(frames), todo[c] # <<>> => Head(todo[c]).op \notin Submission
    PROVE  SameSubmissions
<1>1. todo'[c] = frames /\ \A d \in Coroutines \ {c} : todo'[d] = todo[d]
    BY Continued
<1>2. todo'[c] # <<>> => Head(todo'[c]).op \notin Submission
    BY <1>1, ElementsOfTail DEF Quiet
<1>3. \A i, s : Send(i, s).op \in Submission
    BY DEF Send, Submission
<1>4. \A i, s : ~Picks(c, i, s) /\ ~Sends(c, i, s)
    BY <1>3 DEF Picks, Sends, IsPick, Submission
<1>5. \A i, s : ~Picks(c, i, s)' /\ ~Sends(c, i, s)'
    BY <1>2, <1>3 DEF Picks, Sends, IsPick, Submission
<1>6. \A d \in Coroutines \ {c} : \A i, s : /\ Picks(d, i, s)' <=> Picks(d, i, s)
                                            /\ Sends(d, i, s)' <=> Sends(d, i, s)
    BY <1>1 DEF Picks, Sends
<1> QED
    BY <1>4, <1>5, <1>6 DEF SameSubmissions

LEMMA RepliesStep ==
    ASSUME TypeOK, NEW c \in Coroutines, NEW frames \in Seq(Frames), Continue(c, frames),
           turn \in {Nobody, c}, todo[c] # <<>> => Head(todo[c]).op # "reply"
    PROVE  RepliesStay
<1>1. \A d \in Coroutines \ {c} : todo'[d] = todo[d]
    BY Continued
<1>2. \A r : ~Replies(c, r)
    BY DEF Replies
<1>3. \A d \in Coroutines \ {c} : turn # d
    BY OrchestratorAssumption
<1> QED
    BY <1>1, <1>2, <1>3 DEF RepliesStay, Replies

LEMMA EvictsStep ==
    ASSUME TypeOK, LoopEvicts, NEW c \in Coroutines, NEW frames, NEW G, Adds(c, frames, G),
           \A g \in G : g.op = "evict" => c = "loop"
    PROVE  LoopEvicts'
<1>1. todo'[c] = frames /\ \A d \in Coroutines \ {c} : todo'[d] = todo[d]
    BY Continued DEF Adds
<1>2. todo[c] # <<>> => Elements(todo[c]) = {Head(todo[c])} \cup Elements(Rest(c))
    BY ElementsOfTail DEF TypeOK, Rest
<1>3. \A f \in Elements(todo'[c]) : f.op = "evict" => c = "loop"
    BY <1>1, <1>2 DEF Adds, LoopEvicts
<1> QED
    BY <1>1, <1>3 DEF LoopEvicts

-----------------------------------------------------------------------------
(* The requests that are cleaned up were answered.                         *)

LEMMA AnsweredBefore == Answering => \A r \in Requests : outcome[r] # "waiting" => outcome'[r] # "waiting"
BY DEF Answering

LEMMA AnsweredRest ==
    ASSUME CleanedAreAnswered, Answering, NEW c \in Coroutines, todo[c] # <<>>
    PROVE  \A f \in Elements(Rest(c)) : f.op \in Cleanup =>
               \A r \in Requests \cap f.ids : outcome'[r] # "waiting"
BY AnsweredBefore DEF CleanedAreAnswered

\* The other coroutines.
LEMMA AnsweredOthers ==
    ASSUME CleanedAreAnswered, Answering, NEW d \in Coroutines, todo'[d] = todo[d], todo'[d] # <<>>
    PROVE  /\ \A f \in Elements(Tail(todo'[d])) : f.op \in Cleanup =>
                  \A r \in Requests \cap f.ids : outcome'[r] # "waiting"
           /\ Head(todo'[d]).op \in Cleanup =>
                  \A r \in Requests \cap Head(todo'[d]).ids : outcome'[r] = "waiting" =>
                      /\ Tail(todo'[d]) # <<>> /\ Head(Tail(todo'[d])).op = "reply"
                      /\ r \in Head(Tail(todo'[d])).ids
BY AnsweredBefore DEF CleanedAreAnswered, Rest

LEMMA AnsweredStill ==
    ASSUME CleanedAreAnswered, Answering, todo' = todo
    PROVE  CleanedAreAnswered'
BY AnsweredOthers DEF CleanedAreAnswered, Rest

\* Every clean-up that is left is of requests that were answered.
LEMMA AnsweredAll ==
    ASSUME TypeOK, CleanedAreAnswered, Answering, NEW c \in Coroutines, NEW frames \in Seq(Frames),
           Continue(c, frames),
           \A f \in Elements(frames) : f.op \in Cleanup =>
               \A r \in Requests \cap f.ids : outcome'[r] # "waiting"
    PROVE  CleanedAreAnswered'
<1>1. todo'[c] = frames /\ \A d \in Coroutines \ {c} : todo'[d] = todo[d]
    BY Continued
<1>2. frames # <<>> => Elements(frames) = {Head(frames)} \cup Elements(Tail(frames))
    BY ElementsOfTail
<1> QED
    BY <1>1, <1>2, AnsweredOthers DEF CleanedAreAnswered, Rest

\* A clean-up goes on.
LEMMA AnsweredHead ==
    ASSUME TypeOK, CleanedAreAnswered, Answering, NEW c \in Coroutines, todo[c] # <<>>,
           NEW g \in Frames, g.op \in Cleanup, Continue(c, <<g>> \o Rest(c)),
           Head(todo[c]).op \in Cleanup,
           \A r \in Requests \cap g.ids : outcome'[r] = "waiting" => r \in Head(todo[c]).ids
    PROVE  CleanedAreAnswered'
<1>1. Rest(c) \in Seq(Frames)
    BY DEF TypeOK, Rest
<1> DEFINE frames == <<g>> \o Rest(c)
<1>2. /\ frames \in Seq(Frames) /\ Head(frames) = g /\ Tail(frames) = Rest(c)
    BY <1>1, FramesInFront
<1>3. Continue(c, frames)
    OBVIOUS
<1> HIDE DEF frames
<1>4. todo'[c] = frames /\ \A d \in Coroutines \ {c} : todo'[d] = todo[d]
    BY <1>2, <1>3, Continued
<1>5. \A f \in Elements(Rest(c)) : f.op \in Cleanup =>
          \A r \in Requests \cap f.ids : outcome'[r] # "waiting"
    BY AnsweredRest
<1>6. ASSUME NEW r \in Requests \cap g.ids, outcome'[r] = "waiting"
      PROVE  Rest(c) # <<>> /\ Head(Rest(c)).op = "reply" /\ r \in Head(Rest(c)).ids
    <2>1. r \in Head(todo[c]).ids /\ outcome[r] = "waiting"
        BY <1>6, AnsweredBefore
    <2> QED BY <1>6, <2>1 DEF CleanedAreAnswered
<1> QED
    BY <1>2, <1>4, <1>5, <1>6, AnsweredOthers DEF CleanedAreAnswered, Rest

LEMMA PairOfFrames ==
    ASSUME NEW f \in Frames, NEW g \in Frames
    PROVE  /\ <<f, g>> \in Seq(Frames) /\ Head(<<f, g>>) = f /\ Tail(<<f, g>>) = <<g>>
           /\ <<g>> \in Seq(Frames) /\ Head(<<g>>) = g /\ <<g>> # <<>> /\ Elements(<<g>>) = {g}
<1>1. /\ <<f, g>> \in Seq(Frames) /\ Len(<<f, g>>) = 2 /\ Head(<<f, g>>) = f
      /\ <<f, g>>[2] = g /\ <<f, g>> # <<>>
    OBVIOUS
<1>2. /\ Tail(<<f, g>>) \in Seq(Frames) /\ Len(Tail(<<f, g>>)) = 1
      /\ Tail(<<f, g>>)[1] = g
    BY <1>1, HeadTailProperties
<1>3. <<g>> \in Seq(Frames) /\ Len(<<g>>) = 1 /\ <<g>>[1] = g /\ Head(<<g>>) = g /\ <<g>> # <<>>
    OBVIOUS
<1>4. Tail(<<f, g>>) = <<g>>
    BY <1>2, <1>3, SeqEqual
<1> QED
    BY <1>1, <1>3, <1>4, ElementsOfOne

\* The reply comes with the clean-up.
LEMMA AnsweredNext ==
    ASSUME TypeOK, CleanedAreAnswered, Answering, NEW c \in Coroutines, NEW ids \in SUBSET Ids,
           NEW kind \in {"error", "aborted"}, Continue(c, <<Clean(ids, TRUE), Reply(ids, kind)>>)
    PROVE  CleanedAreAnswered'
<1> DEFINE f == Clean(ids, TRUE)
           g == Reply(ids, kind)
           frames == <<f, g>>
<1>1. f \in Frames /\ g \in Frames /\ f.ids = ids /\ g.ids = ids /\ g.op = "reply"
    BY FrameMakers DEF Clean, Reply
<1>3. g.op \notin Cleanup
    BY DEF Reply, Cleanup, Leave
<1> HIDE DEF f, g
<1>4. <<g>> \in Seq(Frames) /\ Elements(<<g>>) = {g} /\ Head(<<g>>) = g /\ <<g>> # <<>>
    BY <1>1, PairOfFrames
<1>5. frames \in Seq(Frames) /\ Head(frames) = f /\ Tail(frames) = <<g>>
    BY <1>1, PairOfFrames
<1>6. Continue(c, frames)
    BY DEF f, g
<1> HIDE DEF frames
<1>7. todo'[c] = frames /\ \A d \in Coroutines \ {c} : todo'[d] = todo[d]
    BY <1>5, <1>6, Continued
<1>8. \A h \in Elements(<<g>>) : h.op \notin Cleanup
    BY <1>3, <1>4
<1>9. /\ Head(todo'[c]).ids = ids /\ Tail(todo'[c]) = <<g>>
      /\ Head(Tail(todo'[c])).op = "reply" /\ Head(Tail(todo'[c])).ids = ids
    BY <1>1, <1>4, <1>5, <1>7
<1> QED
    BY <1>4, <1>7, <1>8, <1>9, AnsweredOthers DEF CleanedAreAnswered, Rest

-----------------------------------------------------------------------------
(* Steps that neither submit nor take an output.                           *)

InboxKept ==
    /\ \A m \in Elements(inbox) : m.type = "add" /\ outcome'[m.id] = "waiting" => m \in Elements(inbox')
    /\ \A m \in Elements(inbox') : m \in Elements(inbox) \/ Owner(m.id) \in sent
StatesKept ==
    /\ states' \subseteq states
    /\ \A i \in states \ states' :
           /\ Leaving(i)
           /\ i \in Requests /\ outcome'[i] = "waiting" =>
                  \E c \in Coroutines : turn' = c /\ Replies(c, i)'
CleanupGoesOn == \A i \in Ids : Cleaned(i) => Cleaned(i)' \/ i \notin states'
CleanupIsKnown == \A i \in Ids : Cleaned(i)' => Cleaned(i) \/ Known(i)
RouteIsKnown ==
    \A s \in Stages, i \in Ids : route'[s][i] \in {route[s][i], NoReplica} \/ submitted[i] # {}
BoundAgain ==
    \A i \in states', slot \in Slots : Has(slot, i)' /\ ~Cleaned(i)' =>
        \/ Has(slot, i) /\ route'[slot[1]][i] = route[slot[1]][i]
        \/ route'[slot[1]][i] = slot[2]
HoldsOn ==
    \A i \in states' : ~Cleaned(i)' => \A s \in submitted[i] : Hold(i, s) =>
        Hold(i, s)' \/ (i \in Companions /\ outcome'[Parent[i]] # "waiting")
LoopGoesOn ==
    \A r \in Requests \cap states' : ~Cleaned(r)' => \A s \in Stages :
        /\ Picks("loop", r, s) \/ Sends("loop", r, s) => Picks("loop", r, s)' \/ Sends("loop", r, s)'
        /\ Sends("loop", r, s)' => Token(r, s)'
TrackerKept ==
    /\ done' \subseteq done
    /\ \A r \in Requests :
           /\ registered'[r] \subseteq registered[r]
           /\ \A c \in registered'[r] \ done' : c \notin done /\ ~Leaving(c)'
           /\ \/ pending'[r] = pending[r] /\ registered'[r] = registered[r]
              \/ pending'[r] = -1 /\ Cleaned(r)'

LEMMA FirstStage ==
    ASSUME SubmittedInOrder, NEW i \in Ids, submitted[i] # {}
    PROVE  0 \in submitted[i]
<1>1. PICK m \in Stages : submitted[i] = 0 .. m
    BY DEF SubmittedInOrder
<1>2. m \in Int /\ m >= 0
    BY ParentIs
<1> QED BY <1>1, <1>2

LEMMA TrackedKept ==
    ASSUME TypeOK, AllTracked, StatesKept, CleanupGoesOn, HoldsOn, LoopGoesOn, TrackerKept,
           UNCHANGED <<submitted, finals>>
    PROVE  AllTracked'
<1> SUFFICES ASSUME NEW r \in Requests \cap states', ~Cleaned(r)' PROVE Tracked(r)'
    BY DEF AllTracked
<1>1. r \in Requests /\ r \in Ids /\ r \in states /\ r \in states' /\ r \notin Companions
    BY OrchestratorAssumption DEF Ids, StatesKept
<1>2. ~Cleaned(r) /\ Tracked(r)
    BY <1>1 DEF CleanupGoesOn, AllTracked
<1>3. \A s \in submitted[r] : Hold(r, s) => Hold(r, s)'
    BY <1>1 DEF HoldsOn
<1>4. \A s \in Stages :
          /\ Picks("loop", r, s) \/ Sends("loop", r, s) => Picks("loop", r, s)' \/ Sends("loop", r, s)'
          /\ Sends("loop", r, s)' => Token(r, s)'
    BY <1>1 DEF LoopGoesOn
<1>5. pending'[r] = pending[r]
    BY <1>1 DEF TrackerKept
<1>6. ASSUME LastStage \notin submitted[r]
      PROVE  \E m \in submitted[r] :
                 /\ m + 1 \notin submitted[r]
                 /\ \/ pending'[r] = m \/ Hold(r, m)'
                    \/ Picks("loop", r, m + 1)' \/ Sends("loop", r, m + 1)'
    <2>1. PICK m \in submitted[r] :
              /\ m + 1 \notin submitted[r]
              /\ \/ pending[r] = m \/ Hold(r, m)
                 \/ Picks("loop", r, m + 1) \/ Sends("loop", r, m + 1)
        BY <1>2, <1>6 DEF Tracked
    <2>2. m + 1 \in Stages
        BY <1>1, <1>6, <2>1, ParentIs DEF TypeOK
    <2> QED BY <1>3, <1>4, <1>5, <2>1, <2>2
<1>7. \A s \in (submitted[r] \cap FinalOutput) \ finals[r] : Hold(r, s)'
    BY <1>2, <1>3 DEF Tracked
<1>8. ~(FinalOutput \subseteq finals[r])
    BY <1>2 DEF Tracked
<1> QED
    BY <1>4, <1>6, <1>7, <1>8 DEF Tracked

LEMMA KnownKept ==
    ASSUME TypeOK, KnownWasRegistered, KnownWasSent, UNCHANGED <<sent, submitted>>,
           InboxKept, StatesKept, CleanupIsKnown, RouteIsKnown, TrackerKept
    PROVE  KnownWasRegistered'
<1>1. \A i \in states' : submitted'[i] # {}
    BY DEF StatesKept, KnownWasRegistered
<1>2. \A i \in Ids : Cleaned(i)' => Known(i)'
    BY DEF CleanupIsKnown, KnownWasRegistered, Known
<1>3. \A m \in Elements(inbox') : Owner(m.id) \in sent'
    BY DEF InboxKept, KnownWasRegistered
<1>4. \A s \in Stages, i \in Ids : route'[s][i] # NoReplica => submitted'[i] # {}
    BY DEF RouteIsKnown, KnownWasRegistered
<1>5. \A r \in Requests : \A c \in registered'[r] : Parent[c] = r /\ submitted'[c] # {}
    BY DEF TrackerKept, KnownWasRegistered
<1> QED
    BY <1>1, <1>2, <1>3, <1>4, <1>5 DEF KnownWasRegistered

LEMMA CompanionsKept ==
    ASSUME TypeOK, SubmittedInOrder, KnownWasRegistered, CompanionsTracked, Answering,
           StatesKept, CleanupGoesOn, HoldsOn, TrackerKept
    PROVE  CompanionsTracked'
<1> SUFFICES ASSUME NEW r \in Requests, NEW c \in registered'[r] \ done'
             PROVE  /\ ~Leaving(c)'
                    /\ outcome'[r] = "waiting" => c \in states' /\ (Cleaned(c)' \/ Hold(c, 0)')
    BY DEF CompanionsTracked
<1>1. c \in registered[r] \ done /\ ~Leaving(c)'
    BY DEF TrackerKept
<1>2. c \in Companions /\ c \in Ids /\ Parent[c] = r /\ 0 \in submitted[c]
    BY <1>1, FirstStage DEF TypeOK, Ids, KnownWasRegistered
<1>3. ASSUME outcome'[r] = "waiting" PROVE c \in states' /\ (Cleaned(c)' \/ Hold(c, 0)')
    <2>1. outcome[r] = "waiting"
        BY <1>3, AnsweredBefore
    <2>2. ~Leaving(c) /\ c \in states /\ (Cleaned(c) \/ Hold(c, 0))
        BY <1>1, <2>1 DEF CompanionsTracked
    <2>3. c \in states'
        BY <2>2 DEF StatesKept
    <2>4. Cleaned(c) => Cleaned(c)'
        BY <1>2, <2>3 DEF CleanupGoesOn
    <2>5. ~Cleaned(c)' /\ Hold(c, 0) => Hold(c, 0)'
        BY <1>2, <1>3, <2>3 DEF HoldsOn
    <2> QED BY <2>2, <2>3, <2>4, <2>5
<1> QED
    BY <1>1, <1>3

LEMMA WaitersKept ==
    ASSUME TypeOK, ParentsWait, WaitingIsKnown, Answering, InboxKept, StatesKept, TrackerKept,
           RepliesStay
    PROVE  ParentsWait' /\ WaitingIsKnown'
<1>1. \A r \in Requests : outcome'[r] = "waiting" => outcome[r] = "waiting"
    BY AnsweredBefore
<1>2. ASSUME NEW r \in Requests, outcome'[r] = "waiting", r \in states
      PROVE  r \in states' \/ \E c \in Coroutines : turn' = c /\ Replies(c, r)'
    BY <1>2 DEF StatesKept
<1>3. ASSUME NEW r \in Requests, pending'[r] # -1
      PROVE  /\ ~AllDone(r)'
             /\ outcome'[r] = "waiting" =>
                    r \in states' \/ \E c \in Coroutines : turn' = c /\ Replies(c, r)'
    <2>1. pending[r] # -1 /\ registered'[r] = registered[r] /\ done' \subseteq done
        BY <1>3 DEF TrackerKept
    <2>2. ~AllDone(r)'
        BY <2>1 DEF ParentsWait, AllDone
    <2>3. ASSUME outcome'[r] = "waiting"
          PROVE  r \in states' \/ \E c \in Coroutines : turn' = c /\ Replies(c, r)'
        <3>1. r \in states \/ \E c \in Coroutines : turn = c /\ Replies(c, r)
            BY <1>1, <2>1, <2>3 DEF ParentsWait
        <3>2. ASSUME NEW c \in Coroutines, turn = c, Replies(c, r)
              PROVE  turn' = c /\ Replies(c, r)'
            BY <2>3, <3>2 DEF RepliesStay
        <3> QED BY <1>2, <2>3, <3>1, <3>2
    <2> QED BY <2>2, <2>3
<1>4. ASSUME NEW r \in Requests, outcome'[r] = "waiting"
      PROVE  \/ r \in states'
             \/ \E m \in Elements(inbox') : m.type = "add" /\ m.id = r
             \/ \E c \in Coroutines : Replies(c, r)'
    <2>1. \/ r \in states
          \/ \E m \in Elements(inbox) : m.type = "add" /\ m.id = r
          \/ \E c \in Coroutines : Replies(c, r)
        BY <1>1, <1>4 DEF WaitingIsKnown
    <2>2. \A m \in Elements(inbox) : m.type = "add" /\ m.id = r => m \in Elements(inbox')
        BY <1>4 DEF InboxKept
    <2>3. \A c \in Coroutines : Replies(c, r) => Replies(c, r)'
        BY <1>4 DEF RepliesStay
    <2> QED BY <1>2, <1>4, <2>1, <2>2, <2>3
<1> QED
    BY <1>3, <1>4 DEF ParentsWait, WaitingIsKnown

LEMMA BoundKept ==
    ASSUME TypeOK, BoundWhereHeld, StatesKept, CleanupGoesOn, BoundAgain
    PROVE  BoundWhereHeld'
<1> SUFFICES ASSUME NEW i \in states', NEW slot \in Slots, Has(slot, i)', ~Cleaned(i)'
             PROVE  route'[slot[1]][i] = slot[2]
    BY DEF BoundWhereHeld
<1>1. i \in states /\ i \in Ids /\ ~Cleaned(i)
    BY DEF StatesKept, CleanupGoesOn, TypeOK
<1> QED
    BY <1>1 DEF BoundAgain, BoundWhereHeld

\* What such a step has to keep.
Steady ==
    /\ UNCHANGED <<sent, submitted, finals>> /\ Answering
    /\ InboxKept /\ StatesKept /\ CleanupGoesOn /\ CleanupIsKnown /\ RouteIsKnown
    /\ BoundAgain /\ HoldsOn /\ LoopGoesOn /\ TrackerKept /\ RepliesStay
    /\ CleanedAreAnswered' /\ LoopEvicts'

LEMMA HandKept ==
    ASSUME TypeOK, PlacementInv, HandInv, Steady
    PROVE  HandInv'
<1>1. BoundWhereHeld'
    BY BoundKept DEF HandInv, Steady
<1>2. AllTracked'
    BY TrackedKept DEF HandInv, Steady
<1>3. KnownWasRegistered'
    BY KnownKept DEF HandInv, Steady, PlacementInv
<1>4. CompanionsTracked'
    BY CompanionsKept DEF HandInv, Steady, PlacementInv
<1>5. ParentsWait' /\ WaitingIsKnown'
    BY WaitersKept DEF HandInv, Steady
<1> QED
    BY <1>1, <1>2, <1>3, <1>4, <1>5 DEF HandInv, Steady

\* Where the conditions hold because the step does not touch what they are about.
LEMMA TokensKept ==
    ASSUME TypeOK, AllTracked, StatesKept, CleanupGoesOn, SameSubmissions,
           \A i \in states' : ~Cleaned(i)' => \A s \in Stages :
               (s \in submitted[i] \/ Sends("loop", i, s)) /\ Token(i, s) => Token(i, s)'
    PROVE  HoldsOn /\ LoopGoesOn
<1>1. "handler" \in Coroutines /\ "loop" \in Coroutines
    BY DEF Coroutines
<1>2. \A i \in states' : i \in Ids /\ submitted[i] \subseteq Stages
    BY DEF StatesKept, TypeOK
<1>3. HoldsOn
    BY <1>1, <1>2 DEF HoldsOn, Hold, SameSubmissions
<1>4. ASSUME NEW r \in Requests \cap states', ~Cleaned(r)', NEW s \in Stages
      PROVE  /\ Picks("loop", r, s) \/ Sends("loop", r, s) =>
                    Picks("loop", r, s)' \/ Sends("loop", r, s)'
             /\ Sends("loop", r, s)' => Token(r, s)'
    <2>1. r \in states /\ ~Cleaned(r)
        BY <1>2, <1>4 DEF StatesKept, CleanupGoesOn
    <2>2. Sends("loop", r, s) => Token(r, s)
        BY <1>4, <2>1 DEF AllTracked, Tracked
    <2> QED BY <1>1, <1>4, <2>2 DEF SameSubmissions
<1> QED
    BY <1>3, <1>4 DEF LoopGoesOn

LEMMA EnginesStill ==
    ASSUME UNCHANGED <<work, out, route, live, dead>>
    PROVE  /\ RouteIsKnown /\ BoundAgain
           /\ \A i, s : Token(i, s) => Token(i, s)'
<1>1. RouteIsKnown
    BY DEF RouteIsKnown
<1>2. BoundAgain
    BY DEF BoundAgain, Has
<1>3. \A i, s : Token(i, s) => Token(i, s)'
    BY DEF Token, Has, Lost
<1> QED BY <1>1, <1>2, <1>3

LEMMA RouteStill == ASSUME route' = route PROVE RouteIsKnown
BY DEF RouteIsKnown

LEMMA StatesStill == ASSUME states' = states PROVE StatesKept
BY DEF StatesKept

LEMMA InboxStill == ASSUME inbox' = inbox PROVE InboxKept
BY DEF InboxKept

LEMMA TrackerStill ==
    ASSUME TypeOK, CompanionsTracked, UNCHANGED <<registered, done, pending>>,
           \A c \in Companions : Leaving(c)' => Leaving(c)
    PROVE  TrackerKept
BY DEF TrackerKept, CompanionsTracked, TypeOK

LEMMA OutcomeStill == ASSUME outcome' = outcome PROVE Answering
BY DEF Answering

\* The frames stay.
LEMMA StillHand ==
    ASSUME TypeOK, HandInv, UNCHANGED <<todo, turn, sent, submitted, finals, states, registered, done, pending>>,
           Answering, InboxKept, RouteIsKnown, BoundAgain,
           \A i \in states' : ~Cleaned(i)' => \A s \in Stages :
               (s \in submitted[i] \/ Sends("loop", i, s)) /\ Token(i, s) => Token(i, s)'
    PROVE  Steady
<1>1. /\ \A ops, i : Named(ops, i)' <=> Named(ops, i)
      /\ SameSubmissions /\ RepliesStay /\ LoopEvicts'
    BY StillFrames DEF HandInv
<1>2. CleanupGoesOn /\ CleanupIsKnown
    BY <1>1 DEF CleanupGoesOn, CleanupIsKnown, Cleaned
<1>3. StatesKept
    BY StatesStill
<1>4. TrackerKept
    BY <1>1, TrackerStill DEF Leaving, HandInv
<1>5. HoldsOn /\ LoopGoesOn
    BY <1>1, <1>2, <1>3, TokensKept DEF HandInv
<1>6. CleanedAreAnswered'
    BY AnsweredStill DEF HandInv
<1> QED
    BY <1>1, <1>2, <1>3, <1>4, <1>5, <1>6 DEF Steady

\* The engines and the hub, and a cancellation.
LEMMA StillerHand ==
    ASSUME TypeOK, HandInv, UNCHANGED <<todo, turn, sent, submitted, finals, states, registered, done, pending>>,
           UNCHANGED <<work, out, route, live, dead>>, Answering, InboxKept
    PROVE  Steady
BY EnginesStill, StillHand

LEMMA AnswerIs ==
    ASSUME NEW slot \in Slots, NEW i \in Ids, Compute(slot, i) \/ ReportKV(slot, i)
    PROVE  \E o \in Outputs :
               /\ o.id = i /\ out' = [out EXCEPT ![slot] = Append(@, o)]
               /\ work' = IF o.kind = "kv_ready" THEN work ELSE [work EXCEPT ![slot] = @ \ {i}]
<1>1. CASE Compute(slot, i)
    <2>1. PICK kind \in {"finished", "error"} :
              out' = [out EXCEPT ![slot] = Append(@, [id |-> i, kind |-> kind])]
        BY <1>1 DEF Compute
    <2> DEFINE o == [id |-> i, kind |-> kind]
    <2>2. o \in Outputs /\ o.id = i /\ o.kind # "kv_ready"
        BY DEF Outputs
    <2> QED BY <1>1, <2>1, <2>2 DEF Compute
<1>2. CASE ReportKV(slot, i)
    <2> DEFINE o == [id |-> i, kind |-> "kv_ready"]
    <2>1. o \in Outputs /\ o.id = i /\ o.kind = "kv_ready"
        BY <1>2, OrchestratorAssumption DEF Outputs, ReportKV
    <2> QED BY <1>2, <2>1 DEF ReportKV
<1> QED BY <1>1, <1>2

LEMMA EngineHand ==
    ASSUME TypeOK, HandInv, NEW slot \in Slots, NEW i \in Ids, Compute(slot, i) \/ ReportKV(slot, i)
    PROVE  Steady
<1> USE DEF client, requests, tracker, pools, engines, environment
<1>1. /\ UNCHANGED <<todo, turn, sent, submitted, finals, states, registered, done, pending>>
      /\ UNCHANGED <<inbox, outcome, route, live, dead>> /\ i \in work[slot]
    BY DEF Compute, ReportKV
<1>2. PICK o \in Outputs :
          /\ o.id = i /\ out' = [out EXCEPT ![slot] = Append(@, o)]
          /\ work' = IF o.kind = "kv_ready" THEN work ELSE [work EXCEPT ![slot] = @ \ {i}]
    BY AnswerIs
<1>3. \A x \in Slots : \A j : Has(x, j)' <=> Has(x, j)
    <2> SUFFICES ASSUME NEW x \in Slots, NEW j PROVE Has(x, j)' <=> Has(x, j)
        OBVIOUS
    <2>1. out[x] \in Seq(Outputs) /\ work \in [Slots -> SUBSET Ids] /\ out \in [Slots -> Seq(Outputs)]
        BY DEF TypeOK
    <2>2. CASE x # slot
        BY <1>2, <2>1, <2>2 DEF Has
    <2>3. CASE x = slot
        <3>1. Ends(out'[x], j) = Ends(out[x], j) \cup (IF IsEnd(o, j) THEN {Len(out[x]) + 1} ELSE {})
            BY <1>2, <2>1, <2>3, EndsOfAppend
        <3>2. IsEnd(o, j) <=> j = i /\ o.kind # "kv_ready"
            BY <1>2 DEF IsEnd
        <3>3. work'[x] = IF o.kind = "kv_ready" THEN work[x] ELSE work[x] \ {i}
            BY <1>2, <2>1, <2>3
        <3> QED BY <1>1, <2>3, <3>1, <3>2, <3>3 DEF Has
    <2> QED BY <2>2, <2>3
<1>4. \A x \in Slots : \A j : Lost(x, j)' <=> Lost(x, j)
    BY <1>1 DEF Lost
<1>5. \A j, s : Token(j, s) => Token(j, s)'
    BY <1>3, <1>4 DEF Token
<1>6. BoundAgain
    BY <1>1, <1>3 DEF BoundAgain
<1>7. Answering /\ InboxKept /\ RouteIsKnown
    BY <1>1, OutcomeStill, InboxStill, RouteStill
<1> QED
    BY <1>1, <1>5, <1>6, <1>7, StillHand

\* A replica dies with what it computed: it was bound to that.
LEMMA OutsideHand ==
    ASSUME TypeOK, HandInv, NEW slot \in Slots,
           Attach(slot) \/ Die(slot) \/ Delist(slot) \/ List(slot)
    PROVE  Steady
<1> USE DEF client, requests, tracker, pools, engines, environment
<1>1. /\ UNCHANGED <<todo, turn, sent, submitted, finals, states, registered, done, pending>>
      /\ UNCHANGED <<inbox, outcome, route, out>>
    BY DEF Attach, Die, Delist, List
<1>2. Answering /\ InboxKept /\ RouteIsKnown
    BY <1>1, OutcomeStill, InboxStill, RouteStill
<1>3. CASE Delist(slot) \/ List(slot)
    <2>1. UNCHANGED <<work, live, dead>>
        BY <1>3 DEF Delist, List
    <2> QED BY <1>1, <1>2, <2>1, StillerHand
<1>4. CASE Attach(slot)
    <2>1. work' = work /\ slot \notin live /\ live' = live \cup {slot} /\ dead' = dead \ {slot}
        BY <1>4 DEF Attach
    <2>2. \A x \in Slots : \A j : Has(x, j)' <=> Has(x, j)
        BY <1>1, <2>1 DEF Has
    <2>3. \A x \in Slots : \A j : Lost(x, j) => Lost(x, j)'
        BY <1>1, <2>1 DEF Lost
    <2>4. \A j, s : Token(j, s) => Token(j, s)'
        BY <2>2, <2>3 DEF Token
    <2>5. BoundAgain
        BY <1>1, <2>2 DEF BoundAgain
    <2> QED BY <1>1, <1>2, <2>4, <2>5, StillHand
<1>5. CASE Die(slot)
    <2>1. /\ slot \in live /\ live' = live /\ dead' = dead \cup {slot}
          /\ work' = [work EXCEPT ![slot] = {}]
        BY <1>5 DEF Die
    <2>2. \A x \in Slots : \A j : Has(x, j)' => Has(x, j)
        BY <1>1, <2>1 DEF Has, TypeOK
    <2>3. BoundAgain
        BY <1>1, <2>2 DEF BoundAgain
    <2>4. \A x \in Slots : \A j : Lost(x, j) => Lost(x, j)'
        BY <1>1, <2>1 DEF Lost
    <2>5. ASSUME NEW j \in states', ~Cleaned(j)', NEW x \in Slots, Has(x, j)
          PROVE  Has(x, j)' \/ Lost(x, j)'
        <3>1. j \in states /\ ~Cleaned(j)
            BY <1>1, <2>5, StillFrames DEF Cleaned
        <3>2. CASE x = slot
            <4>1. route[slot[1]][j] = slot[2]
                BY <2>5, <3>1, <3>2 DEF HandInv, BoundWhereHeld
            <4> QED BY <1>1, <2>1, <3>2, <4>1 DEF Lost
        <3>3. CASE x # slot
            BY <1>1, <2>1, <2>5, <3>3 DEF Has, TypeOK
        <3> QED BY <3>2, <3>3
    <2>6. \A j \in states' : ~Cleaned(j)' => \A s \in Stages : Token(j, s) => Token(j, s)'
        BY <2>4, <2>5 DEF Token
    <2> QED BY <1>1, <1>2, <2>3, <2>6, StillHand
<1> QED
    BY <1>3, <1>4, <1>5

-----------------------------------------------------------------------------
(* A coroutine goes on without submitting.                                 *)

LEMMA SubmittedIsKnown ==
    ASSUME KnownWasSent, NEW i \in Ids, submitted[i] # {}
    PROVE  Known(i)
BY DEF KnownWasSent, Known, Owner

LEMMA QuietHand ==
    ASSUME TypeOK, HandInv, NEW c \in Coroutines, NEW frames, NEW G, Adds(c, frames, G),
           Quiet(frames), turn \in {Nobody, c},
           todo[c] # <<>> => Head(todo[c]).op \notin Submission \cup {"reply"},
           UNCHANGED <<sent, submitted, finals>>, Answering, InboxKept, StatesKept,
           todo[c] # <<>> /\ Head(todo[c]).op \in Cleanup => \A i \in Head(todo[c]).ids :
               i \notin states' \/ \E g \in G : g.op \in Cleanup /\ i \in g.ids,
           \A g \in G : g.op \in Cleanup => \A i \in Ids \cap g.ids : Known(i),
           \A g \in G : g.op = "evict" => c = "loop",
           RouteIsKnown, BoundAgain, TrackerKept, CleanedAreAnswered',
           \A i \in states' : ~Cleaned(i)' => \A s \in Stages :
               (s \in submitted[i] \/ Sends("loop", i, s)) /\ Token(i, s) => Token(i, s)'
    PROVE  Steady
<1>1. \A i : /\ Cleaned(i)' => Cleaned(i) \/ \E g \in G : g.op \in Cleanup /\ i \in g.ids
             /\ (\E g \in G : g.op \in Cleanup /\ i \in g.ids) => Cleaned(i)'
             /\ Cleaned(i) =>
                    \/ Cleaned(i)'
                    \/ todo[c] # <<>> /\ Head(todo[c]).op \in Cleanup /\ i \in Head(todo[c]).ids
    BY FramesStep DEF Cleaned
<1>2. CleanupGoesOn
    BY <1>1 DEF CleanupGoesOn
<1>3. CleanupIsKnown
    BY <1>1 DEF CleanupIsKnown
<1>4. frames \in Seq(Frames) /\ Continue(c, frames)
    BY DEF Adds
<1>5. SameSubmissions
    BY <1>4, QuietHeads
<1>6. RepliesStay
    BY <1>4, RepliesStep
<1>7. LoopEvicts'
    BY EvictsStep DEF HandInv
<1>8. HoldsOn /\ LoopGoesOn
    BY <1>2, <1>5, TokensKept DEF HandInv
<1> QED
    BY <1>2, <1>3, <1>6, <1>7, <1>8 DEF Steady

LEMMA LeavingAfter ==
    ASSUME TypeOK, NEW c \in Coroutines, NEW frames, NEW G, Adds(c, frames, G),
           NEW i, \A g \in G : g.op \in Leave => i \notin g.ids \/ Leaving(i)
    PROVE  Leaving(i)' => Leaving(i)
BY FramesStep DEF Leaving

\* In front of what coroutine c has left comes one frame, or nothing.
LEMMA AddsOne ==
    ASSUME TypeOK, NEW c \in Coroutines, NEW op, At(c, op), NEW g \in Frames,
           Continue(c, <<g>> \o Rest(c))
    PROVE  Adds(c, <<g>> \o Rest(c), {g}) /\ turn \in {Nobody, c}
<1>1. Rest(c) \in Seq(Frames) /\ todo[c] # <<>>
    BY AtFrame
<1>2. /\ <<g>> \o Rest(c) \in Seq(Frames)
      /\ Elements(<<g>> \o Rest(c)) = {g} \cup Elements(Rest(c))
    BY <1>1, FramesInFront
<1> QED
    BY <1>1, <1>2 DEF Adds, At

LEMMA AddsNone ==
    ASSUME TypeOK, NEW c \in Coroutines, NEW op, At(c, op), Continue(c, Rest(c))
    PROVE  Adds(c, Rest(c), {}) /\ turn \in {Nobody, c}
BY AtFrame DEF Adds, At

LEMMA AddsIdle ==
    ASSUME TypeOK, NEW c \in Coroutines, Idle(c), NEW frames \in Seq(Frames), Continue(c, frames)
    PROVE  Adds(c, frames, Elements(frames)) /\ turn \in {Nobody, c} /\ todo[c] = <<>>
BY DEF Adds, Idle

\* _cleanup_request_ids, up to its first await.
LEMMA BatchIs ==
    ASSUME TypeOK, KnownWasSent, KnownWasRegistered, NEW ids \in SUBSET Ids,
           \A i \in ids : Cleaned(i)
    PROVE  /\ \A i \in Batch(ids) : Known(i)
           /\ \A r \in Requests \cap Batch(ids) : r \in ids \/ r \in Orphaned(ids)
           /\ \A r \in Parents(ids) : r \in Batch(ids)
           /\ \A r \in Requests : \A c \in registered[r] \ done :
                  c \in Batch(ids) => r \in Parents(ids)
<1>1. /\ Orphaned(ids) \subseteq Requests /\ Parents(ids) \subseteq Requests
      /\ Requests \cap Companions = {}
      /\ Batch(ids) = ids \cup Orphaned(ids) \cup UNION {registered[p] : p \in Parents(ids)}
    BY BatchTyped, OrchestratorAssumption DEF Batch, Parents
<1>2. \A r \in Requests : \A c \in registered[r] :
          c \in Companions /\ Parent[c] = r /\ submitted[c] # {}
    BY DEF KnownWasRegistered, TypeOK
<1>3. \A i \in ids : Known(i)
    BY DEF KnownWasRegistered
<1>4. \A i \in Orphaned(ids) : Known(i)
    <2> SUFFICES ASSUME NEW i \in Orphaned(ids) PROVE Known(i)
        OBVIOUS
    <2>1. PICK j \in ids : IsCompanion(j) /\ i = Parent[j]
        BY DEF Orphaned
    <2>2. j \in Companions /\ submitted[j] # {} /\ j \in Ids
        BY <1>3, <2>1 DEF Known, IsCompanion
    <2>3. i \in sent
        BY <2>1, <2>2 DEF KnownWasSent, Owner
    <2> QED BY <1>1, <2>3 DEF Known
<1>5. \A p \in Parents(ids) : \A i \in registered[p] : Known(i)
    BY <1>1, <1>2 DEF Known
<1>6. \A i \in Batch(ids) : Known(i)
    BY <1>1, <1>3, <1>4, <1>5
<1>7. \A r \in Requests \cap Batch(ids) : r \in ids \/ r \in Orphaned(ids)
    BY <1>1, <1>2
<1>8. \A r \in Parents(ids) : r \in Batch(ids)
    BY <1>1 DEF Parents
<1>9. ASSUME NEW r \in Requests, NEW c \in registered[r] \ done, c \in Batch(ids)
      PROVE  r \in Parents(ids)
    <2>1. c \in Companions /\ Parent[c] = r /\ IsCompanion(c)
        BY <1>2, <1>9 DEF IsCompanion
    <2>2. CASE c \in ids
        BY <2>1, <2>2 DEF Orphaned, Parents
    <2>3. CASE c \in Orphaned(ids)
        BY <1>1, <2>1, <2>3
    <2>4. CASE \E p \in Parents(ids) : c \in registered[p]
        BY <1>1, <1>2, <2>1, <2>4
    <2> QED BY <1>1, <1>9, <2>2, <2>3, <2>4
<1> QED
    BY <1>6, <1>7, <1>8, <1>9

LEMMA CleanStartHand ==
    ASSUME TypeOK, PlacementInv, HandInv, NEW c \in Coroutines, CleanStart(c)
    PROVE  Steady
<1> USE DEF client, requests, tracker, pools, engines, environment
<1> DEFINE f == Head(todo[c])
           g == CleanNext(f)
<1>1. /\ f \in Frames /\ f.op = "clean" /\ f.ids \subseteq Ids
      /\ outcome' = Told(Orphaned(f.ids), "error")
      /\ registered' = [r \in Requests |-> IF r \in Parents(f.ids) THEN {} ELSE registered[r]]
      /\ done' = done \ UNION {registered[p] : p \in Parents(f.ids)}
      /\ pending' = [r \in Requests |-> IF r \in Parents(f.ids) THEN -1 ELSE pending[r]]
      /\ g \in Frames /\ Continue(c, <<g>> \o Rest(c))
    BY CleanStartIs
<1>2. /\ At(c, "clean") /\ UNCHANGED <<sent, inbox, submitted, finals, states, route, live>>
      /\ UNCHANGED <<work, out, dead>>
    BY DEF CleanStart
<1>3. g.op \in Leave /\ g.op # "evict" /\ g.op \notin Submission /\ g.ids = Batch(f.ids)
    BY DEF CleanNext, AbortAt, Finish, Leave, Submission
<1>4. todo[c] # <<>> /\ Rest(c) \in Seq(Frames) /\ Quiet(Rest(c)) /\ f.op \in Cleanup
    BY <1>1, <1>2, AtFrame, QuietRest, PlacementIs DEF Tokens, Cleanup
<1>5. \A i \in f.ids : Cleaned(i)
    <2>1. f \in Elements(todo[c])
        BY <1>2, AtFrame
    <2> QED BY <1>4, <2>1 DEF Cleaned, Named, NamedIn
<1>6. /\ \A i \in Batch(f.ids) : Known(i)
      /\ \A r \in Requests \cap Batch(f.ids) : r \in f.ids \/ r \in Orphaned(f.ids)
      /\ \A r \in Parents(f.ids) : r \in Batch(f.ids)
      /\ \A r \in Requests : \A d \in registered[r] \ done :
             d \in Batch(f.ids) => r \in Parents(f.ids)
    BY <1>1, <1>5, BatchIs DEF PlacementInv, HandInv
<1> HIDE DEF f, g
<1>7. Adds(c, <<g>> \o Rest(c), {g}) /\ turn \in {Nobody, c}
    BY <1>1, <1>2, AddsOne
<1>8. Quiet(<<g>> \o Rest(c))
    BY <1>1, <1>3, <1>4, QuietInFront
<1>9. Answering
    BY <1>1, ToldAnswers
<1>10. TrackerKept
    <2>1. done' \subseteq done
        BY <1>1
    <2>2. \A d : Leaving(d)' => Leaving(d) \/ d \in Batch(f.ids)
        BY <1>3, <1>7, FramesStep DEF Leaving
    <2>3. \A i \in Batch(f.ids) : Cleaned(i)'
        BY <1>3, <1>7, FramesStep DEF Cleaned, Cleanup
    <2>4. \A r \in Requests : \A d \in registered[r] : Parent[d] = r
        BY DEF HandInv, KnownWasRegistered
    <2>5. Parents(f.ids) \subseteq Requests
        BY DEF Parents
    <2>6. ASSUME NEW r \in Requests, r \notin Parents(f.ids), NEW d \in registered[r] \ done'
          PROVE  d \notin done /\ ~Leaving(d)'
        <3>1. d \notin done
            BY <1>1, <2>4, <2>5, <2>6
        <3>2. ~Leaving(d)
            BY <2>6, <3>1 DEF HandInv, CompanionsTracked
        <3> QED BY <1>6, <2>2, <2>6, <3>1, <3>2
    <2> QED BY <1>1, <1>6, <2>1, <2>3, <2>6 DEF TrackerKept
<1>11. CleanedAreAnswered'
    <2>1. ASSUME NEW r \in Requests \cap g.ids, outcome'[r] = "waiting" PROVE r \in f.ids
        BY <1>1, <1>3, <1>6, <2>1 DEF Told
    <2> QED BY <1>1, <1>3, <1>4, <1>9, <2>1, AnsweredHead DEF HandInv, Cleanup, f
<1>12. InboxKept /\ StatesKept /\ RouteIsKnown /\ BoundAgain
       /\ \A i, s : Token(i, s) => Token(i, s)'
    BY <1>2, InboxStill, StatesStill, EnginesStill
<1>13. \A i \in f.ids : g.op \in Cleanup /\ i \in g.ids
    BY <1>3 DEF Batch, Cleanup
<1>14. f.op \notin Submission \cup {"reply"}
    BY <1>1 DEF Submission
<1> QED
    BY <1>2, <1>3, <1>6, <1>7, <1>8, <1>9, <1>10, <1>11, <1>12, <1>13, <1>14, QuietHand DEF f

\* One pool of the abort: only requests that are cleaned up lose anything.
LEMMA LeaveHand ==
    ASSUME TypeOK, PlacementInv, HandInv, NEW c \in Coroutines,
           At(c, "abort") \/ At(c, "release"),
           NEW g \in Frames, g.op \in Leave, g.ids = Head(todo[c]).ids,
           Continue(c, <<g>> \o Rest(c)),
           UNCHANGED <<sent, inbox, outcome, submitted, finals, states, registered, done, pending>>,
           UNCHANGED <<out, live, dead>>,
           \A i \in Ids \ g.ids : /\ \A s \in Stages : route'[s][i] = route[s][i]
                                  /\ \A x \in Slots : i \in work'[x] <=> i \in work[x],
           RouteIsKnown
    PROVE  Steady
<1> DEFINE f == Head(todo[c])
<1>1. /\ todo[c] # <<>> /\ f \in Frames /\ f.op \in {"abort", "release"} /\ f.ids \subseteq Ids
      /\ Rest(c) \in Seq(Frames) /\ Quiet(Rest(c))
    BY AtFrame, FrameFields, QuietRest, PlacementIs DEF Tokens, Submission
<1>2. g.op \in Cleanup /\ g.op \notin Submission /\ g.op # "evict"
      /\ f.op \in Cleanup /\ f.op \in Leave /\ f.op \notin Submission \cup {"reply"}
    BY <1>1 DEF Cleanup, Leave, Submission
<1>3. \A i \in f.ids : Cleaned(i) /\ Leaving(i) /\ Known(i)
    <2>1. f \in Elements(todo[c])
        BY AtFrame
    <2>2. \A i \in f.ids : Cleaned(i) /\ Leaving(i)
        BY <1>2, <2>1 DEF Cleaned, Leaving, Named, NamedIn
    <2> QED BY <1>1, <2>2 DEF HandInv, KnownWasRegistered
<1> HIDE DEF f
<1>4. Adds(c, <<g>> \o Rest(c), {g}) /\ turn \in {Nobody, c}
    BY AddsOne
<1>5. Quiet(<<g>> \o Rest(c))
    BY <1>1, <1>2, QuietInFront
<1>6. Answering /\ InboxKept /\ StatesKept
    BY OutcomeStill, InboxStill, StatesStill
<1>7. \A i : Leaving(i)' => Leaving(i)
    BY <1>3, <1>4, FramesStep DEF Leaving, f
<1>8. TrackerKept
    BY <1>7, TrackerStill DEF HandInv
<1>9. CleanedAreAnswered'
    BY <1>1, <1>2, <1>6, AnsweredHead, AnsweredBefore DEF HandInv, f
<1>10. \A i : ~Cleaned(i)' => i \notin g.ids
    BY <1>2, <1>4, FramesStep DEF Cleaned
<1>11. \A i \in Ids \ g.ids, x \in Slots : (Has(x, i)' <=> Has(x, i)) /\ (Lost(x, i)' <=> Lost(x, i))
    BY SlotsArePairs DEF Has, Lost
<1>12. states' \subseteq Ids
    BY DEF TypeOK
<1>13. BoundAgain
    BY <1>10, <1>11, <1>12, SlotsArePairs DEF BoundAgain
<1>14. \A i \in states' : ~Cleaned(i)' => \A s \in Stages : Token(i, s) => Token(i, s)'
    BY <1>10, <1>11, <1>12 DEF Token
<1> QED
    BY <1>1, <1>2, <1>3, <1>4, <1>5, <1>6, <1>8, <1>9, <1>13, <1>14, QuietHand DEF f

LEMMA UnboundIs ==
    ASSUME TypeOK, NEW ids, NEW s \in Stages, route' = Unbound(ids, s)
    PROVE  /\ \A i \in Ids \ ids : \A t \in Stages : route'[t][i] = route[t][i]
           /\ \A i \in Ids, t \in Stages : route'[t][i] \in {route[t][i], NoReplica}
BY DEF TypeOK, Unbound

LEMMA AbortInPoolHand ==
    ASSUME TypeOK, PlacementInv, HandInv, NEW c \in Coroutines, AbortInPool(c)
    PROVE  Steady
<1> USE DEF client, requests, tracker, pools, engines, environment
<1> DEFINE f == Head(todo[c])
           a == AfterAbortAt(f.ids, f.stage)
           b == ReleaseAt(f.ids, f.stage)
<1>1. /\ At(c, "abort")
      /\ UNCHANGED <<sent, inbox, outcome, submitted, finals, states, registered, done, pending>>
      /\ UNCHANGED <<out, live, dead>>
    BY DEF AbortInPool
<1>2. f \in Frames /\ f.ids \subseteq Ids /\ f.stage \in Stages
    BY <1>1, AtFrame, FrameFields
<1>3. /\ a \in Frames /\ a.op \in Leave /\ a.ids = f.ids
      /\ b \in Frames /\ b.op \in Leave /\ b.ids = f.ids
    <2>1. a \in Frames /\ b \in Frames
        BY <1>2, FrameMakers, ParentIs DEF AfterAbortAt
    <2> QED BY <2>1 DEF AfterAbortAt, AbortAt, ReleaseAt, Finish, Leave
<1>4. CASE /\ route' = Unbound(f.ids, f.stage) /\ work' = work
           /\ Continue(c, <<a>> \o Rest(c))
    <2> HIDE DEF f, a
    <2>1. RouteIsKnown
        BY <1>2, <1>4, UnboundIs DEF RouteIsKnown
    <2>2. \A i \in Ids \ a.ids : /\ \A s \in Stages : route'[s][i] = route[s][i]
                                 /\ \A x \in Slots : i \in work'[x] <=> i \in work[x]
        BY <1>2, <1>3, <1>4, UnboundIs
    <2> QED BY <1>1, <1>3, <1>4, <2>1, <2>2, LeaveHand DEF f
<1>5. CASE /\ work' = [slot \in Slots |->
                         IF slot[1] = f.stage
                         THEN work[slot] \ {i \in Here(f) : route[f.stage][i] = slot[2]}
                         ELSE work[slot]]
           /\ Continue(c, <<b>> \o Rest(c)) /\ route' = route
    <2> HIDE DEF f, b
    <2>1. RouteIsKnown
        BY <1>5, RouteStill
    <2>2. Here(f) \subseteq f.ids
        BY DEF Here
    <2>3. \A i \in Ids \ b.ids : /\ \A s \in Stages : route'[s][i] = route[s][i]
                                 /\ \A x \in Slots : i \in work'[x] <=> i \in work[x]
        BY <1>3, <1>5, <2>2
    <2> QED BY <1>1, <1>3, <1>5, <2>1, <2>3, LeaveHand DEF f
<1> QED
    BY <1>4, <1>5, AbortInPoolIs

LEMMA ReleaseInPoolHand ==
    ASSUME TypeOK, PlacementInv, HandInv, NEW c \in Coroutines, ReleaseInPool(c)
    PROVE  Steady
<1> USE DEF client, requests, tracker, pools, engines, environment
<1> DEFINE f == Head(todo[c])
           a == AfterAbortAt(f.ids, f.stage)
<1>1. /\ At(c, "release")
      /\ UNCHANGED <<sent, inbox, outcome, submitted, finals, states, registered, done, pending>>
      /\ UNCHANGED <<out, live, dead, work>>
      /\ route' = Unbound(f.ids, f.stage) /\ Continue(c, <<a>> \o Rest(c))
    BY DEF ReleaseInPool
<1>2. f \in Frames /\ f.ids \subseteq Ids /\ f.stage \in Stages
    BY <1>1, AtFrame, FrameFields
<1>3. a \in Frames /\ a.op \in Leave /\ a.ids = f.ids
    <2>1. a \in Frames
        BY <1>2, FrameMakers, ParentIs DEF AfterAbortAt
    <2> QED BY <2>1 DEF AfterAbortAt, AbortAt, Finish, Leave
<1> HIDE DEF f, a
<1>4. RouteIsKnown
    BY <1>1, <1>2, UnboundIs DEF RouteIsKnown
<1>5. \A i \in Ids \ a.ids : /\ \A s \in Stages : route'[s][i] = route[s][i]
                             /\ \A x \in Slots : i \in work'[x] <=> i \in work[x]
    BY <1>1, <1>2, <1>3, UnboundIs
<1> QED
    BY <1>1, <1>3, <1>4, <1>5, LeaveHand DEF f

\* The end of a clean-up: the state of a request that waits for its reply goes,
\* and the reply is the next frame.
LEMMA CleanEndHand ==
    ASSUME TypeOK, PlacementInv, HandInv, NEW c \in Coroutines, CleanEnd(c)
    PROVE  Steady
<1> USE DEF client, requests, tracker, pools, engines, environment
<1> DEFINE f == Head(todo[c])
<1>1. /\ At(c, "finish") /\ states' = states \ f.ids /\ Continue(c, Rest(c))
      /\ route' = [s \in Stages |-> Unbound(f.ids, s)[s]]
      /\ UNCHANGED <<sent, inbox, outcome, submitted, finals, registered, done, pending>>
      /\ UNCHANGED <<work, out, live, dead>>
    BY DEF CleanEnd
<1>2. /\ todo[c] # <<>> /\ f \in Frames /\ f.op = "finish" /\ f.ids \subseteq Ids
      /\ f \in Elements(todo[c]) /\ Rest(c) \in Seq(Frames) /\ Quiet(Rest(c))
    BY <1>1, AtFrame, FrameFields, QuietRest, PlacementIs DEF Tokens
<1>3. f.op \in Leave /\ f.op \in Cleanup /\ f.op \notin Submission \cup {"reply"}
    BY <1>2 DEF Leave, Cleanup, Submission
<1>4. \A i \in f.ids : Leaving(i)
    BY <1>2, <1>3 DEF Leaving, Named, NamedIn
<1>5. \A s \in Stages, i \in Ids : route'[s][i] = IF i \in f.ids THEN NoReplica ELSE route[s][i]
    <2>0. route \in [Stages -> [Ids -> {k[2] : k \in Slots} \cup {NoReplica}]]
        BY DEF TypeOK
    <2> SUFFICES ASSUME NEW s \in Stages
                 PROVE  \A i \in Ids : route'[s][i] = IF i \in f.ids THEN NoReplica ELSE route[s][i]
        OBVIOUS
    <2> HIDE DEF f
    <2>1. route'[s] = Unbound(f.ids, s)[s]
        BY <1>1
    <2>2. Unbound(f.ids, s)[s] = [i \in Ids |-> IF i \in f.ids THEN NoReplica ELSE route[s][i]]
        BY <2>0 DEF Unbound
    <2> QED BY <2>1, <2>2
<1>6. Adds(c, Rest(c), {}) /\ turn \in {Nobody, c} /\ todo'[c] = Rest(c)
    BY <1>1, <1>2, AddsNone, Continued
<1>7. StatesKept
    <2>1. ASSUME NEW r \in Requests \cap f.ids, outcome'[r] = "waiting"
          PROVE  turn' = c /\ Replies(c, r)'
        <3>1. Rest(c) # <<>> /\ Head(Rest(c)).op = "reply" /\ r \in Head(Rest(c)).ids
            BY <1>1, <1>2, <1>3, <2>1 DEF HandInv, CleanedAreAnswered
        <3>2. ~Suspended(Rest(c))
            BY <3>1 DEF Suspended
        <3> QED BY <1>1, <1>6, <3>1, <3>2 DEF Continue, Replies
    <2> QED BY <1>1, <1>4, <2>1 DEF StatesKept
<1> HIDE DEF f
<1>8. Answering /\ InboxKept
    BY <1>1, OutcomeStill, InboxStill
<1>9. \A i : Leaving(i)' => Leaving(i)
    BY <1>6, LeavingAfter
<1>10. TrackerKept
    BY <1>1, <1>9, TrackerStill DEF HandInv
<1>11. CleanedAreAnswered'
    <2>1. \A g \in Elements(Rest(c)) : g.op \in Cleanup =>
              \A r \in Requests \cap g.ids : outcome'[r] # "waiting"
        BY <1>2, <1>8, AnsweredRest DEF HandInv
    <2> QED BY <1>1, <1>2, <1>8, <2>1, AnsweredAll DEF HandInv
<1>12. RouteIsKnown
    BY <1>5 DEF RouteIsKnown
<1>13. \A i \in states' : i \in Ids /\ i \notin f.ids
    BY <1>1 DEF TypeOK
<1>14. \A i \in states', x \in Slots : /\ route'[x[1]][i] = route[x[1]][i]
                                       /\ Has(x, i)' <=> Has(x, i)
                                       /\ Lost(x, i)' <=> Lost(x, i)
    BY <1>1, <1>5, <1>13, SlotsArePairs DEF Has, Lost
<1>15. BoundAgain
    BY <1>14 DEF BoundAgain
<1>16. \A i \in states', s \in Stages : Token(i, s) => Token(i, s)'
    BY <1>14 DEF Token
<1> QED
    BY <1>1, <1>2, <1>3, <1>6, <1>7, <1>8, <1>10, <1>11, <1>12, <1>13, <1>15, <1>16, QuietHand DEF f

LEMMA ReplyHand ==
    ASSUME TypeOK, PlacementInv, HandInv, NEW c \in Coroutines, ReplyTo(c)
    PROVE  Steady
<1> USE DEF client, requests, tracker, pools, engines, environment
<1> DEFINE f == Head(todo[c])
<1>1. /\ At(c, "reply") /\ outcome' = Told(f.ids, f.kind) /\ Continue(c, Rest(c))
      /\ UNCHANGED <<sent, inbox, submitted, finals, states, registered, done, pending>>
      /\ UNCHANGED <<work, out, live, dead, route>>
    BY DEF ReplyTo
<1>2. /\ todo[c] # <<>> /\ f \in Frames /\ f.op = "reply" /\ f.kind \in {"error", "aborted"}
      /\ Rest(c) \in Seq(Frames) /\ Quiet(Rest(c))
    BY <1>1, AtFrame, FrameFields, QuietRest, PlacementIs DEF Tokens
<1>3. f.op \notin Cleanup /\ f.op \notin Submission
    BY <1>2 DEF Leave, Cleanup, Submission
<1> HIDE DEF f
<1>4. Adds(c, Rest(c), {}) /\ turn \in {Nobody, c}
    BY <1>1, AddsNone
<1>5. Answering /\ InboxKept /\ StatesKept
    BY <1>1, <1>2, ToldAnswers, InboxStill, StatesStill
<1>6. \A i : (Cleaned(i)' <=> Cleaned(i)) /\ (Leaving(i)' => Leaving(i))
    <2>1. f.op \notin Leave
        BY <1>3 DEF Cleanup
    <2> QED BY <1>3, <1>4, <2>1, FramesStep DEF Cleaned, Leaving, f
<1>7. CleanupGoesOn /\ CleanupIsKnown
    BY <1>6 DEF CleanupGoesOn, CleanupIsKnown
<1>8. TrackerKept
    BY <1>1, <1>6, TrackerStill DEF HandInv
<1>9. SameSubmissions
    BY <1>1, <1>2, <1>3, QuietHeads DEF f
<1>10. RepliesStay
    <2>1. \A d \in Coroutines \ {c} : todo'[d] = todo[d] /\ turn # d
        BY <1>1, <1>2, <1>4, Continued, OrchestratorAssumption
    <2>2. \A r \in Requests : Replies(c, r) => outcome'[r] # "waiting"
        BY <1>1, <1>2 DEF Replies, Told, f
    <2> QED BY <2>1, <2>2 DEF RepliesStay, Replies
<1>11. LoopEvicts'
    BY <1>4, EvictsStep DEF HandInv
<1>12. CleanedAreAnswered'
    <2>1. \A g \in Elements(Rest(c)) : g.op \in Cleanup =>
              \A r \in Requests \cap g.ids : outcome'[r] # "waiting"
        BY <1>2, <1>5, AnsweredRest DEF HandInv
    <2> QED BY <1>1, <1>2, <1>5, <2>1, AnsweredAll DEF HandInv
<1>13. RouteIsKnown /\ BoundAgain /\ \A i, s : Token(i, s) => Token(i, s)'
    BY <1>1, EnginesStill
<1>14. HoldsOn /\ LoopGoesOn
    BY <1>5, <1>7, <1>9, <1>13, TokensKept DEF HandInv
<1> QED
    BY <1>1, <1>5, <1>7, <1>8, <1>10, <1>11, <1>12, <1>13, <1>14 DEF Steady

-----------------------------------------------------------------------------
(* A replica goes.                                                         *)

LEMMA DisconnectIs ==
    ASSUME TypeOK, NEW slot \in Slots, Disconnect(slot)
    PROVE  /\ \A i : ~Has(slot, i)'
           /\ \A x \in Slots \ {slot} : \A i : Has(x, i)' <=> Has(x, i)
           /\ \A x \in Slots \ {slot} : x \in live' <=> x \in live
<1>1. work'[slot] = {} /\ out'[slot] = <<>>
    BY DEF Disconnect, TypeOK
<1>2. \A i : Ends(<<>>, i) = {}
    BY DEF Ends
<1>3. \A x \in Slots \ {slot} : work'[x] = work[x] /\ out'[x] = out[x] /\ (x \in live' <=> x \in live)
    BY DEF Disconnect, TypeOK
<1> QED
    BY <1>1, <1>2, <1>3 DEF Has

\* A request that an evicted replica has, or lost, is cleaned up: it is bound.
LEMMA EvictHand ==
    ASSUME TypeOK, PlacementInv, HandInv, NEW c \in Coroutines, EvictReplica(c)
    PROVE  Steady
<1> USE DEF client, requests, tracker, pools, engines, environment
<1> DEFINE f == Head(todo[c])
           slot == <<f.stage, f.at>>
           G == {Clean({i}, TRUE) : i \in Victims(f)}
<1>1. /\ At(c, "evict")
      /\ UNCHANGED <<sent, inbox, submitted, finals, states, registered, done, pending>>
      /\ UNCHANGED <<route, dead>>
    BY DEF EvictReplica
<1>2. /\ todo[c] # <<>> /\ f \in Frames /\ f.op = "evict" /\ f \in Elements(todo[c])
      /\ Rest(c) \in Seq(Frames) /\ Quiet(Rest(c)) /\ f.stage \in Stages
    BY <1>1, AtFrame, FrameFields, QuietRest, PlacementIs DEF Tokens, Submission
<1>3. c = "loop"
    BY <1>2 DEF HandInv, LoopEvicts
<1>4. f.op \notin Submission \cup {"reply"} /\ f.op \notin Cleanup
    BY <1>2 DEF Submission, Cleanup, Leave
<1>5. InboxKept /\ StatesKept /\ RouteIsKnown
    BY <1>1, InboxStill, StatesStill, RouteStill
<1>6. CASE Continue(c, Rest(c)) /\ UNCHANGED <<outcome, live, work, out>>
    <2> HIDE DEF f, G
    <2>1. Adds(c, Rest(c), {}) /\ turn \in {Nobody, c}
        BY <1>1, <1>6, AddsNone
    <2>2. Answering
        BY <1>6, OutcomeStill
    <2>3. \A i : Leaving(i)' => Leaving(i)
        BY <2>1, LeavingAfter
    <2>4. TrackerKept
        BY <1>1, <2>3, TrackerStill DEF HandInv
    <2>5. CleanedAreAnswered'
        <3>1. \A g \in Elements(Rest(c)) : g.op \in Cleanup =>
                  \A r \in Requests \cap g.ids : outcome'[r] # "waiting"
            BY <1>2, <2>2, AnsweredRest DEF HandInv
        <3> QED BY <1>2, <1>6, <2>2, <3>1, AnsweredAll DEF HandInv
    <2>6. BoundAgain /\ \A i, s : Token(i, s) => Token(i, s)'
        BY <1>1, <1>6, EnginesStill
    <2> QED BY <1>1, <1>2, <1>4, <1>5, <2>1, <2>2, <2>4, <2>5, <2>6, QuietHand DEF f
<1>7. CASE /\ slot \in live /\ Disconnect(slot)
           /\ outcome' = Told(Victims(f), "error")
           /\ Continue(c, Cleanings(f) \o Rest(c))
    <2> DEFINE frames == Cleanings(f) \o Rest(c)
    <2>1. slot \in Slots /\ slot[1] = f.stage /\ slot[2] = f.at
        BY <1>7 DEF TypeOK
    <2>2. Cleanings(f) \in Seq(Frames) /\ Elements(Cleanings(f)) = G
        BY CleaningsAre
    <2>3. \A g \in G : g.op = "clean" /\ g.ids \subseteq Victims(f)
        BY DEF Clean
    <2>4. \A i \in Victims(f) : \E g \in G : g.op = "clean" /\ i \in g.ids
        <3>1. ASSUME NEW i \in Victims(f)
              PROVE  Clean({i}, TRUE) \in G /\ Clean({i}, TRUE).op = "clean" /\ i \in Clean({i}, TRUE).ids
            BY DEF Clean
        <3> HIDE DEF G
        <3> QED BY <3>1
    <2>5. \A i \in Victims(f) : i \in Ids /\ Known(i)
        BY SubmittedIsKnown DEF Victims, TypeOK, PlacementInv
    <2>6. \A i \in states : f.stage \in submitted[i] /\ route[f.stage][i] = f.at => i \in Victims(f)
        BY DEF Victims
    <2>a. Disconnect(slot)
        BY <1>7
    <2> HIDE DEF f, slot, G
    <2>7. frames \in Seq(Frames) /\ Elements(frames) = G \cup Elements(Rest(c))
        BY <1>2, <2>2, ConcatProperties, ElementsOfConcat
    <2>8. Adds(c, frames, G) /\ turn \in {Nobody, c}
        BY <1>1, <1>2, <1>7, <2>7 DEF Adds, At
    <2> HIDE DEF frames
    <2>9. "clean" \notin Submission /\ "clean" \notin Leave /\ "clean" \in Cleanup
        BY DEF Submission, Leave, Cleanup
    <2>10. Quiet(frames)
        BY <1>2, <2>3, <2>7, <2>9 DEF Quiet
    <2>11. Answering
        BY <1>7, ToldAnswers
    <2>12. \A i : Leaving(i)' => Leaving(i)
        BY <2>3, <2>8, <2>9, LeavingAfter
    <2>13. TrackerKept
        BY <1>1, <2>12, TrackerStill DEF HandInv
    <2>14. \A i \in Victims(f) : Cleaned(i)'
        BY <2>4, <2>8, <2>9, FramesStep DEF Cleaned
    <2>15. CleanedAreAnswered'
        <3>1. \A g \in Elements(Rest(c)) : g.op \in Cleanup =>
                  \A r \in Requests \cap g.ids : outcome'[r] # "waiting"
            BY <1>2, <2>11, AnsweredRest DEF HandInv
        <3>2. \A r \in Requests \cap Victims(f) : outcome'[r] # "waiting"
            BY <1>7 DEF Told
        <3>3. \A g \in Elements(frames) : g.op \in Cleanup =>
                  \A r \in Requests \cap g.ids : outcome'[r] # "waiting"
            BY <2>3, <2>7, <3>1, <3>2
        <3>4. Continue(c, frames)
            BY <2>8 DEF Adds
        <3> QED BY <2>7, <2>11, <3>3, <3>4, AnsweredAll DEF HandInv
    <2>b. PICK z \in Slots : z = slot
        BY <2>1
    <2>16. /\ \A i : ~Has(z, i)'
           /\ \A x \in Slots \ {z} : \A i : Has(x, i)' <=> Has(x, i)
           /\ \A x \in Slots \ {z} : x \in live' <=> x \in live
        <3>1. Disconnect(z)
            BY <2>a, <2>b
        <3> QED BY <3>1, DisconnectIs
    <2>17. BoundAgain
        <3>1. ASSUME NEW x \in Slots, NEW i, Has(x, i)'
              PROVE  Has(x, i)
            <4>1. CASE x = z
                BY <2>16, <3>1, <4>1
            <4>2. CASE x # z
                BY <2>16, <3>1, <4>2
            <4> QED BY <4>1, <4>2
        <3> QED BY <1>1, <3>1 DEF BoundAgain
    <2>18. ASSUME NEW i \in states', ~Cleaned(i)', NEW s \in Stages,
                  s \in submitted[i] \/ Sends("loop", i, s), Token(i, s)
           PROVE  Token(i, s)'
        <3>1. i \in states /\ i \in Ids /\ i \notin Victims(f)
            BY <1>1, <2>14, <2>18 DEF TypeOK
        <3>2. ~Cleaned(i)
            BY <1>4, <2>8, <2>18, FramesStep DEF Cleaned, f
        <3>3. s \in submitted[i]
            <4>1. ~Sends("loop", i, s)
                BY <1>2, <1>3 DEF Sends, Send, f
            <4> QED BY <2>18, <4>1
        <3>4. PICK x \in Slots : x[1] = s /\ (Has(x, i) \/ Lost(x, i))
            BY <2>18 DEF Token
        <3>5. x # z
            <4> SUFFICES ASSUME x = slot PROVE FALSE
                BY <2>b
            <4>1. route[f.stage][i] = f.at
                BY <2>1, <3>1, <3>2, <3>4 DEF HandInv, BoundWhereHeld, Lost
            <4> QED BY <2>1, <2>6, <3>1, <3>3, <3>4, <4>1
        <3>6. Has(x, i)' \/ Lost(x, i)'
            BY <1>1, <2>16, <3>4, <3>5 DEF Lost
        <3> QED BY <3>4, <3>6 DEF Token
    <2> QED BY <1>1, <1>2, <1>3, <1>4, <1>5, <2>3, <2>5, <2>8, <2>9, <2>10, <2>11, <2>13, <2>15,
               <2>17, <2>18, QuietHand DEF f
<1> QED
    BY <1>6, <1>7 DEF EvictReplica, Victims, Order, Cleanings

LEMMA PollDeadHand ==
    ASSUME TypeOK, PlacementInv, HandInv, NEW slot \in Slots, PollDead(slot)
    PROVE  Steady
<1> USE DEF client, requests, tracker, pools, engines, environment
<1> DEFINE f == Evict(slot[1], slot[2])
<1>1. /\ Continue("loop", <<f>>) /\ Idle("loop") /\ "loop" \in Coroutines
      /\ UNCHANGED <<sent, inbox, outcome, submitted, finals, states, registered, done, pending>>
      /\ UNCHANGED <<route, dead, live, work, out>>
    BY DEF PollDead, Coroutines
<1>2. f \in Frames /\ f.op \notin Submission /\ f.op \notin Cleanup
    BY FrameMakers, QuietFrames DEF Evict, Cleanup, Leave
<1> HIDE DEF f
<1>3. <<f>> \in Seq(Frames) /\ Elements(<<f>>) = {f} /\ Quiet(<<f>>)
    BY <1>2, FrameAlone DEF Quiet
<1>4. Adds("loop", <<f>>, {f}) /\ turn \in {Nobody, "loop"} /\ todo["loop"] = <<>>
    BY <1>1, <1>3, AddsIdle
<1>5. Answering /\ InboxKept /\ StatesKept
    BY <1>1, OutcomeStill, InboxStill, StatesStill
<1>6. \A i : Leaving(i)' => Leaving(i)
    <2>1. \A i : \A g \in {f} : g.op \in Leave => i \notin g.ids \/ Leaving(i)
        BY <1>2 DEF Cleanup
    <2> QED BY <1>1, <1>4, <2>1, LeavingAfter
<1>7. TrackerKept
    BY <1>1, <1>6, TrackerStill DEF HandInv
<1>8. CleanedAreAnswered'
    BY <1>1, <1>2, <1>3, <1>5, AnsweredAll DEF HandInv
<1>9. RouteIsKnown /\ BoundAgain /\ \A i, s : Token(i, s) => Token(i, s)'
    BY <1>1, EnginesStill
<1> QED
    BY <1>1, <1>2, <1>3, <1>4, <1>5, <1>7, <1>8, <1>9, QuietHand

\* The requests of a replica that left are those that are bound to it.
LEMMA UnregisterHand ==
    ASSUME TypeOK, PlacementInv, HandInv, NEW slot \in Slots, Unregister(slot)
    PROVE  Steady
<1> USE DEF client, requests, tracker, pools, engines, environment
<1> DEFINE affected == BoundTo(slot)
           f == Clean(affected, TRUE)
           g == Reply(affected, "error")
<1>1. /\ Continue("member", IF affected = {} THEN <<>> ELSE <<f, g>>) /\ Disconnect(slot)
      /\ route' = Unbound(affected, slot[1]) /\ Idle("member") /\ "member" \in Coroutines
      /\ UNCHANGED <<sent, inbox, outcome, submitted, finals, states, registered, done, pending>>
      /\ dead' = dead
    BY DEF Unregister, Coroutines
<1>2. affected \in SUBSET Ids /\ \A i \in Ids : route[slot[1]][i] = slot[2] => i \in affected
    BY DEF BoundTo
<1>3. \A i \in affected : Known(i)
    BY <1>2, SlotsArePairs, SubmittedIsKnown DEF BoundTo, HandInv, KnownWasRegistered, PlacementInv
<1>4. /\ f \in Frames /\ g \in Frames /\ f.op = "clean" /\ f.ids = affected /\ g.op = "reply"
    BY <1>2, FrameMakers DEF Clean, Reply
<1>5. {"clean", "reply"} \cap Submission = {} /\ {"clean", "reply"} \cap Leave = {}
      /\ "clean" \in Cleanup /\ "reply" \notin Cleanup
    BY DEF Submission, Leave, Cleanup
<1> HIDE DEF affected, f, g
<1>6. Answering /\ InboxKept /\ StatesKept
    BY <1>1, OutcomeStill, InboxStill, StatesStill
<1>7. PICK frames, G :
          /\ Adds("member", frames, G) /\ Quiet(frames) /\ CleanedAreAnswered'
          /\ \A h \in G : h = f \/ h = g
          /\ \A i \in affected : \E h \in G : h.op = "clean" /\ i \in h.ids
    <2>1. CASE affected = {}
        <3>1. <<>> \in Seq(Frames) /\ Elements(<<>>) = {} /\ Quiet(<<>>)
            BY FrameAlone, <1>4 DEF Quiet
        <3>2. Continue("member", <<>>)
            BY <1>1, <2>1
        <3>3. Adds("member", <<>>, {})
            BY <1>1, <3>1, <3>2, AddsIdle
        <3>4. CleanedAreAnswered'
            BY <1>1, <1>6, <3>1, <3>2, AnsweredAll DEF HandInv
        <3> QED BY <2>1, <3>1, <3>3, <3>4
    <2>2. CASE affected # {}
        <3>1. <<f, g>> \in Seq(Frames) /\ Elements(<<f, g>>) = {f, g}
            BY <1>4, TwoFrames
        <3>2. Continue("member", <<f, g>>) /\ Quiet(<<f, g>>)
            BY <1>1, <1>4, <1>5, <2>2, <3>1 DEF Quiet
        <3>3. Adds("member", <<f, g>>, {f, g})
            BY <1>1, <3>1, <3>2, AddsIdle
        <3>4. CleanedAreAnswered'
            BY <1>1, <1>2, <1>6, <3>2, AnsweredNext DEF HandInv, f, g
        <3> QED BY <1>4, <3>2, <3>3, <3>4
    <2> QED BY <2>1, <2>2
<1>8. turn \in {Nobody, "member"} /\ todo["member"] = <<>>
    BY <1>1 DEF Idle
<1>9. \A i : Leaving(i)' => Leaving(i)
    BY <1>1, <1>4, <1>5, <1>7, LeavingAfter
<1>10. TrackerKept
    BY <1>1, <1>9, TrackerStill DEF HandInv
<1>11. \A i \in affected : Cleaned(i)'
    BY <1>1, <1>5, <1>7, FramesStep DEF Cleaned
<1>12. /\ \A i \in Ids \ affected : \A t \in Stages : route'[t][i] = route[t][i]
       /\ RouteIsKnown
    BY <1>1, SlotsArePairs, UnboundIs DEF RouteIsKnown
<1>13. /\ \A i : ~Has(slot, i)'
       /\ \A x \in Slots \ {slot} : \A i : Has(x, i)' <=> Has(x, i)
       /\ \A x \in Slots \ {slot} : x \in live' <=> x \in live
    BY <1>1, DisconnectIs
<1>14. \A i \in states' : i \in states /\ i \in Ids
    BY <1>1 DEF TypeOK
<1>15. BoundAgain
    BY <1>11, <1>12, <1>13, <1>14, SlotsArePairs DEF BoundAgain
<1>16. ASSUME NEW i \in states', ~Cleaned(i)', NEW s \in Stages, Token(i, s)
       PROVE  Token(i, s)'
    <2>1. i \in states /\ i \in Ids /\ i \notin affected
        BY <1>11, <1>14, <1>16
    <2>2. ~Cleaned(i)
        BY <1>1, <1>7, <1>8, <1>16, FramesStep DEF Cleaned
    <2>3. PICK x \in Slots : x[1] = s /\ (Has(x, i) \/ Lost(x, i))
        BY <1>16 DEF Token
    <2>4. x # slot
        <3>1. x = slot => route[slot[1]][i] = slot[2]
            BY <2>1, <2>2, <2>3 DEF HandInv, BoundWhereHeld, Lost
        <3> QED BY <1>2, <2>1, <3>1
    <2>5. Has(x, i)' \/ Lost(x, i)'
        BY <1>1, <1>12, <1>13, <2>1, <2>3, <2>4, SlotsArePairs DEF Lost
    <2> QED BY <2>3, <2>5 DEF Token
<1>17. \A h \in G : /\ h.op = "clean" \/ h.op = "reply"
                    /\ h.op \in Cleanup => \A i \in Ids \cap h.ids : Known(i)
    BY <1>3, <1>4, <1>5, <1>7
<1> QED
    BY <1>1, <1>6, <1>7, <1>8, <1>10, <1>12, <1>15, <1>16, <1>17, QuietHand

-----------------------------------------------------------------------------
(* Messages that submit nothing.                                           *)

LEMMA CancelHand ==
    ASSUME TypeOK, PlacementInv, HandInv, NEW r \in Requests, Cancel(r)
    PROVE  Steady
<1> USE DEF client, requests, tracker, pools, engines, environment
<1> DEFINE m == [type |-> "abort", id |-> r]
<1>1. /\ UNCHANGED <<todo, turn, sent, submitted, finals, states, registered, done, pending>>
      /\ UNCHANGED <<work, out, route, live, dead, outcome>>
      /\ inbox' = Append(inbox, m) /\ outcome[r] = "waiting"
    BY DEF Cancel
<1>2. Owner(r) \in sent
    BY <1>1, OrchestratorAssumption DEF PlacementInv, KnownWasSent, Owner
<1>3. inbox \in Seq(Messages) /\ m \in Messages /\ m.id = r
    BY DEF TypeOK, Messages
<1> HIDE DEF m
<1>4. <<m>> \in Seq(Messages) /\ inbox' = inbox \o <<m>> /\ Elements(<<m>>) = {m}
    BY <1>1, <1>3, ElementsOfOne
<1>5. Elements(inbox') = Elements(inbox) \cup {m}
    BY <1>3, <1>4, MessagesJoined
<1>6. InboxKept
    BY <1>2, <1>3, <1>5 DEF InboxKept
<1> QED
    BY <1>1, <1>6, OutcomeStill, StillerHand

\* The handler took a message: the others are still there.
LEMMA InboxTaken ==
    ASSUME TypeOK, inbox # <<>>, inbox' = Tail(inbox),
           Head(inbox).type = "add" => outcome'[Head(inbox).id] # "waiting"
    PROVE  InboxKept
BY ElementsOfTail DEF TypeOK, InboxKept

LEMMA RefusedHand ==
    ASSUME TypeOK, PlacementInv, HandInv, inbox # <<>>, inbox' = Tail(inbox), sent' = sent,
           Head(inbox).type = "add" => outcome'[Head(inbox).id] # "waiting", Answering,
           UNCHANGED <<todo, turn, submitted, finals, states, registered, done, pending>>,
           UNCHANGED <<work, out, route, live, dead>>
    PROVE  Steady
BY InboxTaken, StillerHand

LEMMA HandleAbortHand ==
    ASSUME TypeOK, PlacementInv, HandInv, HandleAbort
    PROVE  Steady
<1> USE DEF client, requests, tracker, pools, engines, environment
<1> DEFINE r == Head(inbox).id
           f == Clean({r}, TRUE)
           g == Reply({r}, "aborted")
<1>1. /\ Idle("handler") /\ inbox # <<>> /\ Head(inbox).type = "abort" /\ inbox' = Tail(inbox)
      /\ sent' = sent /\ Continue("handler", <<f, g>>) /\ "handler" \in Coroutines
      /\ UNCHANGED <<outcome, submitted, finals, states, registered, done, pending>>
      /\ UNCHANGED <<work, out, route, live, dead>>
    BY DEF HandleAbort, Receive, Coroutines
<1>2. Head(inbox) \in Messages /\ Head(inbox) \in Elements(inbox)
    BY <1>1, ElementsOfTail DEF TypeOK
<1>3. r \in Requests /\ r \in Ids /\ Known(r)
    <2>1. r \in Requests
        BY <1>1, <1>2 DEF Messages
    <2>2. Owner(r) \in sent /\ r \notin Companions
        BY <1>2, <2>1, OrchestratorAssumption DEF HandInv, KnownWasRegistered
    <2> QED BY <2>1, <2>2 DEF Ids, Known, Owner
<1>4. /\ f \in Frames /\ g \in Frames /\ f.op = "clean" /\ f.ids = {r} /\ g.op = "reply"
    BY <1>3, FrameMakers DEF Clean, Reply
<1>5. {"clean", "reply"} \cap Submission = {} /\ {"clean", "reply"} \cap Leave = {}
      /\ "clean" \in Cleanup /\ "reply" \notin Cleanup
    BY DEF Submission, Leave, Cleanup
<1>6. Answering /\ StatesKept /\ InboxKept
    BY <1>1, OutcomeStill, StatesStill, InboxTaken
<1>7. CleanedAreAnswered'
    BY <1>1, <1>3, <1>6, AnsweredNext DEF HandInv
<1> HIDE DEF r, f, g
<1>8. <<f, g>> \in Seq(Frames) /\ Elements(<<f, g>>) = {f, g}
    BY <1>4, TwoFrames
<1>9. Quiet(<<f, g>>)
    BY <1>4, <1>5, <1>8 DEF Quiet
<1>10. Adds("handler", <<f, g>>, {f, g}) /\ turn \in {Nobody, "handler"} /\ todo["handler"] = <<>>
    BY <1>1, <1>8, AddsIdle
<1>11. \A i : Leaving(i)' => Leaving(i)
    BY <1>1, <1>4, <1>5, <1>10, LeavingAfter
<1>12. TrackerKept
    BY <1>1, <1>11, TrackerStill DEF HandInv
<1>13. RouteIsKnown /\ BoundAgain /\ \A i, s : Token(i, s) => Token(i, s)'
    BY <1>1, EnginesStill
<1>14. \A h \in {f, g} : /\ h.op = "clean" \/ h.op = "reply"
                         /\ h.op \in Cleanup => \A i \in Ids \cap h.ids : Known(i)
    BY <1>3, <1>4, <1>5
<1> QED
    BY <1>1, <1>6, <1>7, <1>9, <1>10, <1>12, <1>13, <1>14, QuietHand

-----------------------------------------------------------------------------
(* A submission.                                                           *)

\* Only the binding of the request that is submitted changes, and only the
\* replica it is bound to then gets it.
Binding(i, s) ==
    /\ \A j \in Ids, t \in Stages : j # i \/ t # s => route'[t][j] = route[t][j]
    /\ \A x \in Slots :
           /\ work[x] \subseteq work'[x] /\ out'[x] = out[x]
           /\ \A j \in work'[x] : j \in work[x] \/ (j = i /\ x[1] = s /\ route'[s][i] = x[2])
    /\ UNCHANGED <<live, dead>>

LEMMA PickIs ==
    ASSUME TypeOK, PlacementInv, NEW c \in Coroutines, NEW i \in Ids, NEW s \in Stages, Picks(c, i, s)
    PROVE  /\ todo[c] # <<>> /\ Head(todo[c]).op \in {"pick", "wait"}
           /\ NoEnd(i, s) /\ submitted[i] # {}
           /\ \/ c = "handler" /\ s = 0
              \/ c = "loop" /\ s > 0 /\ i \in Requests /\ s \notin submitted[i]
<1>1. /\ todo[c] # <<>> /\ Head(todo[c]).op \in {"pick", "wait"}
      /\ Head(todo[c]).id = i /\ Head(todo[c]).stage = s
    BY DEF Picks, IsPick
<1>2. Head(todo[c]).op \in Submission /\ Head(todo[c]).op # "send"
    BY <1>1 DEF Submission
<1> QED
    BY <1>1, <1>2, PlacementIs, SubmissionOf

LEMMA BindingIs ==
    ASSUME TypeOK, NEW i \in Ids, NEW s \in Stages, NoEnd(i, s), Binding(i, s), submitted[i] # {},
           states' = states
    PROVE  /\ RouteIsKnown /\ BoundAgain
           /\ \A j \in Ids, t \in Stages : Token(j, t) /\ (j # i \/ t # s) => Token(j, t)'
<1>1. RouteIsKnown
    BY DEF RouteIsKnown, Binding
<1>2. \A x \in Slots : x[1] \in Stages
    BY SlotsArePairs
<1>3. BoundAgain
    <2> SUFFICES ASSUME NEW j \in states', NEW x \in Slots, Has(x, j)',
                        route'[x[1]][j] # x[2]
                 PROVE  Has(x, j) /\ route'[x[1]][j] = route[x[1]][j]
        BY DEF BoundAgain
    <2>1. Has(x, j)
        BY DEF Has, Binding
    <2>2. j # i \/ x[1] # s
        BY <2>1 DEF Has, NoEnd
    <2>3. j \in Ids
        BY DEF TypeOK
    <2> QED BY <1>2, <2>1, <2>2, <2>3 DEF Binding
<1>4. ASSUME NEW j \in Ids, NEW t \in Stages, Token(j, t), j # i \/ t # s
      PROVE  Token(j, t)'
    <2>1. PICK x \in Slots : x[1] = t /\ (Has(x, j) \/ Lost(x, j))
        BY <1>4 DEF Token
    <2>2. Has(x, j) => Has(x, j)'
        BY DEF Has, Binding
    <2>3. Lost(x, j) => Lost(x, j)'
        BY <1>4, <2>1 DEF Lost, Binding
    <2> QED BY <2>1, <2>2, <2>3 DEF Token
<1> QED
    BY <1>1, <1>3, <1>4

\* The coroutine goes on with the submission, or fails it.
LEMMA SubmittingHand ==
    ASSUME TypeOK, PlacementInv, HandInv, NEW c \in Coroutines,
           NEW i \in Ids, NEW s \in Stages, Picks(c, i, s), turn \in {Nobody, c},
           NEW frames, NEW G, Adds(c, frames, G),
           UNCHANGED <<sent, inbox, submitted, finals, states, registered, done, pending>>,
           Answering, Binding(i, s),
           \A g \in G : g.op \notin Leave /\ (g.op = "evict" => c = "loop"),
           \A g \in G : g.op \in Cleanup => \A j \in Ids \cap g.ids : Known(j),
           \A g \in G : g.op \in Cleanup => \A r \in Requests \cap g.ids : outcome'[r] # "waiting",
           \/ Picks(c, i, s)'
           \/ Sends(c, i, s)' /\ Token(i, s)'
           \/ Cleaned(Owner(i))' /\ outcome'[Owner(i)] # "waiting",
           \A j, t : Sends(c, j, t)' => j = i /\ t = s /\ Token(i, s)'
    PROVE  Steady
<1>1. /\ todo[c] # <<>> /\ Head(todo[c]).op \in {"pick", "wait"}
      /\ NoEnd(i, s) /\ submitted[i] # {}
      /\ \/ c = "handler" /\ s = 0
         \/ c = "loop" /\ s > 0 /\ i \in Requests /\ s \notin submitted[i]
    BY PickIs
<1>2. Head(todo[c]).op \notin Cleanup /\ Head(todo[c]).op # "reply"
    BY <1>1 DEF Cleanup, Leave
<1>3. /\ RouteIsKnown /\ BoundAgain
      /\ \A j \in Ids, t \in Stages : Token(j, t) /\ (j # i \/ t # s) => Token(j, t)'
    BY <1>1, BindingIs
<1>4. /\ frames \in Seq(Frames) /\ Continue(c, frames)
      /\ Elements(frames) = G \cup Elements(Rest(c))
      /\ \A d \in Coroutines \ {c} : todo'[d] = todo[d]
    <2>1. frames \in Seq(Frames) /\ Continue(c, frames)
        BY DEF Adds
    <2> QED BY <1>1, <2>1, Continued DEF Adds
<1>5. /\ \A j : Cleaned(j) => Cleaned(j)'
      /\ \A j \in Ids : Cleaned(j)' => Cleaned(j) \/ Known(j)
    <2>1. \A j : Cleaned(j) => Cleaned(j)'
        BY <1>2, FramesStep DEF Cleaned
    <2>2. ASSUME NEW j \in Ids, Cleaned(j)', ~Cleaned(j)
          PROVE  Known(j)
        <3>1. \E g \in G : g.op \in Cleanup /\ j \in g.ids
            BY <2>2, FramesStep DEF Cleaned
        <3> QED BY <3>1
    <2> QED BY <2>1, <2>2
<1>6. CleanupGoesOn /\ CleanupIsKnown
    BY <1>5 DEF CleanupGoesOn, CleanupIsKnown
<1>7. InboxKept /\ StatesKept
    BY InboxStill, StatesStill
<1>8. \A j : Leaving(j)' => Leaving(j)
    BY LeavingAfter
<1>9. TrackerKept
    BY <1>8, TrackerStill DEF HandInv
<1>10. RepliesStay
    BY <1>2, <1>4, RepliesStep
<1>11. LoopEvicts'
    BY EvictsStep DEF HandInv
<1>12. CleanedAreAnswered'
    <2>1. \A g \in Elements(Rest(c)) : g.op \in Cleanup =>
              \A r \in Requests \cap g.ids : outcome'[r] # "waiting"
        BY <1>1, AnsweredRest DEF HandInv
    <2>2. \A g \in Elements(frames) : g.op \in Cleanup =>
              \A r \in Requests \cap g.ids : outcome'[r] # "waiting"
        BY <1>4, <2>1
    <2> QED BY <1>4, <2>2, AnsweredAll DEF HandInv
<1>13. HoldsOn
    <2> SUFFICES ASSUME NEW j \in states', ~Cleaned(j)', NEW t \in submitted[j], Hold(j, t)
                 PROVE  Hold(j, t)' \/ (j \in Companions /\ outcome'[Parent[j]] # "waiting")
        BY DEF HoldsOn
    <2>1. j \in Ids /\ t \in Stages
        BY DEF TypeOK
    <2>2. CASE j # i \/ t # s
        <3>1. Token(j, t) => Token(j, t)'
            BY <1>3, <2>1, <2>2
        <3>2. t = 0 /\ Picks("handler", j, 0) => c # "handler"
            BY <2>2 DEF Picks, IsPick
        <3>3. t = 0 /\ Picks("handler", j, 0) => Picks("handler", j, 0)'
            BY <1>4, <3>2 DEF Picks, Coroutines
        <3> QED BY <3>1, <3>3 DEF Hold
    <2>3. CASE j = i /\ t = s
        <3>1. c = "handler" /\ s = 0
            BY <1>1, <2>3
        <3>2. Picks(c, i, s)' => Hold(j, t)'
            BY <2>3, <3>1 DEF Hold
        <3>3. Token(i, s)' => Hold(j, t)'
            BY <2>3 DEF Hold
        <3>4. Cleaned(Owner(i))' => i \in Companions /\ Owner(i) = Parent[j]
            BY <2>3 DEF Owner
        <3> QED BY <2>3, <3>2, <3>3, <3>4
    <2> QED BY <2>2, <2>3
<1>14. LoopGoesOn
    <2> SUFFICES ASSUME NEW r \in Requests \cap states', ~Cleaned(r)', NEW t \in Stages
                 PROVE  /\ Picks("loop", r, t) \/ Sends("loop", r, t) =>
                               Picks("loop", r, t)' \/ Sends("loop", r, t)'
                        /\ Sends("loop", r, t)' => Token(r, t)'
        BY DEF LoopGoesOn
    <2>1. "loop" \in Coroutines /\ r \in Ids /\ r \notin Companions
        BY OrchestratorAssumption DEF Coroutines, Ids
    <2>2. CASE c = "loop"
        <3>1. ~Sends("loop", r, t)
            BY <1>1, <2>2 DEF Sends, Send
        <3>2. ASSUME Picks("loop", r, t)
              PROVE  Picks("loop", r, t)' \/ Sends("loop", r, t)'
            <4>1. r = i /\ t = s
                BY <2>2, <3>2 DEF Picks, IsPick
            <4>2. Owner(i) = r
                BY <2>1, <4>1 DEF Owner
            <4> QED BY <2>2, <4>1, <4>2
        <3>3. Sends("loop", r, t)' => Token(r, t)'
            BY <2>2
        <3> QED BY <3>1, <3>2, <3>3
    <2>3. CASE c # "loop"
        <3>1. s = 0 /\ todo'["loop"] = todo["loop"]
            BY <1>1, <1>4, <2>1, <2>3
        <3>2. /\ Picks("loop", r, t)' <=> Picks("loop", r, t)
              /\ Sends("loop", r, t)' <=> Sends("loop", r, t)
            BY <3>1 DEF Picks, Sends
        <3>3. ASSUME Sends("loop", r, t)
              PROVE  Token(r, t)'
            <4>1. ~Cleaned(r) /\ r \in states
                BY <1>5
            <4>2. Token(r, t)
                BY <3>3, <4>1 DEF HandInv, AllTracked, Tracked
            <4>3. todo["loop"] # <<>> /\ Head(todo["loop"]).op = "send" /\ Head(todo["loop"]).stage = t
                BY <3>3 DEF Sends, Send
            <4>4. t > 0
                BY <2>1, <4>3, PlacementIs, SubmissionOf DEF Submission
            <4> QED BY <1>3, <2>1, <3>1, <4>2, <4>4
        <3> QED BY <3>2, <3>3
    <2> QED BY <2>2, <2>3
<1> QED
    BY <1>3, <1>6, <1>7, <1>9, <1>10, <1>11, <1>12, <1>13, <1>14 DEF Steady

\* A coroutine that looks for a replica has one frame more in front.
LEMMA PickAt ==
    ASSUME TypeOK, PlacementInv, NEW c \in Coroutines, At(c, "pick") \/ At(c, "wait")
    PROVE  /\ Head(todo[c]).id \in Ids /\ Head(todo[c]).stage \in Stages
           /\ Picks(c, Head(todo[c]).id, Head(todo[c]).stage) /\ turn \in {Nobody, c}
           /\ todo[c] # <<>> /\ Rest(c) \in Seq(Frames) /\ Quiet(Rest(c))
<1>1. todo[c] # <<>> /\ Head(todo[c]).op \in {"pick", "wait"} /\ turn \in {Nobody, c}
    BY DEF At
<1>2. Head(todo[c]).op \in Submission
    BY <1>1 DEF Submission
<1> QED
    BY <1>1, <1>2, PlacementIs, SubmissionOf DEF Picks, IsPick

LEMMA AddsFirst ==
    ASSUME TypeOK, NEW c \in Coroutines, todo[c] # <<>>, Rest(c) \in Seq(Frames), NEW g \in Frames,
           Continue(c, <<g>> \o Rest(c))
    PROVE  /\ Adds(c, <<g>> \o Rest(c), {g})
           /\ todo'[c] # <<>> /\ Head(todo'[c]) = g
<1>1. /\ <<g>> \o Rest(c) \in Seq(Frames) /\ Elements(<<g>> \o Rest(c)) = {g} \cup Elements(Rest(c))
      /\ Head(<<g>> \o Rest(c)) = g /\ <<g>> \o Rest(c) # <<>>
    BY FramesInFront
<1> QED
    BY <1>1, Continued DEF Adds

\* No replica: it waits, unbound.
LEMMA WaitHand ==
    ASSUME TypeOK, PlacementInv, HandInv, NEW c \in Coroutines,
           NEW i \in Ids, NEW s \in Stages, Picks(c, i, s), turn \in {Nobody, c},
           todo[c] # <<>>, Rest(c) \in Seq(Frames),
           route' = [route EXCEPT ![s][i] = NoReplica], Continue(c, <<Wait(i, s)>> \o Rest(c)),
           UNCHANGED <<sent, inbox, submitted, finals, states, registered, done, pending>>,
           UNCHANGED <<outcome, work, out, live, dead>>
    PROVE  Steady
<1> DEFINE g == Wait(i, s)
<1>1. g \in Frames /\ g.op = "wait" /\ g.id = i /\ g.stage = s
    BY FrameMakers DEF Wait
<1> HIDE DEF g
<1>2. Adds(c, <<g>> \o Rest(c), {g}) /\ todo'[c] # <<>> /\ Head(todo'[c]) = g
    BY <1>1, AddsFirst DEF g
<1>3. "wait" \notin Cleanup /\ "wait" \notin Leave
    BY DEF Cleanup, Leave
<1>4. Answering
    BY OutcomeStill
<1>5. Binding(i, s)
    BY DEF Binding, TypeOK
<1>6. Picks(c, i, s)' /\ \A j, t : ~Sends(c, j, t)'
    BY <1>1, <1>2 DEF Picks, IsPick, Sends, Send
<1> QED
    BY <1>1, <1>2, <1>3, <1>4, <1>5, <1>6, SubmittingHand

\* The submission failed: its request is answered and cleaned up.
LEMMA FailHand ==
    ASSUME TypeOK, PlacementInv, HandInv, NEW c \in Coroutines,
           NEW i \in Ids, NEW s \in Stages, Picks(c, i, s), turn \in {Nobody, c},
           todo[c] # <<>>, NEW following \in Seq(Frames),
           NEW E, \A g \in E : g.op = "evict" /\ c = "loop",
           Elements(following) = E \cup Elements(Rest(c)),
           FailThen(c, i, following), Binding(i, s),
           UNCHANGED <<sent, inbox, submitted, finals, states, registered, done, pending>>
    PROVE  Steady
<1> DEFINE g == Clean({Owner(i)}, TRUE)
           frames == <<g>> \o following
<1>1. /\ outcome' = Told({Owner(i)}, "error") /\ g \in Frames
      /\ frames \in Seq(Frames) /\ Continue(c, frames)
    BY FailThenFrames
<1>2. g.op = "clean" /\ g.ids = {Owner(i)}
    BY DEF Clean
<1>3. Owner(i) \in Requests /\ Owner(i) \in sent /\ Owner(i) \notin Companions
    <2>1. submitted[i] # {}
        BY PickIs
    <2> QED BY <2>1, ParentIs, OrchestratorAssumption DEF Owner, Ids, PlacementInv, KnownWasSent
<1>4. outcome'[Owner(i)] # "waiting" /\ Answering
    BY <1>1, <1>3, ToldAnswers DEF Told
<1> HIDE DEF g
<1>5. /\ Elements(frames) = {g} \cup E \cup Elements(Rest(c))
      /\ Head(frames) = g /\ frames # <<>>
    <2>1. /\ Elements(<<g>> \o following) = {g} \cup Elements(following)
          /\ Head(<<g>> \o following) = g /\ <<g>> \o following # <<>>
        BY <1>1, FramesInFront
    <2> QED BY <2>1
<1> HIDE DEF frames
<1> DEFINE G == {g} \cup E
<1>6. Adds(c, frames, G) /\ todo'[c] # <<>> /\ Head(todo'[c]) = g
    BY <1>1, <1>5, Continued DEF Adds
<1>7. \A h \in G : \/ h.op = "clean" /\ h.ids = {Owner(i)}
                   \/ h.op = "evict" /\ c = "loop"
    BY <1>2
<1>8. g \in G /\ Owner(i) \in g.ids /\ "clean" \in Cleanup /\ "clean" \notin Leave
      /\ "evict" \notin Cleanup /\ "evict" \notin Leave
    BY <1>2 DEF Cleanup, Leave
<1> HIDE DEF G
<1>9. \A h \in G : /\ h.op \notin Leave /\ (h.op = "evict" => c = "loop")
                   /\ h.op \in Cleanup => \A j \in Ids \cap h.ids : Known(j)
                   /\ h.op \in Cleanup => \A r \in Requests \cap h.ids : outcome'[r] # "waiting"
    BY <1>3, <1>4, <1>7, <1>8 DEF Known
<1>10. Cleaned(Owner(i))'
    BY <1>2, <1>6, <1>8, FramesStep DEF Cleaned
<1>11. \A j, t : ~Sends(c, j, t)'
    BY <1>2, <1>6 DEF Sends, Send
<1> QED
    BY <1>4, <1>6, <1>9, <1>10, <1>11, SubmittingHand

\* A replica is taken.
LEMMA DispatchHand ==
    ASSUME TypeOK, PlacementInv, HandInv, NEW c \in Coroutines,
           NEW i \in Ids, NEW s \in Stages, Picks(c, i, s), turn \in {Nobody, c},
           todo[c] # <<>>, Rest(c) \in Seq(Frames),
           NEW k, k \in Serviceable(s), Dispatch(c, i, s, k),
           UNCHANGED <<sent, inbox, submitted, finals, states, registered, done, pending>>,
           UNCHANGED <<out, live, dead>>
    PROVE  Steady
<1>1. <<s, k>> \in Slots /\ <<s, k>> \in live
    BY DEF Serviceable, Live, TypeOK
<1>2. CASE /\ route' = [route EXCEPT ![s][i] = k]
           /\ work' = IF <<s, k>> \in dead THEN work
                      ELSE [work EXCEPT ![<<s, k>>] = @ \cup {i}]
           /\ Continue(c, <<Send(i, s)>> \o Rest(c))
           /\ UNCHANGED outcome
    <2> DEFINE g == Send(i, s)
    <2>1. g \in Frames /\ g.op = "send" /\ g.id = i /\ g.stage = s
        BY FrameMakers DEF Send
    <2>2. /\ \A j \in Ids, t \in Stages : j # i \/ t # s => route'[t][j] = route[t][j]
          /\ route'[s][i] = k
        BY <1>2 DEF TypeOK
    <2>3. \A x \in Slots : /\ work[x] \subseteq work'[x] /\ out'[x] = out[x]
                           /\ \A j \in work'[x] : j \in work[x] \/ (j = i /\ x = <<s, k>>)
        BY <1>2 DEF TypeOK
    <2>4. Binding(i, s)
        BY <2>2, <2>3 DEF Binding
    <2>5. Token(i, s)'
        <3> DEFINE x == <<s, k>>
        <3>1. x \in Slots /\ x[1] = s /\ x[2] = k /\ x \in live'
            BY <1>1
        <3>2. x \in dead' \/ i \in work'[x]
            BY <1>1, <1>2 DEF TypeOK
        <3> HIDE DEF x
        <3>3. Has(x, i)' \/ Lost(x, i)'
            BY <2>2, <3>1, <3>2 DEF Has, Lost
        <3> QED BY <3>1, <3>3 DEF Token
    <2> HIDE DEF g
    <2>6. Adds(c, <<g>> \o Rest(c), {g}) /\ todo'[c] # <<>> /\ Head(todo'[c]) = g
        BY <1>2, <2>1, AddsFirst DEF g
    <2>7. "send" \notin Cleanup /\ "send" \notin Leave
        BY DEF Cleanup, Leave
    <2>8. Answering
        BY <1>2, OutcomeStill
    <2>9. Sends(c, i, s)' /\ \A j, t : Sends(c, j, t)' => j = i /\ t = s
        BY <2>1, <2>6 DEF g, Sends, Send
    <2> QED BY <2>1, <2>4, <2>5, <2>6, <2>7, <2>8, <2>9, SubmittingHand
<1>3. ASSUME NEW b \in {k, NoReplica}, s \in Diffusion \/ b # k,
             route' = [route EXCEPT ![s][i] = b], work' = work,
             FailThen(c, i, (IF b = k THEN <<Evict(s, k)>> ELSE <<>>) \o Rest(c))
      PROVE  Steady
    <2>1. Binding(i, s)
        BY <1>3 DEF Binding, TypeOK
    <2>2. CASE b # k
        <3> DEFINE E == {}
        <3>1. <<>> \o Rest(c) = Rest(c) /\ Elements(Rest(c)) = E \cup Elements(Rest(c))
            BY ConcatEmptySeq
        <3>2. FailThen(c, i, Rest(c)) /\ \A g \in E : g.op = "evict" /\ c = "loop"
            BY <1>3, <2>2, <3>1
        <3> HIDE DEF E
        <3> QED BY <2>1, <3>1, <3>2, FailHand
    <2>3. CASE b = k
        <3> DEFINE e == Evict(s, k)
                   following == <<e>> \o Rest(c)
                   E == {e}
        <3>1. e \in Frames /\ e.op = "evict"
            <4>1. Evict(<<s, k>>[1], <<s, k>>[2]) \in Frames
                BY <1>1, FrameMakers
            <4> QED BY <4>1 DEF Evict
        <3>2. c = "loop"
            <4>1. s # 0
                BY <1>3, <2>3, OrchestratorAssumption
            <4> QED BY <4>1, PickIs
        <3> HIDE DEF e
        <3>3. following \in Seq(Frames) /\ Elements(following) = E \cup Elements(Rest(c))
            BY <3>1, FramesInFront
        <3>5. \A g \in E : g.op = "evict" /\ c = "loop"
            BY <3>1, <3>2
        <3>4. FailThen(c, i, following)
            BY <1>3, <2>3 DEF e
        <3> HIDE DEF following, E
        <3> QED BY <2>1, <3>3, <3>4, <3>5, FailHand
    <2> QED BY <2>2, <2>3
<1>4. CASE /\ <<s, k>> \in dead
           /\ route' = [route EXCEPT ![s][i] = IF s \in Diffusion THEN k ELSE NoReplica]
           /\ FailThen(c, i, (IF (IF s \in Diffusion THEN k ELSE NoReplica) = k
                              THEN <<Evict(s, k)>> ELSE <<>>) \o Rest(c))
           /\ UNCHANGED work
    <2>1. NoReplica # k
        BY <1>1, OrchestratorAssumption
    <2>2. CASE s \in Diffusion
        BY <1>3, <1>4, <2>2
    <2>3. CASE s \notin Diffusion
        BY <1>3, <1>4, <2>1, <2>3
    <2> QED BY <2>2, <2>3
<1> QED
    BY <1>2, <1>4 DEF Dispatch

LEMMA PickHand ==
    ASSUME TypeOK, PlacementInv, HandInv, NEW c \in Coroutines, PickReplica(c) \/ EndWait(c)
    PROVE  Steady
<1> USE DEF client, requests, tracker
<1>1. PICK i \in Ids, s \in Stages :
          /\ i = Head(todo[c]).id /\ s = Head(todo[c]).stage
          /\ Picks(c, i, s) /\ turn \in {Nobody, c}
          /\ todo[c] # <<>> /\ Rest(c) \in Seq(Frames) /\ Quiet(Rest(c))
    <2>1. At(c, "pick") \/ At(c, "wait")
        BY DEF PickReplica, EndWait
    <2> QED BY <2>1, PickAt
<1>2. /\ UNCHANGED <<sent, inbox, submitted, finals, states, registered, done, pending>>
      /\ UNCHANGED <<out, live, dead>>
    BY DEF PickReplica, EndWait
<1>3. CASE \E k \in Serviceable(s) : Dispatch(c, i, s, k)
    BY <1>1, <1>2, <1>3, DispatchHand
<1>4. CASE NoReplicaFor(c, i)
    <2>1. Binding(i, s)
        BY <1>2, <1>4 DEF NoReplicaFor, Binding, TypeOK
    <2> DEFINE E == {}
    <2>2. /\ Elements(Rest(c)) = E \cup Elements(Rest(c)) /\ FailThen(c, i, Rest(c))
          /\ \A g \in E : g.op = "evict" /\ c = "loop"
        BY <1>4 DEF NoReplicaFor
    <2> HIDE DEF E
    <2> QED BY <1>1, <1>2, <2>1, <2>2, FailHand
<1>5. CASE /\ route' = [route EXCEPT ![s][i] = NoReplica]
           /\ Continue(c, <<Wait(i, s)>> \o Rest(c))
           /\ UNCHANGED <<outcome, work>>
    BY <1>1, <1>2, <1>5, WaitHand
<1>6. \A k \in Candidates(i, s) : k \in Serviceable(s)
    BY CandidatesServe
<1> QED
    BY <1>1, <1>3, <1>4, <1>5, <1>6 DEF PickReplica, EndWait

-----------------------------------------------------------------------------
(* Submissions that are noted.                                             *)

LEMMA MoreIsKnown ==
    ASSUME TypeOK, KnownWasRegistered, sent \subseteq sent',
           \A i \in Ids : submitted[i] \subseteq submitted'[i],
           \A i \in Ids : Cleaned(i)' => Cleaned(i) \/ Known(i),
           \A m \in Elements(inbox') : m \in Elements(inbox) \/ Owner(m.id) \in sent',
           \A i \in states' : i \in states \/ submitted'[i] # {},
           \A r \in Requests : \A c \in registered'[r] :
               c \in registered[r] \/ (Parent[c] = r /\ submitted'[c] # {}),
           route' = route
    PROVE  KnownWasRegistered'
<1>1. \A i \in Ids : Known(i) => Known(i)'
    BY DEF Known
<1>2. \A i \in Ids : Cleaned(i)' => Known(i)'
    BY <1>1 DEF KnownWasRegistered
<1>3. \A i \in states' : submitted'[i] # {}
    BY DEF KnownWasRegistered, TypeOK
<1>4. \A r \in Requests : \A c \in registered'[r] : Parent[c] = r /\ submitted'[c] # {}
    <2> SUFFICES ASSUME NEW r \in Requests, NEW c \in registered[r]
                 PROVE  Parent[c] = r /\ submitted'[c] # {}
        OBVIOUS
    <2>1. c \in Ids
        BY DEF TypeOK, Ids
    <2> QED BY <2>1 DEF KnownWasRegistered
<1>5. \A m \in Elements(inbox') : Owner(m.id) \in sent'
    BY DEF KnownWasRegistered
<1>6. \A s \in Stages, i \in Ids : route'[s][i] # NoReplica => submitted'[i] # {}
    BY DEF KnownWasRegistered
<1> QED
    BY <1>2, <1>3, <1>4, <1>5, <1>6 DEF KnownWasRegistered

LEMMA SendIs ==
    ASSUME TypeOK, PlacementInv, NEW c \in Coroutines, todo[c] # <<>>, Head(todo[c]).op = "send"
    PROVE  \E i \in Ids, s \in Stages :
               /\ Head(todo[c]) = Send(i, s) /\ Sends(c, i, s)
               /\ \/ c = "handler" /\ s = 0 /\ 0 \in submitted[i]
                  \/ /\ c = "loop" /\ s > 0 /\ i \in Requests
                     /\ s - 1 \in submitted[i] /\ s \notin submitted[i]
<1> DEFINE f == Head(todo[c])
<1>1. /\ f \in Frames /\ f.id \in Ids /\ f.stage \in Stages
      /\ \/ c = "handler" /\ f.stage = 0 /\ 0 \in submitted[f.id]
         \/ /\ c = "loop" /\ f.stage > 0 /\ f.id \in Requests
            /\ f.stage - 1 \in submitted[f.id] /\ f.stage \notin submitted[f.id]
    BY PlacementIs, SubmissionOf DEF Submission
<1>2. f.op = "send"
    OBVIOUS
<1> HIDE DEF f
<1>3. f \in [op : {"pick", "wait", "send"}, id : Ids, stage : Stages]
    BY <1>1, <1>2 DEF Frames
<1>4. f = Send(f.id, f.stage)
    BY <1>2, <1>3 DEF Send
<1>5. Sends(c, f.id, f.stage)
    BY <1>4 DEF Sends, f
<1> QED
    BY <1>1, <1>4, <1>5 DEF f

\* The client call returned: the stage has the request, or lost it.
LEMMA SentHand ==
    ASSUME TypeOK, PlacementInv, HandInv, NEW c \in Coroutines, Sent(c)
    PROVE  HandInv'
<1> USE DEF client, requests, tracker, pools, engines, environment
<1>1. /\ At(c, "send") /\ Continue(c, Rest(c)) /\ todo[c] # <<>> /\ Head(todo[c]).op = "send"
      /\ UNCHANGED <<sent, inbox, outcome, finals, states, registered, done, pending>>
      /\ UNCHANGED <<work, out, route, live, dead>>
    BY DEF Sent, At
<1>2. PICK i \in Ids, s \in Stages :
          /\ Head(todo[c]) = Send(i, s) /\ Sends(c, i, s)
          /\ \/ c = "handler" /\ s = 0 /\ 0 \in submitted[i]
             \/ /\ c = "loop" /\ s > 0 /\ i \in Requests
                /\ s - 1 \in submitted[i] /\ s \notin submitted[i]
    BY <1>1, SendIs
<1>3. /\ submitted' = [submitted EXCEPT ![i] = @ \cup {s}]
      /\ c # "loop" => submitted' = submitted
    <2>1. Head(todo[c]).id = i /\ Head(todo[c]).stage = s
        BY <1>2 DEF Send
    <2>2. submitted' = [submitted EXCEPT ![i] = @ \cup {s}]
        BY <2>1 DEF Sent
    <2>3. c # "loop" => submitted[i] \cup {s} = submitted[i]
        BY <1>2
    <2> QED BY <2>2, <2>3 DEF TypeOK
<1>4. "send" \notin Cleanup /\ "send" \notin Leave
    BY DEF Cleanup, Leave
<1>5. /\ Adds(c, Rest(c), {}) /\ turn \in {Nobody, c}
      /\ Rest(c) \in Seq(Frames) /\ Quiet(Rest(c))
      /\ \A d \in Coroutines \ {c} : todo'[d] = todo[d]
      /\ todo'[c] = Rest(c)
    <2>1. Rest(c) \in Seq(Frames) /\ Quiet(Rest(c))
        BY <1>1, AtFrame, QuietRest, PlacementIs DEF Tokens
    <2> QED BY <1>1, <2>1, AddsNone, Continued
<1>6. /\ \A j : Cleaned(j) <=> Cleaned(j)'
      /\ \A j : Leaving(j)' => Leaving(j)
    <2>1. \A j : Cleaned(j) => Cleaned(j)'
        BY <1>1, <1>4, <1>5, FramesStep DEF Cleaned
    <2>2. \A j : Cleaned(j)' => Cleaned(j)
        BY <1>5, FramesStep DEF Cleaned
    <2>3. \A j : Leaving(j)' => Leaving(j)
        BY <1>5, FramesStep DEF Leaving
    <2> QED BY <2>1, <2>2, <2>3
<1>7. CleanupGoesOn /\ StatesKept /\ InboxKept /\ Answering
    BY <1>1, <1>6, InboxStill, StatesStill, OutcomeStill DEF CleanupGoesOn
<1>8. TrackerKept /\ BoundAgain /\ RouteIsKnown
    BY <1>1, <1>6, TrackerStill, EnginesStill DEF HandInv
<1>9. RepliesStay
    BY <1>1, <1>5, RepliesStep
<1>10. LoopEvicts'
    BY <1>5, EvictsStep DEF HandInv
<1>11. CleanedAreAnswered'
    <2>1. \A g \in Elements(Rest(c)) : g.op \in Cleanup =>
              \A r \in Requests \cap g.ids : outcome'[r] # "waiting"
        BY <1>1, <1>7, AnsweredRest DEF HandInv
    <2> QED BY <1>1, <1>5, <1>7, <2>1, AnsweredAll DEF HandInv
<1>12. BoundWhereHeld'
    BY <1>7, <1>8, BoundKept DEF HandInv
<1>13. ParentsWait' /\ WaitingIsKnown'
    BY <1>7, <1>8, <1>9, WaitersKept DEF HandInv
<1>14. \A j \in Ids : submitted[j] \subseteq submitted'[j]
    BY <1>3 DEF TypeOK
<1>15. KnownWasRegistered'
    BY <1>1, <1>6, <1>14, MoreIsKnown DEF HandInv, KnownWasRegistered
<1>16. \A j, t : Hold(j, t) => Hold(j, t)'
    <2>1. \A j, t : Token(j, t) => Token(j, t)'
        BY <1>1, EnginesStill
    <2>2. ASSUME NEW j, Picks("handler", j, 0)
          PROVE  Picks("handler", j, 0)'
        <3>1. c # "handler"
            BY <1>1, <2>2 DEF Picks, IsPick
        <3> QED BY <1>5, <2>2, <3>1 DEF Picks, Coroutines
    <2> QED BY <2>1, <2>2 DEF Hold
<1>17. CompanionsTracked'
    BY <1>1, <1>6, <1>16 DEF HandInv, CompanionsTracked
<1>18. AllTracked'
    <2> SUFFICES ASSUME NEW r \in Requests \cap states, ~Cleaned(r)' PROVE Tracked(r)'
        BY <1>1 DEF AllTracked
    <2>1. Tracked(r) /\ r \in Ids /\ "loop" \in Coroutines
        BY <1>6 DEF HandInv, AllTracked, Ids, Coroutines
    <2>2. ~(FinalOutput \subseteq finals'[r])
        BY <1>1, <2>1 DEF Tracked
    <2>3. CASE c = "loop"
        <3>1. \A j, t : ~Picks("loop", j, t)'
            BY <1>5, <2>3 DEF Picks, IsPick, Quiet, Submission, Elements
        <3>2. \A j, t : ~Sends("loop", j, t)'
            BY <1>5, <2>3 DEF Sends, Send, Quiet, Submission, Elements
        <3>3. CASE r = i
            <4>1. Token(r, s) /\ s \notin submitted[r] /\ s \in Int
                BY <1>2, <2>1, <2>3, <3>3, ParentIs DEF Tracked
            <4>2. Hold(r, s)'
                BY <1>16, <4>1 DEF Hold
            <4>3. submitted'[r] = submitted[r] \cup {s}
                BY <1>3, <3>3 DEF TypeOK
            <4>4. s + 1 \notin submitted'[r]
                <5>1. PICK m \in Stages : submitted[r] = 0 .. m
                    BY <1>2, <2>3, <3>3 DEF PlacementInv, SubmittedInOrder
                <5>2. m \in Int /\ 0 <= m /\ s > 0
                    BY <1>2, <2>3, <5>1, ParentIs
                <5> QED BY <4>1, <4>3, <5>1, <5>2
            <4>5. \A t \in (submitted'[r] \cap FinalOutput) \ finals'[r] : Hold(r, t)'
                BY <1>1, <1>16, <2>1, <4>2, <4>3 DEF Tracked
            <4> QED BY <2>2, <3>2, <4>2, <4>3, <4>4, <4>5 DEF Tracked
        <3>4. CASE r # i
            <4>1. submitted'[r] = submitted[r]
                BY <1>3, <2>1, <3>4 DEF TypeOK
            <4>2. \A t : ~Picks("loop", r, t) /\ ~Sends("loop", r, t)
                BY <1>2, <2>3, <3>4 DEF Picks, IsPick, Sends, Send
            <4>3. \A t \in (submitted'[r] \cap FinalOutput) \ finals'[r] : Hold(r, t)'
                BY <1>1, <1>16, <2>1, <4>1 DEF Tracked
            <4>4. LastStage \notin submitted'[r] =>
                      \E m \in submitted'[r] :
                          m + 1 \notin submitted'[r] /\ (pending'[r] = m \/ Hold(r, m)')
                BY <1>1, <1>16, <2>1, <4>1, <4>2 DEF Tracked
            <4> QED BY <2>2, <3>2, <4>3, <4>4 DEF Tracked
        <3> QED BY <3>3, <3>4
    <2>4. CASE c # "loop"
        <3>1. submitted' = submitted /\ todo'["loop"] = todo["loop"]
            BY <1>3, <1>5, <2>1, <2>4
        <3>2. /\ \A j, t : Picks("loop", j, t)' <=> Picks("loop", j, t)
              /\ \A j, t : Sends("loop", j, t)' <=> Sends("loop", j, t)
            BY <3>1 DEF Picks, Sends
        <3>3. \A t : Token(r, t) => Token(r, t)'
            BY <1>1, EnginesStill
        <3>4. \A t \in (submitted'[r] \cap FinalOutput) \ finals'[r] : Hold(r, t)'
            BY <1>1, <1>16, <2>1, <3>1 DEF Tracked
        <3>5. LastStage \notin submitted'[r] =>
                  \E m \in submitted'[r] :
                      /\ m + 1 \notin submitted'[r]
                      /\ \/ pending'[r] = m \/ Hold(r, m)'
                         \/ Picks("loop", r, m + 1)' \/ Sends("loop", r, m + 1)'
            BY <1>1, <1>16, <2>1, <3>1, <3>2 DEF Tracked
        <3>6. \A t \in Stages : Sends("loop", r, t)' => Token(r, t)'
            BY <2>1, <3>2, <3>3 DEF Tracked
        <3> QED BY <2>2, <3>4, <3>5, <3>6 DEF Tracked
    <2> QED BY <2>3, <2>4
<1> QED
    BY <1>10, <1>11, <1>12, <1>13, <1>15, <1>17, <1>18 DEF HandInv

\* A request is registered: it is new, so no replica has it.
LEMMA RegisterHand ==
    ASSUME TypeOK, PlacementInv, HandInv, NEW i \in Ids, inbox # <<>>, inbox' = Tail(inbox),
           Idle("handler"), Head(inbox).id = i, submitted[i] = {}, Register(i),
           UNCHANGED <<sent, outcome, done, pending, work, out, route, live, dead>>,
           \A r \in Requests : registered[r] \subseteq registered'[r],
           \A r \in Requests : \A c \in registered'[r] \ registered[r] :
               c = i /\ c \in Companions /\ Parent[c] = r
    PROVE  HandInv'
<1> DEFINE f == Pick(i, 0)
           frames == <<f>>
<1>1. /\ states' = states \cup {i} /\ submitted' = [submitted EXCEPT ![i] = {0}]
      /\ finals' = finals /\ Continue("handler", frames) /\ "handler" \in Coroutines
      /\ "loop" \in Coroutines
    BY DEF Register, Coroutines
<1>2. f \in Frames /\ f.op = "pick" /\ f.id = i /\ f.stage = 0 /\ 0 \in Stages
    <2>1. 0 \in Stages
        BY ParentIs
    <2> QED BY <2>1, FrameMakers DEF Pick
<1> HIDE DEF f
<1>3. frames \in Seq(Frames) /\ Elements(frames) = {f} /\ frames # <<>> /\ Head(frames) = f
    BY <1>2, FrameAlone
<1> HIDE DEF frames
<1>4. /\ Adds("handler", frames, {f}) /\ turn \in {Nobody, "handler"} /\ todo["handler"] = <<>>
      /\ todo'["handler"] = frames /\ \A d \in Coroutines \ {"handler"} : todo'[d] = todo[d]
    <2>1. /\ Adds("handler", frames, Elements(frames))
          /\ turn \in {Nobody, "handler"} /\ todo["handler"] = <<>>
        BY <1>1, <1>3, AddsIdle
    <2> QED BY <1>1, <1>3, <2>1, Continued
<1>5. "pick" \notin Cleanup /\ "pick" \notin Leave
    BY DEF Cleanup, Leave
<1>6. /\ \A j : Cleaned(j) <=> Cleaned(j)'
      /\ \A j : Leaving(j)' => Leaving(j)
    <2>1. \A j : Cleaned(j) => Cleaned(j)'
        BY <1>1, <1>4, FramesStep DEF Cleaned
    <2>2. \A j : Cleaned(j)' => Cleaned(j)
        BY <1>1, <1>2, <1>4, <1>5, FramesStep DEF Cleaned
    <2>3. \A j : Leaving(j)' => Leaving(j)
        BY <1>1, <1>2, <1>4, <1>5, FramesStep DEF Leaving
    <2> QED BY <2>1, <2>2, <2>3
<1>7. /\ i \notin states /\ finals[i] = {}
      /\ i \in Companions => ~Leaving(i)
    <2>1. Leaving(i) => Cleaned(i)
        BY DEF Leaving, Cleaned, Named, NamedIn, Cleanup
    <2>2. i \in Companions => ~Cleaned(i)
        BY DEF HandInv, KnownWasRegistered, Known
    <2> QED BY <2>1, <2>2 DEF HandInv, KnownWasRegistered, PlacementInv, SubmittedInOrder
<1>8. \A t \in Stages : ~Sends("loop", i, t)
    <2> SUFFICES ASSUME NEW t \in Stages, Sends("loop", i, t) PROVE FALSE
        OBVIOUS
    <2>1. todo["loop"] # <<>> /\ Head(todo["loop"]).op = "send" /\ Head(todo["loop"]).id = i
        BY DEF Sends, Send
    <2> QED BY <1>1, <2>1, PlacementIs, SubmissionOf DEF Submission
<1>9. \A x \in Slots : ~Has(x, i)
    <2> SUFFICES ASSUME NEW x \in Slots, Has(x, i) PROVE FALSE
        OBVIOUS
    <2>1. Holds(x, i)
        BY EndIsHeld DEF Has, Holds
    <2>2. todo["loop"] # <<>> /\ Head(todo["loop"]) = Send(i, x[1])
        BY <2>1 DEF PlacementInv, HeldWasSubmitted
    <2> QED BY <1>8, <2>2, SlotsArePairs DEF Sends
<1>10. BoundWhereHeld'
    <2> SUFFICES ASSUME NEW j \in states', NEW x \in Slots, Has(x, j)', ~Cleaned(j)'
                 PROVE  route'[x[1]][j] = x[2]
        BY DEF BoundWhereHeld
    <2>1. Has(x, j)
        BY DEF Has
    <2> QED BY <1>1, <1>6, <1>9, <2>1 DEF HandInv, BoundWhereHeld
<1>11. /\ \A j, t : Token(j, t) <=> Token(j, t)'
       /\ \A j, t : Hold(j, t) => Hold(j, t)'
    <2>1. \A j, t : Token(j, t) <=> Token(j, t)'
        BY DEF Token, Has, Lost
    <2>2. \A j : ~Picks("handler", j, 0)
        BY <1>4 DEF Picks
    <2> QED BY <2>1, <2>2 DEF Hold
<1>12. Hold(i, 0)'
    BY <1>2, <1>3, <1>4 DEF Hold, Picks, IsPick
<1>13. /\ \A j, t : Picks("loop", j, t)' <=> Picks("loop", j, t)
       /\ \A j, t : Sends("loop", j, t)' <=> Sends("loop", j, t)
    BY <1>1, <1>4 DEF Picks, Sends
<1>14. AllTracked'
    <2> SUFFICES ASSUME NEW r \in Requests \cap states', ~Cleaned(r)' PROVE Tracked(r)'
        BY DEF AllTracked
    <2>1. r \in Ids
        BY DEF Ids
    <2>2. CASE r = i
        <3>1. submitted'[r] = {0} /\ finals'[r] = {}
            BY <1>1, <1>7, <2>2 DEF TypeOK
        <3>2. ~(FinalOutput \subseteq finals'[r])
            BY <3>1, OrchestratorAssumption
        <3>3. \A t \in Stages : ~Sends("loop", r, t)'
            BY <1>8, <1>13, <2>2
        <3>4. 0 + 1 \notin submitted'[r]
            BY <3>1
        <3> QED BY <1>12, <2>2, <3>1, <3>2, <3>3, <3>4 DEF Tracked
    <2>3. CASE r # i
        <3>1. submitted'[r] = submitted[r] /\ r \in states /\ Tracked(r)
            BY <1>1, <1>6, <2>1, <2>3 DEF TypeOK, HandInv, AllTracked
        <3>2. \A t \in (submitted'[r] \cap FinalOutput) \ finals'[r] : Hold(r, t)'
            BY <1>1, <1>11, <3>1 DEF Tracked
        <3>3. LastStage \notin submitted'[r] =>
                  \E m \in submitted'[r] :
                      /\ m + 1 \notin submitted'[r]
                      /\ \/ pending'[r] = m \/ Hold(r, m)'
                         \/ Picks("loop", r, m + 1)' \/ Sends("loop", r, m + 1)'
            BY <1>11, <1>13, <3>1 DEF Tracked
        <3>4. \A t \in Stages : Sends("loop", r, t)' => Token(r, t)'
            BY <1>11, <1>13, <3>1 DEF Tracked
        <3>5. ~(FinalOutput \subseteq finals'[r])
            BY <1>1, <3>1 DEF Tracked
        <3> QED BY <3>2, <3>3, <3>4, <3>5 DEF Tracked
    <2> QED BY <2>2, <2>3
<1>15. Elements(inbox) = {Head(inbox)} \cup Elements(inbox')
    BY ElementsOfTail DEF TypeOK
<1>16. KnownWasRegistered'
    <2>1. \A j \in Ids : submitted[j] \subseteq submitted'[j]
        BY <1>1 DEF TypeOK
    <2>2. submitted'[i] # {}
        BY <1>1 DEF TypeOK
    <2>3. /\ \A j \in states' : j \in states \/ submitted'[j] # {}
          /\ \A r \in Requests : \A c \in registered'[r] :
                 c \in registered[r] \/ (Parent[c] = r /\ submitted'[c] # {})
        BY <1>1, <2>2
    <2> QED BY <1>6, <1>15, <2>1, <2>3, MoreIsKnown DEF HandInv
<1>17. CompanionsTracked'
    <2> SUFFICES ASSUME NEW r \in Requests, NEW c \in registered'[r] \ done
                 PROVE  /\ ~Leaving(c)'
                        /\ outcome[r] = "waiting" => c \in states' /\ (Cleaned(c)' \/ Hold(c, 0)')
        BY DEF CompanionsTracked
    <2>1. CASE c \in registered[r]
        BY <1>1, <1>6, <1>11, <2>1 DEF HandInv, CompanionsTracked
    <2>2. CASE c \notin registered[r]
        BY <1>1, <1>6, <1>7, <1>12, <2>2
    <2> QED BY <2>1, <2>2
<1>18. \A d \in Coroutines, r \in Requests :
           Replies(d, r) => Replies(d, r)' /\ d # "handler" /\ (turn = d => turn' = d)
    <2> SUFFICES ASSUME NEW d \in Coroutines, NEW r \in Requests, Replies(d, r)
                 PROVE  Replies(d, r)' /\ d # "handler" /\ (turn = d => turn' = d)
        OBVIOUS
    <2>1. d # "handler" /\ turn = Nobody /\ Nobody # d
        BY <1>4, OrchestratorAssumption DEF Replies, Idle
    <2> QED BY <1>4, <2>1 DEF Replies
<1>19. ParentsWait'
    <2> SUFFICES ASSUME NEW r \in Requests, pending[r] # -1
                 PROVE  /\ ~AllDone(r)'
                        /\ outcome[r] = "waiting" =>
                               r \in states' \/ \E d \in Coroutines : turn' = d /\ Replies(d, r)'
        BY DEF ParentsWait
    <2>1. ~AllDone(r)'
        BY DEF AllDone, HandInv, ParentsWait
    <2> QED BY <1>1, <1>18, <2>1 DEF HandInv, ParentsWait
<1>20. WaitingIsKnown'
    <2> SUFFICES ASSUME NEW r \in Requests, outcome[r] = "waiting"
                 PROVE  \/ r \in states'
                        \/ \E m \in Elements(inbox') : m.type = "add" /\ m.id = r
                        \/ \E d \in Coroutines : Replies(d, r)'
        BY DEF WaitingIsKnown
    <2>1. \/ r \in states
          \/ \E m \in Elements(inbox) : m.type = "add" /\ m.id = r
          \/ \E d \in Coroutines : Replies(d, r)
        BY DEF HandInv, WaitingIsKnown
    <2> QED BY <1>1, <1>15, <1>18, <2>1
<1>21. LoopEvicts'
    BY <1>1, <1>2, <1>4, EvictsStep DEF HandInv
<1>22. CleanedAreAnswered'
    <2>1. Answering
        BY OutcomeStill
    <2> QED BY <1>1, <1>2, <1>3, <1>5, <2>1, AnsweredAll DEF HandInv
<1> QED
    BY <1>10, <1>14, <1>16, <1>17, <1>19, <1>20, <1>21, <1>22 DEF HandInv

LEMMA HandleAddHand ==
    ASSUME TypeOK, PlacementInv, HandInv, HandleAdd
    PROVE  HandInv'
<1> USE DEF client, requests, tracker, pools, engines, environment
<1> DEFINE r == Head(inbox).id
<1>1. /\ Idle("handler") /\ inbox # <<>> /\ Head(inbox).type = "add" /\ inbox' = Tail(inbox)
      /\ UNCHANGED <<sent, registered, done, pending, work, out, route, live, dead>>
    BY DEF HandleAdd, Receive
<1>2. Head(inbox) \in Messages /\ Head(inbox) \in Elements(inbox)
    BY <1>1, ElementsOfTail DEF TypeOK
<1>3. r \in Requests /\ r \in Ids /\ submitted[r] = {}
    BY <1>1, <1>2 DEF Messages, Ids, PlacementInv, NewUntilHandled
<1>4. CASE outcome' = Told({r}, "error") /\ UNCHANGED <<submitted, states, finals, todo, turn>>
    <2>1. outcome'[r] # "waiting" /\ Answering
        BY <1>3, <1>4, ToldAnswers DEF Told
    <2> QED BY <1>1, <1>4, <2>1, RefusedHand, HandKept
<1>5. CASE Register(r) /\ UNCHANGED outcome
    BY <1>1, <1>3, <1>5, RegisterHand
<1> QED
    BY <1>4, <1>5 DEF HandleAdd

LEMMA HandleCompanionHand ==
    ASSUME TypeOK, PlacementInv, HandInv, HandleCompanion
    PROVE  HandInv'
<1> USE DEF client, requests, tracker, pools, engines, environment
<1> DEFINE c == Head(inbox).id
<1>1. /\ Idle("handler") /\ inbox # <<>> /\ Head(inbox).type = "companion" /\ inbox' = Tail(inbox)
      /\ UNCHANGED <<sent, outcome, done, pending, work, out, route, live, dead>>
    BY DEF HandleCompanion, Receive
<1>2. Head(inbox) \in Messages /\ Head(inbox) \in Elements(inbox)
    BY <1>1, ElementsOfTail DEF TypeOK
<1>3. c \in Companions /\ c \in Ids /\ submitted[c] = {} /\ Parent[c] \in Requests
    BY <1>1, <1>2, ParentIs DEF Messages, Ids, PlacementInv, NewUntilHandled
<1>4. CASE UNCHANGED <<submitted, states, finals, registered, todo, turn>>
    BY <1>1, <1>4, OutcomeStill, RefusedHand, HandKept
<1>5. CASE registered' = [registered EXCEPT ![Parent[c]] = @ \cup {c}] /\ Register(c)
    <2>1. /\ \A r \in Requests : registered[r] \subseteq registered'[r]
          /\ \A r \in Requests : \A d \in registered'[r] \ registered[r] :
                 d = c /\ d \in Companions /\ Parent[d] = r
        BY <1>3, <1>5 DEF TypeOK
    <2> HIDE DEF c
    <2> QED BY <1>1, <1>3, <1>5, <2>1, RegisterHand DEF c
<1> QED
    BY <1>4, <1>5 DEF HandleCompanion

\* A request is sent: nobody knew it.
LEMMA SubmitHand ==
    ASSUME TypeOK, PlacementInv, HandInv, NEW r \in Requests, Submit(r)
    PROVE  HandInv'
<1> DEFINE m == [type |-> "add", id |-> r]
           first == <<m>>
           second == SetToSeq(CompanionMessages(r))
<1>1. /\ r \notin sent /\ sent' = sent \cup {r} /\ outcome' = [outcome EXCEPT ![r] = "waiting"]
      /\ inbox' = inbox \o first \o second
      /\ UNCHANGED <<todo, turn, submitted, states, finals, registered, done, pending>>
      /\ UNCHANGED <<work, out, route, live, dead>>
    BY DEF Submit, requests, tracker, pools, engines, CompanionMessages
<1>2. m \in Messages /\ m.type = "add" /\ m.id = r
    BY DEF Messages
<1> HIDE DEF m
<1>3. first \in Seq(Messages) /\ Elements(first) = {m}
    BY <1>2, ElementsOfOne
<1>4. second \in Seq(Messages) /\ Elements(second) = CompanionMessages(r)
    BY MessagesOfSubmit
<1> HIDE DEF first, second
<1>5. Elements(inbox') = Elements(inbox) \cup {m} \cup CompanionMessages(r)
    <2>1. inbox \in Seq(Messages)
        BY DEF TypeOK
    <2>2. inbox \o first \in Seq(Messages) /\ Elements(inbox \o first) = Elements(inbox) \cup {m}
        BY <1>3, <2>1, MessagesJoined
    <2>3. Elements((inbox \o first) \o second) = Elements(inbox \o first) \cup Elements(second)
        BY <1>4, <2>2, MessagesJoined
    <2> QED BY <1>1, <1>4, <2>2, <2>3
<1>6. r \in Ids /\ r \notin Companions
    BY OrchestratorAssumption DEF Ids
<1>7. submitted[r] = {} /\ ~Cleaned(r) /\ pending[r] = -1 /\ registered[r] = {}
    <2>1. submitted[r] = {}
        BY <1>1, <1>6 DEF PlacementInv, KnownWasSent, Owner
    <2>2. ~Cleaned(r)
        BY <1>1, <1>6 DEF HandInv, KnownWasRegistered, Known
    <2>3. pending[r] = -1
        BY <2>1 DEF PlacementInv, SubmittedInOrder
    <2>4. ASSUME NEW c \in registered[r] PROVE FALSE
        <3>1. c \in Companions /\ c \in Ids /\ Parent[c] = r /\ submitted[c] # {}
            BY <2>4 DEF TypeOK, Ids, HandInv, KnownWasRegistered
        <3> QED BY <1>1, <3>1 DEF PlacementInv, KnownWasSent, Owner
    <2> QED BY <2>1, <2>2, <2>3, <2>4
<1>8. /\ \A j : Cleaned(j)' <=> Cleaned(j)
      /\ \A j : Leaving(j)' <=> Leaving(j)
      /\ LoopEvicts'
    BY <1>1, StillFrames DEF Cleaned, Leaving, HandInv
<1>9. \A q \in Requests : outcome'[q] = "waiting" => q = r \/ outcome[q] = "waiting"
    BY <1>1 DEF TypeOK
<1>10. BoundWhereHeld'
    BY <1>1, <1>8 DEF HandInv, BoundWhereHeld, Has
<1>11. /\ \A j, t : Token(j, t)' <=> Token(j, t)
       /\ \A j, t : Hold(j, t)' <=> Hold(j, t)
       /\ \A d \in Coroutines : \A j, t : Picks(d, j, t)' <=> Picks(d, j, t)
       /\ \A d \in Coroutines : \A j, t : Sends(d, j, t)' <=> Sends(d, j, t)
       /\ \A d \in Coroutines : \A j : Replies(d, j)' <=> Replies(d, j)
    BY <1>1 DEF Token, Has, Lost, Hold, Picks, Sends, Replies
<1>12. \A q : Tracked(q) => Tracked(q)'
    <2>1. "loop" \in Coroutines
        BY DEF Coroutines
    <2> QED BY <1>1, <1>11, <2>1 DEF Tracked
<1>13. AllTracked'
    BY <1>1, <1>8, <1>12 DEF HandInv, AllTracked
<1>14. KnownWasRegistered'
    <2>1. \A n \in CompanionMessages(r) : Owner(n.id) \in sent'
        BY <1>1 DEF CompanionMessages, CompanionsOf, Owner
    <2>2. Owner(m.id) \in sent'
        BY <1>1, <1>2, <1>6 DEF Owner
    <2>3. \A n \in Elements(inbox') : n \in Elements(inbox) \/ Owner(n.id) \in sent'
        BY <1>5, <2>1, <2>2
    <2> QED BY <1>1, <1>8, <2>3, MoreIsKnown DEF HandInv
<1>15. CompanionsTracked'
    BY <1>1, <1>7, <1>8, <1>9, <1>11 DEF HandInv, CompanionsTracked
<1>16. ParentsWait'
    BY <1>1, <1>7, <1>9, <1>11 DEF HandInv, ParentsWait, AllDone
<1>17. WaitingIsKnown'
    BY <1>1, <1>2, <1>5, <1>9, <1>11 DEF HandInv, WaitingIsKnown
<1>18. CleanedAreAnswered'
    <2>1. \A q \in Requests \ {r} : outcome'[q] = outcome[q]
        BY <1>1 DEF TypeOK
    <2>2. ASSUME NEW d \in Coroutines, todo[d] # <<>>
          PROVE  /\ \A f \in Elements(Rest(d)) : f.op \in Cleanup => r \notin f.ids
                 /\ Head(todo[d]).op \in Cleanup => r \notin Head(todo[d]).ids
        <3>1. \A f \in Elements(todo[d]) : f.op \in Cleanup => r \notin f.ids
            BY <1>7 DEF Cleaned, Named, NamedIn
        <3>2. Elements(todo[d]) = {Head(todo[d])} \cup Elements(Rest(d))
            BY <2>2, ElementsOfTail DEF TypeOK, Rest
        <3> QED BY <3>1, <3>2
    <2> QED BY <1>1, <2>1, <2>2 DEF HandInv, CleanedAreAnswered, Rest
<1> QED
    BY <1>8, <1>10, <1>13, <1>14, <1>15, <1>16, <1>17, <1>18 DEF HandInv

LEMMA InitHand == Init => HandInv
<1> SUFFICES ASSUME Init PROVE HandInv
    OBVIOUS
<1>1. /\ states = {} /\ inbox = <<>> /\ \A r \in Requests : outcome[r] = "idle" /\ registered[r] = {}
      /\ \A r \in Requests : pending[r] = -1
      /\ \A c \in Coroutines : todo[c] = <<>>
      /\ \A s \in Stages, i \in Ids : route[s][i] = NoReplica
    BY DEF Init
<1>2. Elements(<<>>) = {}
    BY DEF Elements
<1>3. \A i : ~Cleaned(i)
    BY <1>1, <1>2 DEF Cleaned, Named, NamedIn
<1>4. BoundWhereHeld /\ AllTracked
    BY <1>1 DEF BoundWhereHeld, AllTracked
<1>5. KnownWasRegistered
    BY <1>1, <1>2, <1>3 DEF KnownWasRegistered
<1>6. CompanionsTracked /\ ParentsWait /\ CleanedAreAnswered /\ WaitingIsKnown
    BY <1>1 DEF CompanionsTracked, ParentsWait, CleanedAreAnswered, WaitingIsKnown
<1>7. LoopEvicts
    BY <1>1, <1>2 DEF LoopEvicts
<1> QED
    BY <1>4, <1>5, <1>6, <1>7 DEF HandInv

-----------------------------------------------------------------------------
(* An output is polled.                                                    *)

\* Only the end of i at stage s is taken, if the output says that.
Polled(i, s, kind) ==
    /\ \A x \in Slots, j \in Ids : Has(x, j)' => Has(x, j)
    /\ \A j \in Ids, t \in Stages :
           Hold(j, t) => Hold(j, t)' \/ (j = i /\ t = s /\ kind # "kv_ready")

LEMMA EndsLeft ==
    ASSUME NEW q \in Seq(Outputs), q # <<>>, NEW i, ~IsEnd(Head(q), i), Ends(q, i) # {}
    PROVE  Ends(Tail(q), i) # {}
<1>1. /\ Tail(q) \in Seq(Outputs) /\ Len(q) \in Nat /\ Len(q) > 0 /\ Head(q) = q[1]
      /\ DOMAIN Tail(q) = 1 .. Len(q) - 1 /\ DOMAIN q = 1 .. Len(q)
      /\ \A n \in 1 .. Len(q) - 1 : Tail(q)[n] = q[n + 1]
    OBVIOUS
<1>2. PICK n \in DOMAIN q : IsEnd(q[n], i)
    BY DEF Ends
<1>3. n # 1
    BY <1>1, <1>2
<1>4. n - 1 \in 1 .. Len(q) - 1 /\ (n - 1) + 1 = n
    BY <1>1, <1>2, <1>3
<1>5. n - 1 \in DOMAIN Tail(q) /\ Tail(q)[n - 1] = q[n]
    BY <1>1, <1>4
<1> QED
    BY <1>2, <1>5 DEF Ends

LEMMA PolledIs ==
    ASSUME TypeOK, NEW slot \in Slots, out[slot] # <<>>,
           out' = [out EXCEPT ![slot] = Tail(@)], UNCHANGED <<work, route, live, dead>>,
           todo'["handler"] = todo["handler"],
           NEW i, NEW s, NEW kind,
           i = Head(out[slot]).id, s = slot[1], kind = Head(out[slot]).kind
    PROVE  Polled(i, s, kind)
<1>1. out[slot] \in Seq(Outputs) /\ out'[slot] = Tail(out[slot])
      /\ \A x \in Slots \ {slot} : out'[x] = out[x]
    BY DEF TypeOK
<1>2. ASSUME NEW x \in Slots, NEW j \in Ids, Has(x, j)'
      PROVE  Has(x, j)
    <2>1. CASE x = slot
        <3>1. \A n \in Ends(out'[slot], j) : n + 1 \in Ends(out[slot], j)
            BY <1>1, EndsOfTail
        <3> QED BY <1>2, <2>1, <3>1 DEF Has
    <2>2. CASE x # slot
        BY <1>1, <1>2, <2>2 DEF Has
    <2> QED BY <2>1, <2>2
<1>3. ASSUME NEW j \in Ids, NEW t \in Stages, Hold(j, t), j # i \/ t # s \/ kind = "kv_ready"
      PROVE  Hold(j, t)'
    <2>1. CASE t = 0 /\ Picks("handler", j, 0)
        BY <2>1 DEF Hold, Picks
    <2>2. CASE Token(j, t)
        <3>1. PICK x \in Slots : x[1] = t /\ (Has(x, j) \/ Lost(x, j))
            BY <2>2 DEF Token
        <3>2. Lost(x, j) => Lost(x, j)'
            BY DEF Lost
        <3>3. Ends(out[x], j) # {} => Ends(out'[x], j) # {}
            <4>1. CASE x = slot
                <5>1. ~IsEnd(Head(out[slot]), j)
                    BY <1>3, <3>1, <4>1 DEF IsEnd
                <5> QED BY <1>1, <4>1, <5>1, EndsLeft
            <4>2. CASE x # slot
                BY <1>1, <4>2
            <4> QED BY <4>1, <4>2
        <3>4. Has(x, j) => Has(x, j)'
            BY <3>3 DEF Has
        <3> QED BY <3>1, <3>2, <3>4 DEF Hold, Token
    <2> QED BY <1>3, <2>1, <2>2 DEF Hold
<1> QED
    BY <1>2, <1>3 DEF Polled

\* A request that the polled output is not about, or that nothing happens to.
LEMMA TrackedStill ==
    ASSUME NEW r, Tracked(r), todo["loop"] = <<>>, submitted' = submitted,
           pending'[r] = pending[r], finals'[r] = finals[r],
           \A t \in submitted[r] : Hold(r, t) => Hold(r, t)', \A t : ~Sends("loop", r, t)'
    PROVE  Tracked(r)'
<1>1. \A t : ~Picks("loop", r, t) /\ ~Sends("loop", r, t)
    BY DEF Picks, Sends
<1>2. \A t \in (submitted'[r] \cap FinalOutput) \ finals'[r] : Hold(r, t)'
    BY DEF Tracked
<1>3. LastStage \notin submitted'[r] =>
          \E m \in submitted'[r] : m + 1 \notin submitted'[r] /\ (pending'[r] = m \/ Hold(r, m)')
    BY <1>1 DEF Tracked
<1>4. ~(FinalOutput \subseteq finals'[r])
    BY DEF Tracked
<1> QED
    BY <1>2, <1>3, <1>4 DEF Tracked

\* What routing an output has to keep.
LEMMA PolledHand ==
    ASSUME TypeOK, PlacementInv, HandInv, Idle("loop"), NEW i \in Ids, NEW s, NEW kind,
           Polled(i, s, kind), Answering,
           UNCHANGED <<sent, inbox, submitted, states, registered, route, live, dead>>,
           NEW frames \in Seq(Frames), Continue("loop", frames),
           \A g \in Elements(frames) : g.op \in {"clean", "pick"},
           \A g \in Elements(frames) : g.op = "clean" => \A j \in Ids \cap g.ids : Known(j),
           \A g \in Elements(frames) : g.op = "clean" =>
               \A r \in Requests \cap g.ids : outcome'[r] # "waiting",
           done \subseteq done',
           \A r \in Requests : \A c \in registered[r] \ done' :
               c # i \/ kind = "kv_ready" \/ outcome'[r] # "waiting" \/ c \notin states,
           \A r \in Requests : pending'[r] # -1 =>
               ~AllDone(r)' /\ (pending'[r] = pending[r] \/ r \in states),
           \A r \in Requests \cap states : Tracked(r) /\ ~Cleaned(r)' => Tracked(r)'
    PROVE  HandInv'
<1>1. "loop" \in Coroutines /\ "loop" # Nobody /\ turn = Nobody /\ todo["loop"] = <<>>
    BY OrchestratorAssumption DEF Idle, Coroutines
<1>2. /\ Adds("loop", frames, Elements(frames))
      /\ \A d \in Coroutines \ {"loop"} : todo'[d] = todo[d]
      /\ todo'["loop"] = frames
    BY <1>1, AddsIdle, Continued
<1>3. {"clean", "pick"} \cap Leave = {} /\ {"clean", "pick"} \cap Cleanup = {"clean"}
    BY DEF Cleanup, Leave
<1>4. /\ \A j : Cleaned(j) => Cleaned(j)'
      /\ \A j \in Ids : Cleaned(j)' => Cleaned(j) \/ Known(j)
      /\ \A j : Leaving(j)' => Leaving(j)
    <2>1. \A j : Cleaned(j) => Cleaned(j)'
        BY <1>1, <1>2, FramesStep DEF Cleaned
    <2>2. ASSUME NEW j \in Ids, Cleaned(j)', ~Cleaned(j) PROVE Known(j)
        <3>1. PICK g \in Elements(frames) : g.op \in Cleanup /\ j \in g.ids
            BY <1>1, <1>2, <2>2, FramesStep DEF Cleaned
        <3> QED BY <1>3, <3>1
    <2>3. ASSUME NEW j, Leaving(j)', ~Leaving(j) PROVE FALSE
        <3>1. PICK g \in Elements(frames) : g.op \in Leave
            BY <1>1, <1>2, <2>3, FramesStep DEF Leaving
        <3> QED BY <1>3, <3>1
    <2> QED BY <2>1, <2>2, <2>3
<1>5. BoundWhereHeld'
    <2> SUFFICES ASSUME NEW j \in states', NEW x \in Slots, Has(x, j)', ~Cleaned(j)'
                 PROVE  route'[x[1]][j] = x[2]
        BY DEF BoundWhereHeld
    <2>1. j \in states /\ j \in Ids
        BY DEF TypeOK
    <2> QED BY <1>4, <2>1 DEF HandInv, BoundWhereHeld, Polled
<1>6. AllTracked'
    BY <1>4 DEF HandInv, AllTracked
<1>7. KnownWasRegistered'
    BY <1>4, MoreIsKnown DEF HandInv, KnownWasRegistered
<1>8. \A r \in Requests : outcome'[r] = "waiting" => outcome[r] = "waiting"
    BY AnsweredBefore
<1>9. CompanionsTracked'
    <2> SUFFICES ASSUME NEW r \in Requests, NEW c \in registered[r] \ done'
                 PROVE  /\ ~Leaving(c)'
                        /\ outcome'[r] = "waiting" => c \in states /\ (Cleaned(c)' \/ Hold(c, 0)')
        BY DEF CompanionsTracked
    <2>1. /\ c \in registered[r] \ done /\ c \in Ids /\ 0 \in Stages
        BY ParentIs DEF TypeOK, Ids
    <2>2. ~Leaving(c)'
        BY <1>4, <2>1 DEF HandInv, CompanionsTracked
    <2>3. ASSUME outcome'[r] = "waiting" PROVE c \in states /\ (Cleaned(c)' \/ Hold(c, 0)')
        <3>1. c \in states /\ (Cleaned(c) \/ Hold(c, 0))
            BY <1>8, <2>1, <2>3 DEF HandInv, CompanionsTracked
        <3>2. Hold(c, 0) => Hold(c, 0)'
            BY <2>1, <2>3, <3>1 DEF Polled
        <3> QED BY <1>4, <3>1, <3>2
    <2> QED BY <2>2, <2>3
<1>10. \A d \in Coroutines, r \in Requests : Replies(d, r) => Replies(d, r)' /\ turn # d
    <2> SUFFICES ASSUME NEW d \in Coroutines, NEW r \in Requests, Replies(d, r)
                 PROVE  Replies(d, r)' /\ turn # d
        OBVIOUS
    <2>1. d # "loop" /\ turn # d
        BY <1>1, OrchestratorAssumption DEF Replies
    <2> QED BY <1>2, <2>1 DEF Replies
<1>11. ParentsWait'
    <2> SUFFICES ASSUME NEW r \in Requests, pending'[r] # -1
                 PROVE  ~AllDone(r)' /\ (outcome'[r] = "waiting" => r \in states)
        BY DEF ParentsWait
    <2>1. ASSUME outcome'[r] = "waiting", r \notin states PROVE FALSE
        <3>1. pending[r] # -1 /\ outcome[r] = "waiting"
            BY <1>8, <2>1
        <3>2. PICK d \in Coroutines : turn = d /\ Replies(d, r)
            BY <2>1, <3>1 DEF HandInv, ParentsWait
        <3> QED BY <1>10, <3>2
    <2> QED BY <2>1
<1>12. WaitingIsKnown'
    <2> SUFFICES ASSUME NEW r \in Requests, outcome'[r] = "waiting"
                 PROVE  \/ r \in states
                        \/ \E m \in Elements(inbox) : m.type = "add" /\ m.id = r
                        \/ \E d \in Coroutines : Replies(d, r)'
        BY DEF WaitingIsKnown
    <2> QED BY <1>8, <1>10 DEF HandInv, WaitingIsKnown
<1>13. CleanedAreAnswered'
    <2>1. \A g \in Elements(frames) : g.op \in Cleanup =>
              \A r \in Requests \cap g.ids : outcome'[r] # "waiting"
        BY <1>3
    <2> QED BY <1>1, <2>1, AnsweredAll DEF HandInv
<1>14. LoopEvicts'
    BY <1>1, <1>2, EvictsStep DEF HandInv
<1> QED
    BY <1>5, <1>6, <1>7, <1>9, <1>11, <1>12, <1>13, <1>14 DEF HandInv

\* The loop takes what stage s said about i.
Polling(i, s, kind) ==
    /\ Idle("loop") /\ Polled(i, s, kind) /\ s \in submitted[i]
    /\ kind = "kv_ready" => i \in Requests
    /\ UNCHANGED <<sent, inbox, submitted, states, route, live, dead>>

LEMMA NothingLeft ==
    /\ <<>> \in Seq(Frames) /\ Elements(<<>>) = {}
    /\ TypeOK /\ Continue("loop", <<>>) => \A t, r : ~Sends("loop", r, t)'
<1>1. <<>> \in Seq(Frames) /\ Elements(<<>>) = {}
    BY EmptySeq DEF Elements
<1>2. ASSUME TypeOK, Continue("loop", <<>>), NEW t, NEW r, Sends("loop", r, t)' PROVE FALSE
    <2>1. todo' = [todo EXCEPT !["loop"] = <<>>] /\ "loop" \in DOMAIN todo
        BY <1>2 DEF Continue, TypeOK, Coroutines
    <2> QED BY <1>2, <2>1 DEF Sends
<1> QED BY <1>1, <1>2

\* What is left of the tracking when only the polled request is concerned.
LEMMA TrackedElse ==
    ASSUME TypeOK, NEW i, NEW s, NEW kind, Polling(i, s, kind), NEW r \in Requests, Tracked(r),
           r # i \/ kind = "kv_ready", pending'[r] = pending[r], finals'[r] = finals[r],
           \A t : ~Sends("loop", r, t)'
    PROVE  Tracked(r)'
<1>1. r \in Ids /\ \A t \in submitted[r] : t \in Stages
    BY DEF Ids, TypeOK
<1>2. \A t \in submitted[r] : Hold(r, t) => Hold(r, t)'
    BY <1>1 DEF Polling, Polled
<1> QED
    BY <1>2, TrackedStill DEF Polling, Idle

LEMMA IgnoreHand ==
    ASSUME TypeOK, PlacementInv, HandInv, NEW i \in Ids, NEW s \in Stages, NEW kind,
           Polling(i, s, kind), Ignore, i \notin states \/ kind = "kv_ready"
    PROVE  HandInv'
<1> DEFINE frames == <<>>
<1>1. /\ UNCHANGED <<outcome, registered, done, pending, finals>> /\ Continue("loop", frames)
      /\ frames \in Seq(Frames) /\ Elements(frames) = {} /\ \A t, r : ~Sends("loop", r, t)'
    BY NothingLeft DEF Ignore, tracker
<1> HIDE DEF frames
<1>2. \A r \in Requests \cap states : Tracked(r) => Tracked(r)'
    BY <1>1, TrackedElse
<1>3. \A r \in Requests : pending'[r] # -1 => ~AllDone(r)' /\ pending'[r] = pending[r]
    BY <1>1 DEF HandInv, ParentsWait, AllDone
<1> QED
    BY <1>1, <1>2, <1>3, OutcomeStill, PolledHand DEF Polling

\* One frame that cleans up x, which was answered if it is a request.
LEMMA CleaningAlone ==
    ASSUME TypeOK, Idle("loop"), NEW x \in Ids, NEW a \in BOOLEAN, Continue("loop", <<Clean({x}, a)>>)
    PROVE  /\ <<Clean({x}, a)>> \in Seq(Frames)
           /\ \A g \in Elements(<<Clean({x}, a)>>) : g.op = "clean" /\ g.ids = {x}
           /\ Cleaned(x)' /\ \A t, r : ~Sends("loop", r, t)'
<1> DEFINE f == Clean({x}, a)
           frames == <<f>>
<1>1. f \in Frames /\ f.op = "clean" /\ f.ids = {x} /\ "loop" \in Coroutines
    BY FrameMakers DEF Clean, Coroutines
<1>2. frames \in Seq(Frames) /\ Elements(frames) = {f} /\ Head(frames) = f
    BY <1>1, FrameAlone
<1> HIDE DEF f
<1>3. Continue("loop", frames)
    BY DEF f
<1> HIDE DEF frames
<1>4. Adds("loop", frames, Elements(frames)) /\ todo'["loop"] = frames
    BY <1>1, <1>2, <1>3, AddsIdle, Continued
<1>5. "clean" \in Cleanup
    BY DEF Cleanup
<1>6. Cleaned(x)'
    BY <1>1, <1>2, <1>4, <1>5, FramesStep DEF Cleaned
<1>7. \A t, r : ~Sends("loop", r, t)'
    BY <1>1, <1>2, <1>4 DEF Sends, Send
<1> QED
    BY <1>1, <1>2, <1>6, <1>7 DEF f, frames

LEMMA RouteErrorHand ==
    ASSUME TypeOK, PlacementInv, HandInv, NEW i \in Ids, NEW s \in Stages, NEW kind,
           Polling(i, s, kind), RouteError(i)
    PROVE  HandInv'
<1> DEFINE x == IF IsCompanion(i) THEN Parent[i] ELSE i
<1>1. PICK y \in Ids : y = x
    BY ParentIs DEF IsCompanion, Ids
<1>2. /\ outcome' = Told({y}, "error") /\ Continue("loop", <<Clean({y}, TRUE)>>)
      /\ UNCHANGED <<registered, done, pending, finals>>
    BY <1>1 DEF RouteError, tracker
<1> DEFINE frames == <<Clean({y}, TRUE)>>
<1>3. /\ frames \in Seq(Frames) /\ Cleaned(y)' /\ \A t, r : ~Sends("loop", r, t)'
      /\ \A g \in Elements(frames) : g.op = "clean" /\ g.ids = {y}
    BY <1>2, CleaningAlone DEF Polling
<1>4. Continue("loop", frames)
    BY <1>2
<1> HIDE DEF frames
<1>5. Known(y)
    <2>1. submitted[i] # {} /\ Owner(i) \in sent /\ Known(i)
        BY SubmittedIsKnown DEF Polling, PlacementInv, KnownWasSent
    <2>2. CASE IsCompanion(i)
        BY <1>1, <2>1, <2>2, ParentIs, OrchestratorAssumption DEF IsCompanion, Owner, Known
    <2> QED BY <1>1, <2>1, <2>2
<1>6. Answering /\ \A r \in Requests : r = y => outcome'[r] # "waiting"
    BY <1>2, ToldAnswers DEF Told
<1>7. ASSUME NEW r \in Requests \cap states, Tracked(r), ~Cleaned(r)'
      PROVE  Tracked(r)'
    <2>1. r # i
        BY <1>1, <1>3, <1>7, OrchestratorAssumption DEF IsCompanion
    <2> QED BY <1>2, <1>3, <1>7, <2>1, TrackedElse
<1>8. ASSUME NEW r \in Requests, NEW c \in registered[r], c = i
      PROVE  outcome'[r] # "waiting"
    <2>1. c \in Companions /\ Parent[c] = r
        BY DEF TypeOK, HandInv, KnownWasRegistered
    <2>2. y = r
        BY <1>1, <1>8, <2>1 DEF IsCompanion
    <2> QED BY <1>6, <2>2
<1>9. \A r \in Requests : pending'[r] # -1 => ~AllDone(r)' /\ pending'[r] = pending[r]
    BY <1>2 DEF HandInv, ParentsWait, AllDone
<1>10. /\ \A g \in Elements(frames) : g.op \in {"clean", "pick"}
       /\ \A g \in Elements(frames) : g.op = "clean" => \A j \in Ids \cap g.ids : Known(j)
       /\ \A g \in Elements(frames) : g.op = "clean" =>
              \A r \in Requests \cap g.ids : outcome'[r] # "waiting"
    BY <1>3, <1>5, <1>6
<1> QED
    BY <1>2, <1>3, <1>4, <1>6, <1>7, <1>8, <1>9, <1>10, PolledHand DEF Polling

\* A request that is forwarded: the loop looks for a replica of the next stage,
\* or answers it and cleans it up.
LEMMA ForwardIs ==
    ASSUME TypeOK, Idle("loop"), NEW r \in Requests, NEW s \in Stages \ {LastStage},
           NEW following \in Seq(Frames), Forward(r, s, following)
    PROVE  \E frames \in Seq(Frames), g \in Frames :
               /\ Continue("loop", frames) /\ Answering
               /\ todo'["loop"] = frames /\ frames # <<>> /\ Head(frames) = g
               /\ Adds("loop", frames, Elements(frames))
               /\ Elements(frames) = {g} \cup Elements(following)
               /\ \/ g = Pick(r, s + 1)
                  \/ g.op = "clean" /\ g.ids = {r} /\ outcome'[r] # "waiting"
<1>1. "loop" \in Coroutines /\ r \in Ids /\ s + 1 \in Stages
    BY ParentIs DEF Coroutines, Ids
<1>2. \E g \in Frames :
          /\ Continue("loop", <<g>> \o following) /\ Answering
          /\ \/ g = Pick(r, s + 1)
             \/ g.op = "clean" /\ g.ids = {r} /\ outcome'[r] # "waiting"
    <2>1. CASE FailThen("loop", r, following)
        <3>1. Owner(r) = r
            BY OrchestratorAssumption DEF Owner
        <3>2. /\ outcome' = Told({r}, "error") /\ Clean({r}, TRUE) \in Frames
              /\ Continue("loop", <<Clean({r}, TRUE)>> \o following)
            BY <1>1, <2>1, <3>1, FailThenFrames
        <3>3. Answering /\ outcome'[r] # "waiting"
            BY <3>2, ToldAnswers DEF Told
        <3>4. Clean({r}, TRUE).op = "clean" /\ Clean({r}, TRUE).ids = {r}
            BY DEF Clean
        <3> QED BY <3>2, <3>3, <3>4
    <2>2. CASE Continue("loop", <<Pick(r, s + 1)>> \o following) /\ UNCHANGED outcome
        <3>1. Pick(r, s + 1) \in Frames
            BY <1>1, FrameMakers
        <3> QED BY <2>2, <3>1, OutcomeStill
    <2>3. CASE /\ outcome' = Told({r}, IF s + 1 \in Diffusion THEN "error" ELSE "empty")
               /\ Continue("loop", <<Clean({r}, FALSE)>> \o following)
        <3>1. Answering /\ outcome'[r] # "waiting"
            BY <2>3, ToldAnswers DEF Told
        <3>2. Clean({r}, FALSE) \in Frames
            BY <1>1, FrameMakers
        <3>3. Clean({r}, FALSE).op = "clean" /\ Clean({r}, FALSE).ids = {r}
            BY DEF Clean
        <3> QED BY <2>3, <3>1, <3>2, <3>3
    <2> QED BY <2>1, <2>2, <2>3 DEF Forward
<1>3. PICK g \in Frames :
          /\ Continue("loop", <<g>> \o following) /\ Answering
          /\ \/ g = Pick(r, s + 1)
             \/ g.op = "clean" /\ g.ids = {r} /\ outcome'[r] # "waiting"
    BY <1>2
<1> DEFINE frames == <<g>> \o following
<1>4. /\ frames \in Seq(Frames) /\ Elements(frames) = {g} \cup Elements(following)
      /\ Head(frames) = g /\ frames # <<>>
    <2>1. /\ <<g>> \o following \in Seq(Frames) /\ Head(<<g>> \o following) = g
          /\ Elements(<<g>> \o following) = {g} \cup Elements(following) /\ <<g>> \o following # <<>>
        BY FramesInFront
    <2> QED BY <2>1
<1>5. Continue("loop", frames)
    BY <1>3
<1> HIDE DEF frames
<1>6. Adds("loop", frames, Elements(frames)) /\ todo'["loop"] = frames
    BY <1>1, <1>4, <1>5, AddsIdle, Continued
<1> QED
    BY <1>3, <1>4, <1>5, <1>6

\* The last stage is done with the request, which waits or is handed on.
LEMMA TrackedOn ==
    ASSUME TypeOK, PlacementInv, NEW r \in Requests, NEW m \in Stages \ {LastStage},
           m \in submitted[r], m + 1 \notin submitted[r], submitted' = submitted,
           pending'[r] = m \/ Picks("loop", r, m + 1)', \A t : ~Sends("loop", r, t)',
           finals'[r] \subseteq submitted[r],
           \A t \in (submitted[r] \cap FinalOutput) \ finals'[r] : Hold(r, t)'
    PROVE  Tracked(r)'
<1>1. LastStage \notin submitted[r]
    <2>1. r \in Ids
        BY DEF Ids
    <2>2. PICK n \in Stages : submitted[r] = 0 .. n
        BY <2>1 DEF PlacementInv, SubmittedInOrder
    <2>3. m \in Int /\ n \in Int /\ LastStage \in Int /\ 0 <= m /\ m < LastStage
        BY ParentIs, OrchestratorAssumption DEF Stages
    <2> QED BY <2>2, <2>3
<1>2. ~(FinalOutput \subseteq finals'[r])
    BY <1>1, OrchestratorAssumption
<1> QED
    BY <1>2 DEF Tracked

\* What HandOn leaves.
LEMMA HandedOnHand ==
    ASSUME TypeOK, PlacementInv, HandInv, NEW i \in Requests, NEW s \in Stages \ {LastStage},
           NEW kind, Polling(i, s, kind), i \in states, s + 1 \notin submitted[i],
           HandOn(i, s, <<>>), UNCHANGED <<registered, done>>,
           \A r \in Requests : r # i => finals'[r] = finals[r],
           finals'[i] \subseteq submitted[i],
           \A t \in (submitted[i] \cap FinalOutput) \ finals'[i] :
               t \notin finals[i] /\ (t # s \/ kind = "kv_ready")
    PROVE  HandInv'
<1>1. i \in Ids /\ s \in submitted[i] /\ "loop" \in Coroutines /\ todo["loop"] = <<>>
      /\ i \notin Companions
    BY OrchestratorAssumption DEF Ids, Polling, Coroutines, Idle
<1>2. ASSUME NEW r \in Requests \cap states, Tracked(r), r # i, pending'[r] = pending[r],
             \A t : ~Sends("loop", r, t)'
      PROVE  Tracked(r)'
    BY <1>2, TrackedElse
<1>3. ASSUME Tracked(i)
      PROVE  \A t \in (submitted[i] \cap FinalOutput) \ finals'[i] : Hold(i, t)'
    <2> SUFFICES ASSUME NEW t \in (submitted[i] \cap FinalOutput) \ finals'[i]
                 PROVE  Hold(i, t)'
        OBVIOUS
    <2>1. t \in Stages /\ Hold(i, t) /\ (t # s \/ kind = "kv_ready")
        BY <1>1, <1>3 DEF Tracked, TypeOK
    <2> QED BY <1>1, <2>1 DEF Polling, Polled
<1>4. \A r \in Requests : \A c \in registered[r] \ done' : c # i
    BY <1>1 DEF TypeOK
<1>5. CASE ~AllDone(i) /\ pending' = [pending EXCEPT ![i] = s]
           /\ Continue("loop", <<>>) /\ UNCHANGED outcome
    <2> DEFINE frames == <<>>
    <2>1. /\ Continue("loop", frames) /\ frames \in Seq(Frames) /\ Elements(frames) = {}
          /\ \A t, r : ~Sends("loop", r, t)'
        BY <1>5, NothingLeft
    <2> HIDE DEF frames
    <2>2. pending'[i] = s /\ \A r \in Requests : r # i => pending'[r] = pending[r]
        BY <1>5 DEF TypeOK
    <2>3. ASSUME NEW r \in Requests \cap states, Tracked(r), ~Cleaned(r)'
          PROVE  Tracked(r)'
        <3>1. CASE r = i
            BY <1>1, <1>3, <2>1, <2>2, <2>3, <3>1, TrackedOn DEF Polling
        <3>2. CASE r # i
            BY <1>2, <2>1, <2>2, <2>3, <3>2
        <3> QED BY <3>1, <3>2
    <2>4. \A r \in Requests : pending'[r] # -1 =>
              ~AllDone(r)' /\ (pending'[r] = pending[r] \/ r \in states)
        <3>1. \A r \in Requests : AllDone(r)' <=> AllDone(r)
            BY DEF AllDone
        <3> QED BY <1>5, <2>2, <3>1 DEF HandInv, ParentsWait
    <2> QED BY <1>1, <1>4, <1>5, <2>1, <2>3, <2>4, OutcomeStill, PolledHand DEF Polling
<1>6. CASE Forward(i, s, <<>>) /\ UNCHANGED pending
    <2> DEFINE following == <<>>
    <2>1. following \in Seq(Frames) /\ Elements(following) = {}
        BY NothingLeft
    <2>a. Forward(i, s, following)
        BY <1>6
    <2> HIDE DEF following
    <2>2. PICK frames \in Seq(Frames), g \in Frames :
              /\ Continue("loop", frames) /\ Answering
              /\ todo'["loop"] = frames /\ frames # <<>> /\ Head(frames) = g
              /\ Adds("loop", frames, Elements(frames))
              /\ Elements(frames) = {g}
              /\ \/ g = Pick(i, s + 1)
                 \/ g.op = "clean" /\ g.ids = {i} /\ outcome'[i] # "waiting"
        BY <2>1, <2>a, ForwardIs DEF Polling
    <2>3. Pick(i, s + 1).op = "pick" /\ Pick(i, s + 1).id = i /\ Pick(i, s + 1).stage = s + 1
        BY DEF Pick
    <2>4. \A t, r : ~Sends("loop", r, t)'
        BY <2>2, <2>3 DEF Sends, Send
    <2>5. g.op = "clean" => Cleaned(i)'
        <3>1. "clean" \in Cleanup
            BY DEF Cleanup
        <3> QED BY <1>1, <2>2, <2>3, <3>1, FramesStep DEF Cleaned
    <2>6. g.op # "clean" => Picks("loop", i, s + 1)'
        BY <2>2, <2>3 DEF Picks, IsPick
    <2>7. Known(i)
        BY <1>1, SubmittedIsKnown DEF PlacementInv
    <2>8. /\ \A h \in Elements(frames) : h.op \in {"clean", "pick"}
          /\ \A h \in Elements(frames) : h.op = "clean" => \A j \in Ids \cap h.ids : Known(j)
          /\ \A h \in Elements(frames) : h.op = "clean" =>
                 \A r \in Requests \cap h.ids : outcome'[r] # "waiting"
        BY <2>2, <2>3, <2>7
    <2>9. ASSUME NEW r \in Requests \cap states, Tracked(r), ~Cleaned(r)'
          PROVE  Tracked(r)'
        <3>1. CASE r = i
            <4>1. Picks("loop", r, s + 1)'
                BY <2>5, <2>6, <2>9, <3>1
            <4> QED BY <1>1, <1>3, <2>4, <2>9, <3>1, <4>1, TrackedOn DEF Polling
        <3>2. CASE r # i
            BY <1>2, <1>6, <2>4, <2>9, <3>2
        <3> QED BY <3>1, <3>2
    <2>10. \A r \in Requests : pending'[r] # -1 => ~AllDone(r)' /\ pending'[r] = pending[r]
        BY <1>6 DEF HandInv, ParentsWait, AllDone
    <2> QED BY <1>1, <1>4, <2>2, <2>8, <2>9, <2>10, PolledHand DEF Polling
<1> QED
    BY <1>5, <1>6 DEF HandOn

LEMMA RouteKVReadyHand ==
    ASSUME TypeOK, PlacementInv, HandInv, NEW i \in Requests, NEW s \in Stages,
           Polling(i, s, "kv_ready"), i \in states, RouteKVReady(i, s)
    PROVE  HandInv'
<1>1. i \in Ids
    BY DEF Ids
<1>2. CASE Ignore
    BY <1>1, <1>2, IgnoreHand
<1>3. CASE /\ s < LastStage /\ ~NextSubmitted(i, s)
           /\ HandOn(i, s, <<>>) /\ UNCHANGED <<registered, done, finals>>
    <2>1. s \in Stages \ {LastStage}
        BY <1>3, ParentIs
    <2>2. finals[i] \subseteq submitted[i]
        BY <1>1 DEF PlacementInv, SubmittedInOrder
    <2> QED BY <1>3, <2>1, <2>2, HandedOnHand DEF NextSubmitted
<1> QED
    BY <1>2, <1>3 DEF RouteKVReady

LEMMA RouteFinishedHand ==
    ASSUME TypeOK, PlacementInv, HandInv, NEW i \in Ids, NEW s \in Stages, NEW kind,
           Polling(i, s, kind), i \in states, ~IsCompanion(i), RouteFinished(i, s)
    PROVE  HandInv'
<1> DEFINE complete == s \in FinalOutput /\ FinalStages(i) \subseteq finals[i] \cup {s}
<1>1. /\ UNCHANGED <<registered, done>>
      /\ \A j \in Ids : j # i => finals'[j] = finals[j]
      /\ finals'[i] = IF s \in FinalOutput THEN finals[i] \cup {s} ELSE finals[i]
      /\ finals'[i] \subseteq submitted[i] /\ s \in submitted[i]
    <2>1. finals[i] \subseteq submitted[i] /\ s \in submitted[i]
        BY DEF PlacementInv, SubmittedInOrder, Polling
    <2> QED BY <2>1 DEF RouteFinished, TypeOK
<1>2. CASE s < Final(i) /\ ~NextSubmitted(i, s) /\ HandOn(i, s, <<>>)
    <2>1. i \in Requests /\ s \in Stages \ {LastStage}
        BY <1>2, ParentIs DEF Final, Ids
    <2>2. \A t \in (submitted[i] \cap FinalOutput) \ finals'[i] : t \notin finals[i] /\ t # s
        BY <1>1
    <2>3. \A r \in Requests : r # i => finals'[r] = finals[r]
        BY <1>1 DEF Ids
    <2> QED BY <1>1, <1>2, <2>1, <2>2, <2>3, HandedOnHand DEF NextSubmitted
<1>3. CASE /\ s >= Final(i) \/ NextSubmitted(i, s)
           /\ outcome' = IF complete THEN Told({i}, "ok") ELSE outcome
           /\ Continue("loop", IF complete THEN <<Clean({i}, FALSE)>> ELSE <<>>)
           /\ UNCHANGED pending
    <2>1. complete /\ i \in Requests => LastStage \in submitted[i]
        BY OrchestratorAssumption DEF FinalStages, PlacementInv, SubmittedInOrder, Polling
    <2>2. i \in Requests /\ ~complete => ~(FinalOutput \subseteq finals[i] \cup {s}) \/ s \notin FinalOutput
        BY OrchestratorAssumption DEF FinalStages
    <2>3. \A r \in Requests : \A c \in registered[r] \ done' : c # i
        BY DEF IsCompanion, HandInv, KnownWasRegistered, TypeOK
    <2>4. \A r \in Requests : pending'[r] # -1 => ~AllDone(r)' /\ pending'[r] = pending[r]
        BY <1>1, <1>3 DEF HandInv, ParentsWait, AllDone
    <2>5. Known(i) /\ "loop" \in Coroutines
        BY <1>1, SubmittedIsKnown DEF PlacementInv, Coroutines
    <2>6. ASSUME NEW r \in Requests \cap states, Tracked(r), r # i, \A t : ~Sends("loop", r, t)'
          PROVE  Tracked(r)'
        <3>1. finals'[r] = finals[r] /\ pending'[r] = pending[r]
            BY <1>1, <1>3, <2>6 DEF Ids
        <3> QED BY <2>6, <3>1, TrackedElse
    <2>7. CASE complete
        <3>1. outcome' = Told({i}, "ok") /\ Continue("loop", <<Clean({i}, FALSE)>>)
            BY <1>3, <2>7
        <3> HIDE DEF complete
        <3>2. Answering /\ (i \in Requests => outcome'[i] # "waiting")
            BY <2>1, <2>7, <3>1 DEF Answering, Told
        <3> DEFINE frames == <<Clean({i}, FALSE)>>
        <3>3. /\ frames \in Seq(Frames) /\ Cleaned(i)' /\ \A t, r : ~Sends("loop", r, t)'
              /\ \A g \in Elements(frames) : g.op = "clean" /\ g.ids = {i}
            BY <3>1, CleaningAlone DEF Polling
        <3>4. Continue("loop", frames)
            BY <3>1
        <3> HIDE DEF frames
        <3>5. \A r \in Requests \cap states : Tracked(r) /\ ~Cleaned(r)' => Tracked(r)'
            BY <2>6, <3>3
        <3>6. /\ \A g \in Elements(frames) : g.op \in {"clean", "pick"}
              /\ \A g \in Elements(frames) : g.op = "clean" => \A j \in Ids \cap g.ids : Known(j)
              /\ \A g \in Elements(frames) : g.op = "clean" =>
                     \A r \in Requests \cap g.ids : outcome'[r] # "waiting"
            BY <2>5, <3>2, <3>3
        <3> QED BY <1>1, <2>3, <2>4, <3>2, <3>3, <3>4, <3>5, <3>6, PolledHand DEF Polling
    <2>8. CASE ~complete
        <3>1. outcome' = outcome /\ Continue("loop", <<>>)
            BY <1>3, <2>8
        <3> HIDE DEF complete
        <3> DEFINE frames == <<>>
        <3>2. /\ Continue("loop", frames) /\ frames \in Seq(Frames) /\ Elements(frames) = {}
              /\ \A t, r : ~Sends("loop", r, t)'
            BY <3>1, NothingLeft
        <3> HIDE DEF frames
        <3>3. ASSUME NEW r \in Requests \cap states, Tracked(r), r = i
              PROVE  Tracked(r)'
            <4>1. /\ r \in Ids /\ s \in Int /\ LastStage \in Int /\ s <= LastStage
                  /\ Final(i) = LastStage
                BY <3>3, ParentIs, OrchestratorAssumption DEF Ids, Final, Stages
            <4>2. \A t \in submitted[r] : t \in Stages /\ (t # s /\ Hold(r, t) => Hold(r, t)')
                BY <3>3, <4>1 DEF Polling, Polled, TypeOK
            <4>3. \A t \in (submitted'[r] \cap FinalOutput) \ finals'[r] : Hold(r, t)'
                BY <1>1, <3>3, <4>2 DEF Tracked, Polling
            <4>4. ~(FinalOutput \subseteq finals'[r])
                BY <1>1, <2>2, <2>8, <3>3 DEF Tracked
            <4>5. ASSUME LastStage \notin submitted'[r]
                  PROVE  \E m \in submitted'[r] :
                             m + 1 \notin submitted'[r] /\ (pending'[r] = m \/ Hold(r, m)')
                <5>1. submitted' = submitted /\ todo["loop"] = <<>> /\ pending' = pending
                    BY <1>3 DEF Polling, Idle
                <5>2. s + 1 \in submitted[r]
                    BY <1>1, <1>3, <3>3, <4>1, <4>5, <5>1 DEF NextSubmitted
                <5>3. PICK m \in submitted[r] :
                          /\ m + 1 \notin submitted[r]
                          /\ \/ pending[r] = m \/ Hold(r, m)
                             \/ Picks("loop", r, m + 1) \/ Sends("loop", r, m + 1)
                    BY <3>3, <4>5, <5>1 DEF Tracked
                <5>4. m # s /\ (pending[r] = m \/ Hold(r, m))
                    BY <5>1, <5>2, <5>3 DEF Picks, Sends
                <5> QED BY <4>2, <5>1, <5>3, <5>4
            <4> QED BY <3>2, <4>3, <4>4, <4>5 DEF Tracked
        <3>4. \A r \in Requests \cap states : Tracked(r) => Tracked(r)'
            BY <2>6, <3>2, <3>3
        <3> QED BY <1>1, <2>3, <2>4, <3>1, <3>2, <3>4, OutcomeStill, PolledHand DEF Polling
    <2> QED BY <2>7, <2>8
<1> QED
    BY <1>2, <1>3 DEF RouteFinished

\* The output of a companion is there: its parent may have waited for that.
LEMMA RouteCompanionHand ==
    ASSUME TypeOK, PlacementInv, HandInv, NEW c \in Ids, NEW s \in Stages, NEW kind,
           Polling(c, s, kind), IsCompanion(c), RouteCompanion(c)
    PROVE  HandInv'
<1> DEFINE p == Parent[c]
<1>1. /\ c \in Companions /\ c \notin Requests /\ p \in Requests /\ p \in Ids /\ c \in registered[p]
      /\ "loop" \in Coroutines /\ Known(c) /\ todo["loop"] = <<>>
    <2>1. submitted[c] # {}
        BY DEF Polling
    <2> QED BY <2>1, SubmittedIsKnown, ParentIs, OrchestratorAssumption
            DEF IsCompanion, Ids, PlacementInv, Polling, Idle, Coroutines
<1>2. done' = done \cup {c} /\ UNCHANGED <<registered, finals>>
    BY DEF RouteCompanion
<1>3. Known(p)
    BY <1>1, OrchestratorAssumption DEF Known, Polling, PlacementInv, KnownWasSent, Owner
<1>4. \A r \in Requests : \A d \in registered[r] \ done' : d # c
    BY <1>2
<1>5. \A r \in Requests : r # p /\ ~AllDone(r) => ~AllDone(r)'
    <2> SUFFICES ASSUME NEW r \in Requests, r # p, ~AllDone(r) PROVE ~AllDone(r)'
        OBVIOUS
    <2>1. c \notin registered[r]
        BY DEF HandInv, KnownWasRegistered
    <2> QED BY <1>2, <2>1 DEF AllDone
<1> HIDE DEF p
<1>6. ASSUME NEW r \in Requests, Tracked(r), pending'[r] = pending[r], \A t : ~Sends("loop", r, t)'
      PROVE  Tracked(r)'
    <2>1. r # c /\ finals'[r] = finals[r]
        BY <1>1, <1>2
    <2> QED BY <1>6, <2>1, TrackedElse
<1>7. \A t \in submitted[p] : t \in Stages /\ (Hold(p, t) => Hold(p, t)')
    BY <1>1 DEF Polling, Polled, TypeOK
<1>8. CASE /\ pending[p] # -1 /\ pending' = [pending EXCEPT ![p] = -1]
           /\ ~NextSubmitted(p, pending[p])
           /\ Forward(p, pending[p], <<Clean({c}, FALSE)>>)
    <2> DEFINE following == <<Clean({c}, FALSE)>>
    <2>1. PICK m \in Stages \ {LastStage} : m = pending[p]
        BY <1>1, <1>8 DEF TypeOK
    <2>2. m \in submitted[p] /\ m + 1 \notin submitted[p]
        BY <1>1, <1>8, <2>1 DEF NextSubmitted, PlacementInv, SubmittedInOrder
    <2>3. /\ following \in Seq(Frames)
          /\ Elements(following) = {Clean({c}, FALSE)}
        <3>1. Clean({c}, FALSE) \in Frames
            BY FrameMakers
        <3> QED BY <3>1, FrameAlone
    <2>4. Clean({c}, FALSE).op = "clean" /\ Clean({c}, FALSE).ids = {c}
        BY DEF Clean
    <2>5. Forward(p, m, following)
        BY <1>8, <2>1
    <2> HIDE DEF following
    <2>6. PICK frames \in Seq(Frames), g \in Frames :
              /\ Continue("loop", frames) /\ Answering
              /\ todo'["loop"] = frames /\ frames # <<>> /\ Head(frames) = g
              /\ Adds("loop", frames, Elements(frames))
              /\ Elements(frames) = {g} \cup Elements(following)
              /\ \/ g = Pick(p, m + 1)
                 \/ g.op = "clean" /\ g.ids = {p} /\ outcome'[p] # "waiting"
        BY <1>1, <2>3, <2>5, ForwardIs DEF Polling
    <2>7. Pick(p, m + 1).op = "pick" /\ Pick(p, m + 1).id = p /\ Pick(p, m + 1).stage = m + 1
        BY DEF Pick
    <2>8. \A t, r : ~Sends("loop", r, t)'
        BY <2>6, <2>7 DEF Sends, Send
    <2>9. g.op = "clean" => Cleaned(p)'
        <3>1. "clean" \in Cleanup
            BY DEF Cleanup
        <3> QED BY <1>1, <2>6, <2>7, <3>1, FramesStep DEF Cleaned
    <2>10. g.op # "clean" => Picks("loop", p, m + 1)'
        BY <2>6, <2>7 DEF Picks, IsPick
    <2>11. /\ \A h \in Elements(frames) : h.op \in {"clean", "pick"}
           /\ \A h \in Elements(frames) : h.op = "clean" => \A j \in Ids \cap h.ids : Known(j)
           /\ \A h \in Elements(frames) : h.op = "clean" =>
                  \A r \in Requests \cap h.ids : outcome'[r] # "waiting"
        BY <1>1, <1>3, <2>3, <2>4, <2>6, <2>7
    <2>12. pending'[p] = -1 /\ \A r \in Requests : r # p => pending'[r] = pending[r]
        BY <1>1, <1>8 DEF TypeOK
    <2>13. ASSUME NEW r \in Requests \cap states, Tracked(r), ~Cleaned(r)'
           PROVE  Tracked(r)'
        <3>1. CASE r = p
            <4>1. Picks("loop", r, m + 1)'
                BY <2>9, <2>10, <2>13, <3>1
            <4>2. finals'[r] = finals[r] /\ finals[r] \subseteq submitted[r]
                BY <1>1, <1>2, <3>1 DEF PlacementInv, SubmittedInOrder
            <4>3. \A t \in (submitted[r] \cap FinalOutput) \ finals'[r] : Hold(r, t)'
                BY <1>7, <2>13, <3>1, <4>2 DEF Tracked
            <4> QED BY <1>1, <2>2, <2>8, <3>1, <4>1, <4>2, <4>3, TrackedOn DEF Polling
        <3>2. CASE r # p
            BY <1>6, <2>8, <2>12, <2>13, <3>2
        <3> QED BY <3>1, <3>2
    <2>14. \A r \in Requests : pending'[r] # -1 => ~AllDone(r)' /\ pending'[r] = pending[r]
        BY <1>5, <2>12 DEF HandInv, ParentsWait
    <2> QED BY <1>2, <1>4, <2>6, <2>11, <2>13, <2>14, PolledHand DEF Polling
<1>9. CASE /\ \/ /\ pending' = [pending EXCEPT ![p] = -1]
                 /\ p \notin states \/ NextSubmitted(p, pending[p])
              \/ pending' = pending /\ ~(pending[p] # -1 /\ NowAllDone(p, c))
           /\ Continue("loop", <<Clean({c}, FALSE)>>) /\ UNCHANGED outcome
    <2> DEFINE frames == <<Clean({c}, FALSE)>>
    <2>1. /\ frames \in Seq(Frames) /\ \A t, r : ~Sends("loop", r, t)'
          /\ \A g \in Elements(frames) : g.op = "clean" /\ g.ids = {c}
        BY <1>9, CleaningAlone DEF Polling
    <2>2. Continue("loop", frames)
        BY <1>9
    <2> HIDE DEF frames
    <2>3. /\ \A h \in Elements(frames) : h.op \in {"clean", "pick"}
          /\ \A h \in Elements(frames) : h.op = "clean" => \A j \in Ids \cap h.ids : Known(j)
          /\ \A h \in Elements(frames) : h.op = "clean" =>
                 \A r \in Requests \cap h.ids : outcome'[r] # "waiting"
        BY <1>1, <2>1
    <2>4. /\ pending'[p] = -1 \/ (pending'[p] = pending[p] /\ ~(pending[p] # -1 /\ NowAllDone(p, c)))
          /\ \A r \in Requests : r # p => pending'[r] = pending[r]
        BY <1>1, <1>9 DEF TypeOK
    <2>5. \A r \in Requests : pending'[r] # -1 => ~AllDone(r)' /\ pending'[r] = pending[r]
        <3>1. ASSUME NEW r \in Requests, pending'[r] # -1, r # p PROVE ~AllDone(r)'
            BY <1>5, <2>4, <3>1 DEF HandInv, ParentsWait
        <3>2. pending'[p] # -1 => ~AllDone(p)'
            BY <1>2, <2>4 DEF NowAllDone, AllDone
        <3> QED BY <2>4, <3>1, <3>2
    <2>6. ASSUME NEW r \in Requests \cap states, Tracked(r), ~Cleaned(r)'
          PROVE  Tracked(r)'
        <3>1. CASE pending'[r] = pending[r]
            BY <1>6, <2>1, <2>6, <3>1
        <3>2. CASE pending'[r] # pending[r]
            <4>1. r = p /\ pending[r] + 1 \in submitted[r]
                BY <1>9, <2>4, <2>6, <3>2 DEF NextSubmitted
            <4>2. \A t \in (submitted'[r] \cap FinalOutput) \ finals'[r] : Hold(r, t)'
                BY <1>2, <1>7, <2>6, <4>1 DEF Tracked, Polling
            <4>3. LastStage \notin submitted'[r] =>
                      \E m \in submitted'[r] : m + 1 \notin submitted'[r] /\ Hold(r, m)'
                <5> SUFFICES ASSUME LastStage \notin submitted[r]
                             PROVE  \E m \in submitted[r] : m + 1 \notin submitted[r] /\ Hold(r, m)'
                    BY DEF Polling
                <5>1. PICK m \in submitted[r] :
                          /\ m + 1 \notin submitted[r]
                          /\ \/ pending[r] = m \/ Hold(r, m)
                             \/ Picks("loop", r, m + 1) \/ Sends("loop", r, m + 1)
                    BY <2>6 DEF Tracked
                <5>2. Hold(r, m)
                    BY <1>1, <4>1, <5>1 DEF Picks, Sends
                <5> QED BY <1>7, <4>1, <5>1, <5>2
            <4>4. ~(FinalOutput \subseteq finals'[r])
                BY <1>2, <2>6 DEF Tracked
            <4> QED BY <2>1, <4>2, <4>3, <4>4 DEF Tracked
        <3> QED BY <3>1, <3>2
    <2> QED BY <1>2, <1>4, <1>9, <2>1, <2>2, <2>3, <2>5, <2>6, OutcomeStill, PolledHand DEF Polling
<1> QED
    BY <1>8, <1>9 DEF RouteCompanion, p

\* _route_output, and the polls that find nothing of use.
LEMMA PollHand ==
    ASSUME TypeOK, PlacementInv, HandInv, NEW slot \in Slots, Poll(slot)
    PROVE  HandInv'
<1> USE DEF client, requests, tracker, pools, engines, environment
<1>1. PICK o \in Outputs, s \in Stages :
          /\ o = Head(out[slot]) /\ s = slot[1] /\ o.id \in Ids
          /\ o.kind = "kv_ready" => o.id \in Requests
    <2>1. Head(out[slot]) \in Outputs /\ Head(out[slot]).id \in Ids /\ slot[1] \in Stages
        BY PollIs
    <2>2. \A q \in Outputs : q.kind = "kv_ready" => q.id \in Requests
        BY DEF Outputs
    <2> QED BY <2>1, <2>2
<1>2. /\ Idle("loop") /\ out[slot] # <<>>
      /\ out' = [out EXCEPT ![slot] = Tail(@)]
      /\ UNCHANGED <<sent, inbox, states, submitted, route, live, dead, work>>
    BY DEF Poll
<1>3. \/ o.id \notin states /\ Ignore
      \/ o.id \in states /\ RouteError(o.id)
      \/ o.id \in states /\ o.kind = "kv_ready" /\ RouteKVReady(o.id, s)
      \/ o.id \in states /\ IsCompanion(o.id) /\ RouteCompanion(o.id)
      \/ o.id \in states /\ ~IsCompanion(o.id) /\ RouteFinished(o.id, s)
    BY <1>1 DEF Poll
<1>4. todo'["handler"] = todo["handler"]
    <2>1. "handler" \in Coroutines /\ "loop" \in Coroutines
        BY DEF Coroutines
    <2>2. \E frames : todo' = [todo EXCEPT !["loop"] = frames]
        BY <1>3 DEF Ignore, RouteError, RouteKVReady, RouteCompanion, RouteFinished, HandOn, Forward,
                    FailThen, Continue
    <2> QED BY <2>1, <2>2 DEF TypeOK
<1>5. Polled(o.id, s, o.kind)
    BY <1>1, <1>2, <1>4, PolledIs
<1>6. s \in submitted[o.id]
    <2>1. Holds(slot, o.id)
        <3>1. o \in Elements(out[slot])
            BY <1>1, PollIs
        <3> QED BY <3>1 DEF Holds
    <2> QED BY <1>1, <1>2, <2>1 DEF PlacementInv, HeldWasSubmitted, Idle
<1>7. Polling(o.id, s, o.kind)
    BY <1>1, <1>2, <1>5, <1>6 DEF Polling
<1> QED
    BY <1>1, <1>3, <1>7, IgnoreHand, RouteErrorHand, RouteKVReadyHand, RouteCompanionHand,
       RouteFinishedHand

-----------------------------------------------------------------------------
(* The requests are in hand in every reachable state.                      *)

LEMMA HandStep == TypeOK /\ PlacementInv /\ HandInv /\ [Next]_vars => HandInv'
<1> SUFFICES ASSUME TypeOK, PlacementInv, HandInv, [Next]_vars PROVE HandInv'
    OBVIOUS
<1>1. CASE UNCHANGED vars
    <2>1. Steady
        BY <1>1, OutcomeStill, InboxStill, StillerHand
        DEF vars, client, requests, tracker, pools, engines, environment
    <2> QED BY <2>1, HandKept
<1>2. ASSUME NEW r \in Requests, Submit(r) \/ Cancel(r) PROVE HandInv'
    BY <1>2, SubmitHand, CancelHand, HandKept
<1>3. CASE Handle
    BY <1>3, HandleAddHand, HandleCompanionHand, HandleAbortHand, HandKept DEF Handle
<1>4. ASSUME NEW c \in Coroutines, Step(c) PROVE HandInv'
    <2>1. CASE Sent(c)
        BY <2>1, SentHand
    <2>2. CASE PickReplica(c) \/ EndWait(c)
        BY <2>2, PickHand, HandKept
    <2>3. CASE CleanStart(c) \/ AbortInPool(c) \/ ReleaseInPool(c) \/ CleanEnd(c)
        BY <2>3, CleanStartHand, AbortInPoolHand, ReleaseInPoolHand, CleanEndHand, HandKept
    <2>4. CASE ReplyTo(c) \/ EvictReplica(c)
        BY <2>4, ReplyHand, EvictHand, HandKept
    <2> QED BY <1>4, <2>1, <2>2, <2>3, <2>4 DEF Step
<1>5. ASSUME NEW slot \in Slots, Poll(slot) \/ PollDead(slot) \/ Unregister(slot) PROVE HandInv'
    BY <1>5, PollHand, PollDeadHand, UnregisterHand, HandKept
<1>6. ASSUME NEW slot \in Slots, Attach(slot) \/ Die(slot) \/ Delist(slot) \/ List(slot)
      PROVE  HandInv'
    BY <1>6, OutsideHand, HandKept
<1>7. ASSUME NEW slot \in Slots, NEW i \in Ids, Compute(slot, i) \/ ReportKV(slot, i) PROVE HandInv'
    BY <1>7, EngineHand, HandKept
<1> QED
    BY <1>1, <1>2, <1>3, <1>4, <1>5, <1>6, <1>7 DEF Next

\* Whoever has a request, and what was lost with a replica, is accounted for in
\* every reachable state.
THEOREM OrchestratorKeepsRequests == OrchestratorSpec => []HandInv
BY OrchestratorTypeCorrect, OrchestratorPlacement, InitHand, HandStep, PTL DEF OrchestratorSpec

LEMMA InHandWhen ==
    ASSUME TypeOK, NEW i \in Ids
    PROVE  /\ Cleaned(i) => InHand(i)
           /\ \A c \in Coroutines : Replies(c, i) => InHand(i)
           /\ \A c \in Coroutines, s \in Stages : Picks(c, i, s) => InHand(i)
           /\ \A s \in Stages : Token(i, s) \/ Hold(i, s) => InHand(i)
<1>1. \A f \in Frames : f.op \in Cleanup \cup {"reply"} => "ids" \in DOMAIN f
    BY DEF Frames, Cleanup, Leave
<1>2. ASSUME NEW c \in Coroutines, NEW n \in DOMAIN todo[c],
             todo[c][n].op \in Cleanup \cup {"reply"}, i \in todo[c][n].ids
      PROVE  InHand(i)
    <2>1. todo[c][n] \in Frames
        BY DEF TypeOK
    <2> QED BY <1>1, <1>2, <2>1 DEF InHand
<1>3. Cleaned(i) => InHand(i)
    BY <1>2 DEF Cleaned, Named, NamedIn, Elements
<1>4. ASSUME NEW c \in Coroutines, todo[c] # <<>>
      PROVE  1 \in DOMAIN todo[c] /\ todo[c][1] = Head(todo[c])
    BY <1>4 DEF TypeOK
<1>5. ASSUME NEW c \in Coroutines, Replies(c, i) PROVE InHand(i)
    BY <1>2, <1>4, <1>5 DEF Replies
<1>6. ASSUME NEW c \in Coroutines, NEW s \in Stages, Picks(c, i, s) PROVE InHand(i)
    <2>1. <<c, 1>> \in {c} \X {n \in DOMAIN todo[c] : IsPick(todo[c][n], i, s)}
        BY <1>4, <1>6 DEF Picks
    <2>2. FramesOf(i, s) # {}
        BY <2>1 DEF FramesOf
    <2> QED BY <2>2 DEF InHand
<1>7. ASSUME NEW s \in Stages, Token(i, s) PROVE InHand(i)
    <2>1. PICK x \in Slots : x[1] = s /\ (Has(x, i) \/ Lost(x, i))
        BY <1>7 DEF Token
    <2>2. CASE i \in work[x]
        <3>1. Computing(i, s) # {}
            BY <2>1, <2>2 DEF Computing, StageSlots
        <3> QED BY <3>1 DEF InHand
    <2>3. CASE Ends(out[x], i) # {}
        <3>1. PICK n \in DOMAIN out[x] : IsEnd(out[x][n], i)
            BY <2>3 DEF Ends
        <3>2. <<x, n>> \in {x} \X {k \in DOMAIN out[x] : IsEnd(out[x][k], i)} /\ x \in StageSlots(s)
            BY <2>1, <3>1 DEF StageSlots
        <3>3. Answered(i, s) # {}
            BY <3>2 DEF Answered
        <3> QED BY <3>3 DEF InHand
    <2>4. CASE Lost(x, i)
        BY <2>4 DEF Lost, InHand
    <2> QED BY <2>1, <2>2, <2>3, <2>4 DEF Has
<1>8. ASSUME NEW s \in Stages, Hold(i, s) PROVE InHand(i)
    <2>1. "handler" \in Coroutines
        BY DEF Coroutines
    <2> QED BY <1>6, <1>7, <1>8, <2>1 DEF Hold
<1> QED
    BY <1>3, <1>5, <1>6, <1>7, <1>8

LEMMA TrackedIsInHand ==
    ASSUME TypeOK, PlacementInv, NEW r \in Requests, Tracked(r), submitted[r] # {}
    PROVE  InHand(r) \/ pending[r] # -1
<1>1. r \in Ids /\ "loop" \in Coroutines /\ LastStage \in FinalOutput /\ FinalOutput \subseteq Stages
    BY OrchestratorAssumption DEF Ids, Coroutines
<1>2. CASE LastStage \notin submitted[r]
    <2>1. PICK m \in submitted[r] :
              /\ m + 1 \notin submitted[r]
              /\ \/ pending[r] = m \/ Hold(r, m)
                 \/ Picks("loop", r, m + 1) \/ Sends("loop", r, m + 1)
        BY <1>2 DEF Tracked
    <2>2. m \in Stages /\ m # -1 /\ m + 1 \in Stages
        BY <1>1, <1>2, <2>1, ParentIs DEF TypeOK
    <2>3. Sends("loop", r, m + 1) => Token(r, m + 1)
        BY <2>2 DEF Tracked
    <2> QED BY <1>1, <2>1, <2>2, <2>3, InHandWhen
<1>3. CASE LastStage \in submitted[r]
    <2>1. PICK s \in FinalOutput : s \notin finals[r]
        BY DEF Tracked
    <2>2. s \in submitted[r]
        <3>1. PICK m \in Stages : submitted[r] = 0 .. m
            BY <1>1 DEF PlacementInv, SubmittedInOrder
        <3>2. s \in Stages /\ s \in Int /\ 0 <= s /\ s <= LastStage /\ LastStage \in Int /\ m \in Int
            BY <1>1, ParentIs, OrchestratorAssumption DEF Stages
        <3> QED BY <1>3, <3>1, <3>2
    <2>3. Hold(r, s) /\ s \in Stages
        BY <1>1, <2>1, <2>2 DEF Tracked
    <2> QED BY <1>1, <2>3, InHandWhen
<1> QED BY <1>2, <1>3

LEMMA HandLosesNothing == TypeOK /\ PlacementInv /\ HandInv => NoLostRequest
<1> SUFFICES ASSUME TypeOK, PlacementInv, HandInv, NEW r \in Requests
             PROVE  /\ r \in states => (InHand(r) \/ pending[r] # -1)
                    /\ outcome[r] = "waiting" =>
                           \/ r \in states \/ InHand(r)
                           \/ \E n \in DOMAIN inbox : inbox[n].id = r
    BY DEF NoLostRequest
<1>1. r \in Ids
    BY DEF Ids
<1>2. ASSUME r \in states PROVE InHand(r) \/ pending[r] # -1
    <2>1. submitted[r] # {} /\ (Cleaned(r) \/ Tracked(r))
        BY <1>2 DEF HandInv, KnownWasRegistered, AllTracked
    <2> QED BY <1>1, <2>1, InHandWhen, TrackedIsInHand
<1>3. ASSUME outcome[r] = "waiting"
      PROVE  r \in states \/ InHand(r) \/ \E n \in DOMAIN inbox : inbox[n].id = r
    <2>1. \/ r \in states
          \/ \E m \in Elements(inbox) : m.type = "add" /\ m.id = r
          \/ \E c \in Coroutines : Replies(c, r)
        BY <1>3 DEF HandInv, WaitingIsKnown
    <2> QED BY <1>1, <2>1, InHandWhen DEF Elements
<1> QED BY <1>2, <1>3

LEMMA HandStrandsNobody == TypeOK /\ PlacementInv /\ HandInv => NoStrandedParent
<1> SUFFICES ASSUME TypeOK, PlacementInv, HandInv, turn = Nobody, NEW r \in Requests,
                    pending[r] # -1, outcome[r] = "waiting"
             PROVE  r \in states /\ \E c \in registered[r] \ done : c \in states /\ InHand(c)
    BY DEF NoStrandedParent
<1>1. r \in states
    BY OrchestratorAssumption DEF HandInv, ParentsWait
<1>2. PICK c \in registered[r] \ done : TRUE
    BY DEF HandInv, ParentsWait, AllDone
<1>3. c \in states /\ (Cleaned(c) \/ Hold(c, 0)) /\ c \in Ids /\ 0 \in Stages
    BY <1>2, ParentIs DEF HandInv, CompanionsTracked, TypeOK, Ids
<1> QED
    BY <1>1, <1>2, <1>3, InHandWhen

\* No request is forgotten: as long as the orchestrator keeps its state somebody
\* has it in hand, or it waits for its companions, and the state goes only with
\* an answer, whatever dies, leaves or is aborted meanwhile.
THEOREM OrchestratorLosesNoRequest == OrchestratorSpec => []NoLostRequest
BY OrchestratorTypeCorrect, OrchestratorPlacement, OrchestratorKeepsRequests, HandLosesNothing, PTL

\* A request that waits for its companions waits for one that is on its way:
\* defer_parent strands nobody.
THEOREM OrchestratorStrandsNoParent == OrchestratorSpec => []NoStrandedParent
BY OrchestratorTypeCorrect, OrchestratorPlacement, OrchestratorKeepsRequests, HandStrandsNobody, PTL
=============================================================================
