------------------------ MODULE DiffusionQueueProofs ------------------------
(***************************************************************************)
(* Further theorems about DiffusionScheduler, on top of the page           *)
(* invariant: where a request is, what it holds, which requests run        *)
(* together, and that no end of a request is lost.                         *)
(***************************************************************************)
EXTENDS DiffusionSchedulerProofs

-----------------------------------------------------------------------------
(* Lemmas about queues.                                                    *)
Distinct(s) == \A i, j \in 1 .. Len(s) : s[i] = s[j] => i = j

LEMMA InConcat ==
    ASSUME NEW S, NEW s \in Seq(S), NEW t \in Seq(S)
    PROVE  \A x : InSeq(x, s \o t) <=> InSeq(x, s) \/ InSeq(x, t)
<1> DEFINE u == s \o t
<1>1. /\ Len(s) \in Nat /\ Len(t) \in Nat /\ Len(u) = Len(s) + Len(t)
      /\ \A i \in 1 .. Len(s) : i \in 1 .. Len(u) /\ u[i] = s[i]
      /\ \A i \in 1 .. Len(t) : Len(s) + i \in 1 .. Len(u) /\ u[Len(s) + i] = t[i]
      /\ \A i \in 1 .. Len(u) : i \in 1 .. Len(s) \/ i - Len(s) \in 1 .. Len(t)
  OBVIOUS
<1> SUFFICES ASSUME NEW x PROVE InSeq(x, u) <=> InSeq(x, s) \/ InSeq(x, t)
  OBVIOUS
<1> HIDE DEF u
<1>2. ASSUME InSeq(x, u) PROVE InSeq(x, s) \/ InSeq(x, t)
  <2>1. PICK i \in 1 .. Len(u) : u[i] = x
    BY <1>2 DEF InSeq
  <2>2. CASE i \in 1 .. Len(s)
    BY <2>1, <2>2, <1>1 DEF InSeq
  <2>3. CASE i - Len(s) \in 1 .. Len(t)
    <3>1. u[Len(s) + (i - Len(s))] = t[i - Len(s)] /\ Len(s) + (i - Len(s)) = i
      BY <2>3, <1>1
    <3> QED BY <2>1, <2>3, <3>1 DEF InSeq
  <2> QED BY <2>1, <2>2, <2>3, <1>1
<1>3. InSeq(x, s) => InSeq(x, u)
  BY <1>1 DEF InSeq
<1>4. InSeq(x, t) => InSeq(x, u)
  BY <1>1 DEF InSeq
<1> QED BY <1>2, <1>3, <1>4

LEMMA DistinctConcat ==
    ASSUME NEW S, NEW s \in Seq(S), NEW t \in Seq(S)
    PROVE  Distinct(s \o t) <=>
               /\ Distinct(s) /\ Distinct(t)
               /\ \A x : ~(InSeq(x, s) /\ InSeq(x, t))
<1> DEFINE u == s \o t
<1>1. /\ Len(s) \in Nat /\ Len(t) \in Nat /\ Len(u) = Len(s) + Len(t)
      /\ \A i \in 1 .. Len(s) : i \in 1 .. Len(u) /\ u[i] = s[i]
      /\ \A i \in 1 .. Len(t) : Len(s) + i \in 1 .. Len(u) /\ u[Len(s) + i] = t[i]
      /\ \A i \in 1 .. Len(u) : i \in 1 .. Len(s) \/ i - Len(s) \in 1 .. Len(t)
  OBVIOUS
<1> HIDE DEF u
<1>2. ASSUME Distinct(u)
      PROVE  Distinct(s) /\ Distinct(t) /\ \A x : ~(InSeq(x, s) /\ InSeq(x, t))
  <2>1. Distinct(s)
    BY <1>1, <1>2 DEF Distinct
  <2>2. Distinct(t)
    <3> SUFFICES ASSUME NEW i \in 1 .. Len(t), NEW j \in 1 .. Len(t), t[i] = t[j]
                 PROVE  i = j
      BY DEF Distinct
    <3>1. Len(s) + i = Len(s) + j
      BY <1>1, <1>2 DEF Distinct
    <3> QED BY <3>1, <1>1
  <2>3. ASSUME NEW i \in 1 .. Len(s), NEW j \in 1 .. Len(t), s[i] = t[j]
        PROVE  FALSE
    <3>1. i = Len(s) + j
      BY <2>3, <1>1, <1>2 DEF Distinct
    <3> QED BY <3>1, <1>1
  <2> QED BY <2>1, <2>2, <2>3 DEF InSeq
<1>3. ASSUME Distinct(s), Distinct(t), \A x : ~(InSeq(x, s) /\ InSeq(x, t)),
             NEW i \in 1 .. Len(u), NEW j \in 1 .. Len(u), u[i] = u[j]
      PROVE  i = j
  <2> DEFINE m == i - Len(s)
             n == j - Len(s)
  <2>1. /\ i \in Int /\ j \in Int /\ i = Len(s) + m /\ j = Len(s) + n
        /\ i \in 1 .. Len(s) \/ m \in 1 .. Len(t)
        /\ j \in 1 .. Len(s) \/ n \in 1 .. Len(t)
    BY <1>1
  <2> HIDE DEF m, n
  <2>2. CASE i \in 1 .. Len(s) /\ j \in 1 .. Len(s)
    BY <2>2, <1>1, <1>3 DEF Distinct
  <2>3. CASE m \in 1 .. Len(t) /\ n \in 1 .. Len(t)
    <3>1. t[m] = t[n]
      BY <2>1, <2>3, <1>1, <1>3
    <3> QED BY <3>1, <2>1, <2>3, <1>3 DEF Distinct
  <2>4. CASE i \in 1 .. Len(s) /\ n \in 1 .. Len(t)
    <3>1. s[i] = t[n]
      BY <2>1, <2>4, <1>1, <1>3
    <3> QED BY <3>1, <2>4, <1>3 DEF InSeq
  <2>5. CASE m \in 1 .. Len(t) /\ j \in 1 .. Len(s)
    <3>1. s[j] = t[m]
      BY <2>1, <2>5, <1>1, <1>3
    <3> QED BY <3>1, <2>5, <1>3 DEF InSeq
  <2> QED BY <2>1, <2>2, <2>3, <2>4, <2>5
<1> QED BY <1>2, <1>3 DEF u, Distinct

LEMMA Singleton ==
    ASSUME NEW e
    PROVE  Distinct(<<e>>) /\ \A x : InSeq(x, <<e>>) <=> x = e
<1>1. Len(<<e>>) = 1 /\ <<e>>[1] = e /\ 1 .. 1 = {1}
  OBVIOUS
<1> QED BY <1>1 DEF Distinct, InSeq

\* The head of a queue, and the rest.
LEMMA HeadAndTail ==
    ASSUME NEW S, NEW s \in Seq(S), s # <<>>
    PROVE  /\ Head(s) \in S /\ Tail(s) \in Seq(S)
           /\ s = <<Head(s)>> \o Tail(s)
           /\ \A x : InSeq(x, s) <=> x = Head(s) \/ InSeq(x, Tail(s))
           /\ Distinct(s) <=> Distinct(Tail(s)) /\ ~InSeq(Head(s), Tail(s))
<1>1. Head(s) \in S /\ Tail(s) \in Seq(S) /\ <<Head(s)>> \in Seq(S)
  OBVIOUS
<1>2. s = <<Head(s)>> \o Tail(s)
  OBVIOUS
<1>3. \A x : InSeq(x, <<Head(s)>> \o Tail(s)) <=> x = Head(s) \/ InSeq(x, Tail(s))
  BY <1>1, InConcat, Singleton
<1>4. Distinct(<<Head(s)>> \o Tail(s))
         <=> Distinct(Tail(s)) /\ ~InSeq(Head(s), Tail(s))
  <2>1. Distinct(<<Head(s)>> \o Tail(s)) <=>
            /\ Distinct(<<Head(s)>>) /\ Distinct(Tail(s))
            /\ \A x : ~(InSeq(x, <<Head(s)>>) /\ InSeq(x, Tail(s)))
    BY <1>1, DistinctConcat
  <2>2. Distinct(<<Head(s)>>) /\ \A x : InSeq(x, <<Head(s)>>) <=> x = Head(s)
    BY Singleton
  <2> QED BY ONLY <2>1, <2>2
<1> QED BY <1>1, <1>2, <1>3, <1>4

LEMMA InAppend ==
    ASSUME NEW S, NEW s \in Seq(S), NEW e \in S
    PROVE  /\ \A x : InSeq(x, Append(s, e)) <=> InSeq(x, s) \/ x = e
           /\ Distinct(Append(s, e)) <=> Distinct(s) /\ ~InSeq(e, s)
<1>1. Append(s, e) = s \o <<e>> /\ <<e>> \in Seq(S)
  OBVIOUS
<1>2. \A x : InSeq(x, s \o <<e>>) <=> InSeq(x, s) \/ x = e
  BY <1>1, InConcat, Singleton
<1>3. Distinct(s \o <<e>>) <=> Distinct(s) /\ ~InSeq(e, s)
  BY <1>1, DistinctConcat, Singleton
<1> QED BY <1>1, <1>2, <1>3

LEMMA EmptyQueue == Distinct(<<>>) /\ \A x : ~InSeq(x, <<>>)
BY DEF Distinct, InSeq

-----------------------------------------------------------------------------
(***************************************************************************)
(* Where a request is.  QueuePartition speaks of the queue that the        *)
(* current schedule() will put back; the invariant speaks of its two parts *)
(* and says that outside the admission loop nothing is set aside.          *)
(***************************************************************************)
Queuing(r)   == InSeq(r, deferred) \/ InSeq(r, waiting)
Unfinished(r) == r \in states /\ ~IsFinished(r)

QueueParts ==
    /\ \A r \in Request : Unfinished(r) <=> Queuing(r) \/ r \in running
    /\ Distinct(deferred) /\ Distinct(waiting)
    /\ \A r : ~(InSeq(r, deferred) /\ InSeq(r, waiting))
    /\ \A r \in states : status[r] = "RUNNING" <=> r \in running
    /\ \A r \in running : ~Queuing(r)

DeferredInLoop == phase # "admit" => deferred = <<>>

QueueInv == TypeOK /\ QueueParts /\ DeferredInLoop

LEMMA QueueIsPartition == QueueInv => QueuePartition
<1> SUFFICES ASSUME QueueInv PROVE QueuePartition
  OBVIOUS
<1>1. waiting \in Seq(Request) /\ deferred \in Seq(Request)
  BY DEF QueueInv, TypeOK
<1>2. \A r : InSeq(r, Queue) <=> Queuing(r)
  BY <1>1, InConcat DEF Queue, Queuing
<1>3. Distinct(Queue)
  BY <1>1, DistinctConcat DEF Queue, QueueInv, QueueParts
<1>4. \A r \in running : ~InSeq(r, Queue)
  BY <1>2 DEF QueueInv, QueueParts
<1> QED BY <1>2, <1>3, <1>4 DEF QueueInv, QueueParts, QueuePartition, Distinct, Unfinished

LEMMA QueueInit == Init => QueueInv
<1> SUFFICES ASSUME Init PROVE QueueInv
  OBVIOUS
<1>1. TypeOK
  BY TypeInit
<1> QED BY <1>1, EmptyQueue DEF Init, QueueInv, QueueParts, DeferredInLoop,
           Queuing, Unfinished

\* Steps that move no request.
LEMMA QueueFrame ==
    ASSUME QueueInv, TypeOK',
           UNCHANGED <<states, status, running, waiting, deferred>>,
           phase' # phase => deferred = <<>>
    PROVE  QueueInv'
BY DEF QueueInv, QueueParts, DeferredInLoop, Queuing, Unfinished, IsFinished

\* The request at the head of the queue starts.
LEMMA StartMoves ==
    ASSUME QueueInv, TypeOK', NEW r \in Request, AtHead(r), StartRunning(r),
           UNCHANGED <<states, deferred, phase>>
    PROVE  QueueInv'
<1>1. /\ waiting # <<>> /\ waiting \in Seq(Request) /\ r = Head(waiting)
      /\ waiting' = Tail(waiting) /\ r \in states
  BY DEF AtHead, StartRunning, QueueInv, TypeOK
<1>2. /\ \A x : InSeq(x, waiting) <=> x = r \/ InSeq(x, waiting')
      /\ Distinct(waiting) <=> Distinct(waiting') /\ ~InSeq(r, waiting')
  BY <1>1, HeadAndTail
<1>3. /\ running' = running \cup {r}
      /\ status' = [status EXCEPT ![r] = "RUNNING"] /\ status \in [Request -> Status]
      /\ running \subseteq Request /\ states \subseteq Request
  BY DEF StartRunning, QueueInv, TypeOK
<1>4. \A x \in Request : /\ x # r => status'[x] = status[x]
                         /\ x = r => status'[x] = "RUNNING"
  BY <1>3
<1>5. \A x \in Request : IsFinished(x)' <=> x # r /\ IsFinished(x)
  BY <1>4 DEF IsFinished, Terminal
<1>6. QueueParts
  BY DEF QueueInv
<1>7. \A x \in Request : Unfinished(x)' <=> Queuing(x)' \/ x \in running'
  BY <1>1, <1>2, <1>3, <1>5, <1>6 DEF QueueParts, Queuing, Unfinished
<1>8. Distinct(waiting') /\ \A x : ~(InSeq(x, deferred) /\ InSeq(x, waiting'))
  BY <1>2, <1>6 DEF QueueParts
<1>9. \A x \in states : status'[x] = "RUNNING" <=> x \in running'
  BY <1>3, <1>4, <1>6 DEF QueueParts
<1>10. \A x \in running' : ~Queuing(x)'
  BY <1>1, <1>2, <1>3, <1>6, <1>8 DEF QueueParts, Queuing
<1> QED BY <1>6, <1>7, <1>8, <1>9, <1>10 DEF QueueInv, QueueParts, DeferredInLoop

\* Finished requests leave the queue and the wave.
LEMMA FinishMoves ==
    ASSUME QueueInv, TypeOK', NEW outcome,
           \A r \in DOMAIN outcome : outcome[r] \in Terminal,
           FinishRequests(outcome), UNCHANGED <<states, deferred>>,
           \A r \in Finishing(outcome) : ~InSeq(r, deferred),
           DeferredInLoop'
    PROVE  QueueInv'
<1> DEFINE done == Finishing(outcome)
<1>1. /\ waiting \in Seq(Request) /\ waiting' = Without(waiting, done)
      /\ running' = running \ done /\ running \subseteq Request
      /\ states \subseteq Request /\ QueueParts
  BY DEF FinishRequests, QueueInv, TypeOK
<1>2. /\ \A x : InSeq(x, waiting') <=> InSeq(x, waiting) /\ x \notin done
      /\ Distinct(waiting) => Distinct(waiting')
  BY <1>1, WithoutProperties DEF Distinct
<1>3. \A x \in Request : /\ x \notin done => status'[x] = status[x]
                         /\ x \in done => status'[x] \in Terminal
  BY DEF FinishRequests, Finishing
<1>4. \A x \in Request : IsFinished(x)' <=> IsFinished(x) \/ x \in done
  BY <1>3 DEF IsFinished, Finishing
<1>5. \A x \in done : x \in states
  BY DEF Finishing
<1> HIDE DEF done
<1>6. \A x \in Request : Unfinished(x)' <=> Queuing(x)' \/ x \in running'
  <2> SUFFICES ASSUME NEW x \in Request
               PROVE  Unfinished(x)' <=> Queuing(x)' \/ x \in running'
    OBVIOUS
  <2>1. Unfinished(x)' <=> Unfinished(x) /\ x \notin done
    BY <1>4 DEF Unfinished
  <2>2. Queuing(x)' <=> Queuing(x) /\ x \notin done
    BY <1>2 DEF Queuing, done
  <2> QED BY <2>1, <2>2, <1>1 DEF QueueParts
<1>7. Distinct(waiting') /\ \A x : ~(InSeq(x, deferred) /\ InSeq(x, waiting'))
  BY <1>1, <1>2 DEF QueueParts
<1>8. \A x \in states : status'[x] = "RUNNING" <=> x \in running'
  BY <1>1, <1>3 DEF QueueParts, Terminal
<1>9. \A x \in running' : ~Queuing(x)'
  BY <1>1, <1>2 DEF QueueParts, Queuing
<1> QED BY <1>1, <1>6, <1>7, <1>8, <1>9 DEF QueueInv, QueueParts

\* Only the head of the queue fails inside the admission loop.
LEMMA HeadIsNotDeferred ==
    ASSUME QueueInv, waiting # <<>>
    PROVE  InSeq(Head(waiting), waiting) /\ ~InSeq(Head(waiting), deferred)
<1>1. waiting \in Seq(Request)
  BY DEF QueueInv, TypeOK
<1>2. InSeq(Head(waiting), waiting)
  BY <1>1, HeadAndTail
<1> QED BY <1>2 DEF QueueInv, QueueParts

LEMMA QueueStep == SurfacedIsFinished /\ QueueInv /\ [Next]_vars => QueueInv'
<1> SUFFICES ASSUME SurfacedIsFinished, QueueInv, [Next]_vars PROVE QueueInv'
  OBVIOUS
<1>0. TypeOK /\ TypeOK' /\ QueueParts /\ DeferredInLoop
  BY TypeStep DEF QueueInv
<1>a. /\ waiting \in Seq(Request) /\ deferred \in Seq(Request)
      /\ states \subseteq Request /\ running \subseteq Request
      /\ status \in [Request -> Status]
  BY <1>0 DEF TypeOK
<1>b. \A x : phase # "admit" => ~InSeq(x, deferred)
  BY <1>0, EmptyQueue DEF DeferredInLoop
<1>1. ASSUME NEW r \in Request, NEW s \in Shape, AddRequest(r, s)
      PROVE  QueueInv'
  <2>1. /\ r \notin states /\ waiting' = Append(waiting, r)
        /\ states' = states \cup {r}
        /\ status' = [status EXCEPT ![r] = "WAITING"]
        /\ UNCHANGED <<running, deferred, phase>>
    BY <1>1 DEF AddRequest, Admissible, waveVars
  <2>2. /\ \A x : InSeq(x, waiting') <=> InSeq(x, waiting) \/ x = r
        /\ Distinct(waiting') <=> Distinct(waiting) /\ ~InSeq(r, waiting)
    BY <2>1, <1>a, InAppend
  <2>3. ~Queuing(r) /\ r \notin running
    BY <2>1, <1>0 DEF QueueParts, Unfinished
  <2>4. \A x \in Request : /\ x # r => status'[x] = status[x]
                           /\ x = r => status'[x] = "WAITING"
    BY <2>1, <1>a
  <2>5. \A x \in Request : IsFinished(x)' <=> x # r /\ IsFinished(x)
    BY <2>4 DEF IsFinished, Terminal
  <2>6. \A x \in Request : Unfinished(x)' <=> Queuing(x)' \/ x \in running'
    BY <2>1, <2>2, <2>5, <1>0 DEF QueueParts, Queuing, Unfinished
  <2>7. Distinct(waiting') /\ \A x : ~(InSeq(x, deferred) /\ InSeq(x, waiting'))
    BY <2>2, <2>3, <1>0 DEF QueueParts, Queuing
  <2>8. \A x \in states' : status'[x] = "RUNNING" <=> x \in running'
    BY <2>1, <2>3, <2>4, <1>0, <1>a DEF QueueParts
  <2>9. \A x \in running' : ~Queuing(x)'
    BY <2>1, <2>2, <2>3, <1>0 DEF QueueParts, Queuing
  <2> QED BY <2>1, <2>6, <2>7, <2>8, <2>9, <1>0
          DEF QueueInv, QueueParts, DeferredInLoop
<1>2. CASE ScheduleBegin
  <2>1. /\ phase = "idle" /\ phase' = "admit" /\ deferred' = <<>>
        /\ UNCHANGED <<states, status, running, waiting>>
    BY <1>2 DEF ScheduleBegin, requestVars, queueVars
  <2>2. deferred' = deferred /\ deferred = <<>>
    BY <2>1, <1>0 DEF DeferredInLoop
  <2> QED BY <2>1, <2>2, <1>0, QueueFrame
<1>3. ASSUME NEW r \in Request, AdmitDefer(r) PROVE QueueInv'
  <2>1. /\ waiting # <<>> /\ r = Head(waiting) /\ waiting' = Tail(waiting)
        /\ deferred' = Append(deferred, r)
        /\ UNCHANGED <<states, status, running, phase>>
    BY <1>3 DEF AdmitDefer, AtHead, requestVars
  <2>2. /\ \A x : InSeq(x, waiting) <=> x = r \/ InSeq(x, waiting')
        /\ Distinct(waiting) <=> Distinct(waiting') /\ ~InSeq(r, waiting')
    BY <2>1, <1>a, HeadAndTail
  <2>3. /\ \A x : InSeq(x, deferred') <=> InSeq(x, deferred) \/ x = r
        /\ Distinct(deferred') <=> Distinct(deferred) /\ ~InSeq(r, deferred)
    BY <2>1, <1>a, InAppend
  <2>4. \A x : Queuing(x)' <=> Queuing(x)
    BY <2>2, <2>3 DEF Queuing
  <2>5. \A x \in Request : Unfinished(x)' <=> Unfinished(x)
    BY <2>1 DEF Unfinished, IsFinished
  <2>6. /\ Distinct(deferred') /\ Distinct(waiting')
        /\ \A x : ~(InSeq(x, deferred') /\ InSeq(x, waiting'))
    BY <2>2, <2>3, <1>0 DEF QueueParts
  <2> QED BY <2>1, <2>4, <2>5, <2>6, <1>0, <1>3
          DEF QueueInv, QueueParts, DeferredInLoop, AdmitDefer, AtHead
<1>4. ASSUME NEW r \in Request, AdmitReserved(r) PROVE QueueInv'
  BY <1>4, <1>0, StartMoves DEF AdmitReserved
<1>5. ASSUME NEW r \in Request, NEW res \in Reservations(r),
             AdmitNew(r, res)
      PROVE  QueueInv'
  BY <1>5, <1>0, StartMoves DEF AdmitNew
<1>6. ASSUME NEW r \in Request, AdmitTooLarge(r) \/ AdmitUnregistered(r)
      PROVE  QueueInv'
  <2> DEFINE outcome == [x \in {r} |-> "ERROR"]
  <2>1. \A x \in DOMAIN outcome : outcome[x] \in Terminal
    BY DEF Terminal
  <2>2. /\ FinishRequests(outcome) /\ UNCHANGED <<states, deferred, phase>>
        /\ phase = "admit" /\ waiting # <<>> /\ r = Head(waiting)
    BY <1>6 DEF AdmitTooLarge, AdmitUnregistered, AtHead
  <2>3. \A x \in Finishing(outcome) : ~InSeq(x, deferred)
    BY <2>2, HeadIsNotDeferred DEF Finishing
  <2>4. DeferredInLoop'
    BY <2>2 DEF DeferredInLoop
  <2> HIDE DEF outcome
  <2> QED BY <2>1, <2>2, <2>3, <2>4, <1>0, FinishMoves
<1>7. CASE ScheduleEnd
  <2>1. /\ waiting' = deferred \o waiting /\ deferred' = <<>>
        /\ UNCHANGED <<states, status, running>>
    BY <1>7 DEF ScheduleEnd, Requeued, requestVars
  <2>2. /\ \A x : InSeq(x, waiting') <=> Queuing(x)
        /\ Distinct(waiting')
    BY <2>1, <1>0, <1>a, InConcat, DistinctConcat DEF Queuing, QueueParts
  <2>3. /\ \A x : Queuing(x)' <=> Queuing(x)
        /\ Distinct(deferred') /\ \A x : ~InSeq(x, deferred')
    BY <2>1, <2>2, EmptyQueue DEF Queuing
  <2>4. \A x \in Request : Unfinished(x)' <=> Unfinished(x)
    BY <2>1 DEF Unfinished, IsFinished
  <2> QED BY <2>1, <2>2, <2>3, <2>4, <1>0 DEF QueueInv, QueueParts, DeferredInLoop
<1>8. ASSUME NEW r \in Request, NEW res \in Reservations(r),
             PrefetchStart(r, res)
      PROVE  QueueInv'
  <2>1. /\ phase = "prefetch"
        /\ UNCHANGED <<states, status, running, waiting, deferred>>
    BY <1>8 DEF PrefetchStart, Prefetchable, queueVars
  <2> QED BY <2>1, <1>0, QueueFrame DEF DeferredInLoop
<1>9. ASSUME NEW r \in Request, PrefetchUnregistered(r) PROVE QueueInv'
  <2> DEFINE outcome == [x \in {r} |-> "ERROR"]
  <2>1. \A x \in DOMAIN outcome : outcome[x] \in Terminal
    BY DEF Terminal
  <2>2. /\ FinishRequests(outcome) /\ UNCHANGED <<states, deferred>>
        /\ phase = "prefetch" /\ phase' = "publish"
    BY <1>9 DEF PrefetchUnregistered, Prefetchable
  <2>3. DeferredInLoop'
    BY <2>2, <1>0 DEF DeferredInLoop
  <2> HIDE DEF outcome
  <2> QED BY <2>1, <2>2, <2>3, <1>0, <1>b, FinishMoves
<1>10. CASE PrefetchSkip \/ Publish
  BY <1>10, <1>0, QueueFrame
     DEF PrefetchSkip, Publish, DeferredInLoop, requestVars, queueVars
<1>11. ASSUME NEW D \in SUBSET arrived, UpdateKvConnectorOutput(D)
       PROVE  QueueInv'
  BY <1>11, <1>0, QueueFrame
     DEF UpdateKvConnectorOutput, requestVars, queueVars, waveVars
<1>12. ASSUME NEW T \in SUBSET out.transfer, FailIncompleteKvLoads(T)
       PROVE  QueueInv'
  <2> DEFINE late    == {r \in kv_loading \cap states : RowsOf(r) \cap T # {}}
             outcome == [r \in late |-> "ERROR"]
  <2>1. \A x \in DOMAIN outcome : outcome[x] \in Terminal
    BY DEF Terminal
  <2>2. /\ FinishRequests(outcome) /\ UNCHANGED <<states, deferred, phase>>
        /\ phase = "flight"
    BY <1>12 DEF FailIncompleteKvLoads, waveVars
  <2>3. DeferredInLoop'
    BY <2>2, <1>0 DEF DeferredInLoop
  <2> HIDE DEF outcome
  <2> QED BY <2>1, <2>2, <2>3, <1>0, <1>b, FinishMoves
<1>13. ASSUME NEW S \in SUBSET Request, FinishRequestList(S, "ABORTED")
       PROVE  QueueInv'
  <2> DEFINE outcome == [x \in S |-> "ABORTED"]
  <2>1. \A x \in DOMAIN outcome : outcome[x] \in Terminal
    BY DEF Terminal
  <2>2. /\ FinishRequests(outcome) /\ UNCHANGED <<states, deferred, phase>>
        /\ phase # "admit"
    BY <1>13 DEF FinishRequestList, Unlocked, waveVars
  <2>3. DeferredInLoop'
    BY <2>2, <1>0 DEF DeferredInLoop
  <2> HIDE DEF outcome
  <2> QED BY <2>1, <2>2, <2>3, <1>0, <1>b, FinishMoves
<1>14. ASSUME NEW r \in Request, Preempt(r) PROVE QueueInv'
  <2>1. /\ phase # "admit" /\ r \in running /\ r \in states
        /\ running' = running \ {r} /\ waiting' = <<r>> \o waiting
        /\ status' = [status EXCEPT ![r] = "PREEMPTED"]
        /\ UNCHANGED <<states, deferred, phase>>
    BY <1>14 DEF Preempt, Unlocked, waveVars
  <2>2. ~Queuing(r) /\ Unfinished(r)
    BY <2>1, <1>0 DEF QueueParts
  <2>3. <<r>> \in Seq(Request)
    OBVIOUS
  <2>4. \A x : InSeq(x, waiting') <=> x = r \/ InSeq(x, waiting)
    BY <2>1, <2>3, <1>a, InConcat, Singleton
  <2>5. Distinct(waiting')
    <3>1. Distinct(<<r>> \o waiting) <=>
              /\ Distinct(<<r>>) /\ Distinct(waiting)
              /\ \A x : ~(InSeq(x, <<r>>) /\ InSeq(x, waiting))
      BY <2>3, <1>a, DistinctConcat
    <3>2. Distinct(<<r>>) /\ \A x : InSeq(x, <<r>>) <=> x = r
      BY Singleton
    <3>3. Distinct(waiting) /\ ~InSeq(r, waiting)
      BY <2>2, <1>0 DEF QueueParts, Queuing
    <3> QED BY <3>1, <3>2, <3>3, <2>1
  <2>6. \A x \in Request : /\ x # r => status'[x] = status[x]
                           /\ x = r => status'[x] = "PREEMPTED"
    BY <2>1, <1>a
  <2>7. \A x \in Request : Unfinished(x)' <=> Unfinished(x)
    BY <2>1, <2>2, <2>6 DEF Unfinished, IsFinished, Terminal
  <2>8. \A x : Queuing(x)' <=> Queuing(x) \/ x = r
    BY <2>1, <2>4 DEF Queuing
  <2>9. \A x \in states : status'[x] = "RUNNING" <=> x \in running'
    BY <2>1, <2>6, <1>0, <1>a DEF QueueParts
  <2>10. \A x : ~(InSeq(x, deferred) /\ InSeq(x, waiting'))
    BY <2>1, <1>b
  <2> QED BY <2>1, <2>5, <2>7, <2>8, <2>9, <2>10, <1>0
          DEF QueueInv, QueueParts, DeferredInLoop
<1>15. CASE ReleaseKvDrains
  BY <1>15, <1>0, QueueFrame DEF ReleaseKvDrains, requestVars, queueVars, waveVars
<1>16. ASSUME NEW result \in [Scheduled -> Status], UpdateFromOutput(result)
       PROVE  QueueInv'
  <2> DEFINE open     == {r \in Scheduled : r \in states /\ ~IsFinished(r)}
             terminal == [r \in {x \in open : result[x] \in Terminal} |-> result[r]]
  <2>1. \A x \in DOMAIN terminal : terminal[x] \in Terminal
    OBVIOUS
  <2>2. /\ FinishRequests(terminal) /\ UNCHANGED <<states, deferred>>
        /\ phase = "flight" /\ phase' = "idle"
    BY <1>16 DEF UpdateFromOutput
  <2>3. DeferredInLoop'
    BY <2>2, <1>0 DEF DeferredInLoop
  <2> HIDE DEF terminal
  <2> QED BY <2>1, <2>2, <2>3, <1>0, <1>b, FinishMoves
<1>17. ASSUME NEW r \in Request, PopRequestState(r)
       PROVE  QueueInv'
  <2>1. /\ r \in states /\ IsFinished(r) /\ states' = states \ {r}
        /\ UNCHANGED <<status, running, waiting, deferred, phase>>
    BY <1>17 DEF PopRequestState, PendingFinished, SurfacedIsFinished, queueVars
  <2>2. \A x \in Request : Unfinished(x)' <=> Unfinished(x)
    BY <2>1 DEF Unfinished, IsFinished
  <2>3. \A x : Queuing(x)' <=> Queuing(x)
    BY <2>1 DEF Queuing
  <2> QED BY <2>1, <2>2, <2>3, <1>0 DEF QueueInv, QueueParts, DeferredInLoop
<1>18. ASSUME NEW w \in writes, WriteArrives(w) PROVE QueueInv'
  BY <1>18, <1>0, QueueFrame DEF WriteArrives, requestVars, queueVars, waveVars
<1>19. CASE Close
  <2>1. states' = {} /\ waiting' = <<>> /\ deferred' = <<>> /\ running' = {}
    BY <1>19 DEF Close
  <2> QED BY <2>1, <1>0, EmptyQueue
          DEF QueueInv, QueueParts, DeferredInLoop, Queuing, Unfinished
<1>20. CASE DropEnded \/ UNCHANGED vars
  BY <1>20, <1>0, QueueFrame
     DEF DropEnded, vars, requestVars, queueVars, waveVars
<1> QED
  BY <1>1, <1>2, <1>3, <1>4, <1>5, <1>6, <1>7, <1>8, <1>9, <1>10, <1>11, <1>12,
     <1>13, <1>14, <1>15, <1>16, <1>17, <1>18, <1>19, <1>20
     DEF Next, InSchedule, Admission, NativePrefetch

-----------------------------------------------------------------------------
(***************************************************************************)
(* No end of a request is lost.  schedule() moves _finished_req_ids into   *)
(* the output it builds, which is empty until then.                        *)
(***************************************************************************)
NothingReported == phase \in {"idle", "admit"} => out.finished = {}

\* The engine collects what one call surfaced before it schedules again.
ResultInv ==
    /\ TypeOK /\ SurfacedIsFinished /\ SurfacedWhenIdle
    /\ NothingReported /\ NoStrandedResult

\* A step that only finishes requests and reports them.
LEMMA FinishReports ==
    ASSUME ResultInv, NEW outcome, FinishRequests(outcome),
           finished_req_ids' = finished_req_ids \cup Finishing(outcome),
           UNCHANGED <<states, out, surfaced, phase>>
    PROVE  NothingReported' /\ NoStrandedResult'
<1>1. \A x \in Request : x \notin Finishing(outcome) => status'[x] = status[x]
  BY DEF FinishRequests
<1>2. \A x \in states : IsFinished(x)' => IsFinished(x) \/ x \in Finishing(outcome)
  BY <1>1 DEF IsFinished, ResultInv, TypeOK
<1> QED BY <1>2 DEF ResultInv, NothingReported, NoStrandedResult

LEMMA ResultFrame ==
    ASSUME ResultInv,
           UNCHANGED <<states, status, finished_req_ids, surfaced>>,
           out'.finished = out.finished,
           phase \notin {"idle", "admit"} => phase' \notin {"idle", "admit"}
    PROVE  NothingReported' /\ NoStrandedResult'
BY DEF ResultInv, NothingReported, NoStrandedResult, IsFinished

\* A request that starts is not finished.
LEMMA StartReports ==
    ASSUME ResultInv, NEW r \in Request, StartRunning(r),
           UNCHANGED <<states, finished_req_ids, surfaced, phase>>
    PROVE  NothingReported' /\ NoStrandedResult'
<1>1. out'.finished = out.finished
  BY DEF StartRunning, ResultInv, TypeOK, Output
<1>2. \A x \in Request : IsFinished(x)' => IsFinished(x)
  BY DEF StartRunning, IsFinished, Terminal, ResultInv, TypeOK
<1> QED BY <1>1, <1>2 DEF ResultInv, TypeOK, NothingReported, NoStrandedResult

LEMMA ResultStep ==
    ASSUME ResultInv, [Next]_vars PROVE NothingReported' /\ NoStrandedResult'
<1> DEFINE Good == NothingReported' /\ NoStrandedResult'
<1> SUFFICES Good
  OBVIOUS
<1>a. /\ SurfacedIsFinished /\ SurfacedWhenIdle /\ NothingReported /\ NoStrandedResult
      /\ states \subseteq Request /\ status \in [Request -> Status] /\ out \in Output
  BY DEF ResultInv, TypeOK
<1>1. ASSUME NEW r \in Request, NEW s \in Shape, AddRequest(r, s) PROVE Good
  <2>1. \A x \in Request : IsFinished(x)' => IsFinished(x) /\ x # r
    BY <1>1, <1>a DEF AddRequest, IsFinished, Terminal
  <2> QED BY <1>1, <2>1, <1>a DEF AddRequest, waveVars, NothingReported, NoStrandedResult
<1>2. CASE ScheduleBegin
  <2>1. /\ phase = "idle" /\ surfaced = {} /\ out'.finished = {}
        /\ UNCHANGED <<states, status, finished_req_ids>>
    BY <1>2 DEF ScheduleBegin, EmptyOutput, requestVars, queueVars
  <2>2. out.finished = {}
    BY <2>1, <1>a DEF NothingReported
  <2> QED BY <2>1, <2>2, <1>a DEF NothingReported, NoStrandedResult, IsFinished
<1>3. ASSUME NEW r \in Request, AdmitDefer(r) PROVE Good
  BY <1>3, ResultFrame DEF AdmitDefer, requestVars
<1>4. ASSUME NEW r \in Request, AdmitReserved(r) PROVE Good
  BY <1>4, StartReports DEF AdmitReserved
<1>5. ASSUME NEW r \in Request, NEW res \in Reservations(r),
             AdmitNew(r, res)
      PROVE  Good
  BY <1>5, StartReports DEF AdmitNew
<1>6. ASSUME NEW r \in Request, AdmitTooLarge(r) \/ AdmitUnregistered(r)
      PROVE  Good
  <2> DEFINE outcome == [x \in {r} |-> "ERROR"]
  <2>1. /\ FinishRequests(outcome) /\ UNCHANGED <<states, out, surfaced, phase>>
        /\ finished_req_ids' = finished_req_ids \cup {r}
    BY <1>6 DEF AdmitTooLarge, AdmitUnregistered
  <2>2. Finishing(outcome) \subseteq {r}
    BY DEF Finishing
  <2>3. \A x \in Request : x \notin {r} => status'[x] = status[x]
    BY <2>1, <2>2 DEF FinishRequests
  <2>4. \A x \in states : IsFinished(x)' => IsFinished(x) \/ x = r
    BY <2>3, <1>a DEF IsFinished
  <2> QED BY <2>1, <2>4, <1>a DEF NothingReported, NoStrandedResult
<1>7. CASE ScheduleEnd
  <2>1. /\ phase = "admit" /\ phase' \in {"prefetch", "publish"}
        /\ out'.finished = finished_req_ids
        /\ UNCHANGED <<states, status, finished_req_ids, surfaced>>
    BY <1>7, <1>a DEF ScheduleEnd, Output, requestVars
  <2>2. out.finished = {}
    BY <2>1, <1>a DEF NothingReported
  <2> QED BY <2>1, <2>2, <1>a DEF NothingReported, NoStrandedResult, IsFinished
<1>8. ASSUME NEW r \in Request, NEW res \in Reservations(r),
             PrefetchStart(r, res)
      PROVE  Good
  BY <1>8, ResultFrame DEF PrefetchStart, queueVars
<1>9. ASSUME NEW r \in Request, PrefetchUnregistered(r) PROVE Good
  <2> DEFINE outcome == [x \in {r} |-> "ERROR"]
  <2>1. /\ FinishRequests(outcome) /\ UNCHANGED <<states, out, surfaced>>
        /\ finished_req_ids' = finished_req_ids \cup {r} /\ phase' = "publish"
    BY <1>9 DEF PrefetchUnregistered
  <2>2. Finishing(outcome) \subseteq {r}
    BY DEF Finishing
  <2>3. \A x \in Request : x \notin {r} => status'[x] = status[x]
    BY <2>1, <2>2 DEF FinishRequests
  <2>4. \A x \in states : IsFinished(x)' => IsFinished(x) \/ x = r
    BY <2>3, <1>a DEF IsFinished
  <2> QED BY <2>1, <2>4, <1>a DEF NothingReported, NoStrandedResult
<1>10. CASE PrefetchSkip
  BY <1>10, ResultFrame DEF PrefetchSkip, requestVars, queueVars
<1>11. CASE Publish
  <2>1. /\ phase' = "flight" /\ out'.finished = out.finished \cup finished_req_ids
        /\ UNCHANGED <<states, status, surfaced>>
    BY <1>11, <1>a DEF Publish, Published, Output, requestVars
  <2> QED BY <2>1, <1>a DEF NothingReported, NoStrandedResult, IsFinished
<1>12. ASSUME NEW D \in SUBSET arrived, UpdateKvConnectorOutput(D) PROVE Good
  BY <1>12, ResultFrame DEF UpdateKvConnectorOutput, requestVars, queueVars, waveVars
<1>13. ASSUME NEW T \in SUBSET out.transfer, FailIncompleteKvLoads(T) PROVE Good
  BY <1>13, FinishReports DEF FailIncompleteKvLoads, waveVars
<1>14. CASE DropEnded
  <2>1. /\ phase' = phase /\ phase = "flight"
        /\ out'.finished = out.finished \cup Ended
        /\ UNCHANGED <<states, status, finished_req_ids, surfaced>>
    BY <1>14, <1>a DEF DropEnded, Output, requestVars, queueVars
  <2> QED BY <2>1, <1>a DEF NothingReported, NoStrandedResult, IsFinished
<1>15. ASSUME NEW S \in SUBSET Request, FinishRequestList(S, "ABORTED") PROVE Good
  BY <1>15, FinishReports DEF FinishRequestList, waveVars
<1>16. ASSUME NEW r \in Request, Preempt(r) PROVE Good
  <2>1. \A x \in Request : IsFinished(x)' => IsFinished(x)
    BY <1>16, <1>a DEF Preempt, IsFinished, Terminal
  <2> QED BY <1>16, <2>1, <1>a DEF Preempt, waveVars, NothingReported, NoStrandedResult
<1>17. CASE ReleaseKvDrains
  BY <1>17, ResultFrame DEF ReleaseKvDrains, requestVars, queueVars, waveVars
<1>18. ASSUME NEW result \in [Scheduled -> Status], UpdateFromOutput(result)
       PROVE  Good
  <2> DEFINE open     == {r \in Scheduled : r \in states /\ ~IsFinished(r)}
             terminal == [r \in {x \in open : result[x] \in Terminal} |-> result[r]]
             ended    == DOMAIN terminal
  <2>1. /\ FinishRequests(terminal) /\ phase = "flight" /\ states' = states
        /\ out'.finished = {}
        /\ finished_req_ids' = finished_req_ids \cup ended
        /\ surfaced' = Surfaced \cup ended
    BY <1>18 DEF UpdateFromOutput, AllFinished, EmptyOutput
  <2>2. Finishing(terminal) \subseteq ended
    BY DEF Finishing
  <2> HIDE DEF terminal
  <2>3. \A x \in Request : x \notin ended => status'[x] = status[x]
    BY <2>1, <2>2 DEF FinishRequests
  <2>4. \A x \in states : IsFinished(x)' => IsFinished(x) \/ x \in ended
    BY <2>3, <1>a DEF IsFinished
  <2>5. \A x \in states : IsFinished(x) /\ x \in out.finished => x \in surfaced'
    BY <2>1 DEF Surfaced
  <2>6. surfaced = {}
    BY <2>1, <1>a DEF SurfacedWhenIdle
  <2> QED BY <2>1, <2>4, <2>5, <2>6, <1>a DEF NothingReported, NoStrandedResult
<1>19. ASSUME NEW r \in Request, PopRequestState(r) PROVE Good
  <2>1. /\ states' = states \ {r} /\ surfaced' = surfaced \ {r}
        /\ UNCHANGED <<status, finished_req_ids, out, phase>>
    BY <1>19 DEF PopRequestState, queueVars
  <2> QED BY <2>1, <1>a DEF NothingReported, NoStrandedResult, IsFinished
<1>20. ASSUME NEW w \in writes, WriteArrives(w) PROVE Good
  BY <1>20, ResultFrame DEF WriteArrives, requestVars, queueVars, waveVars
<1>21. CASE Close
  BY <1>21 DEF Close, NothingReported, NoStrandedResult
<1>22. CASE UNCHANGED vars
  BY <1>22, ResultFrame DEF vars, requestVars, queueVars, waveVars
<1> QED
  BY <1>1, <1>2, <1>3, <1>4, <1>5, <1>6, <1>7, <1>8, <1>9, <1>10, <1>11, <1>12,
     <1>13, <1>14, <1>15, <1>16, <1>17, <1>18, <1>19, <1>20, <1>21, <1>22
     DEF Next, InSchedule, Admission, NativePrefetch

-----------------------------------------------------------------------------
(***************************************************************************)
(* What a request holds: all of its pages or none.  Pages belong to open   *)
(* requests and to quarantined ones, which is why an id can only be used   *)
(* again when nothing is left of its last use.                             *)
(***************************************************************************)
Whole(r) == \A q \in shape[r].rows : \E b \in Block : <<r, q, b>> \in owned

HoldInv ==
    /\ \A r \in Request : HasPages(r) =>
           Whole(r) /\ (r \in kv_draining \/ Unfinished(r))
    /\ \A r \in running \cup kv_draining : HasPages(r)
    /\ \A r \in kv_draining : IsFinished(r)
    /\ prefetch_id # NoRequest => Queuing(prefetch_id) /\ HasPages(prefetch_id)

LEMMA HoldInit == Init => HoldInv
<1> SUFFICES ASSUME Init PROVE HoldInv
  OBVIOUS
<1>1. owned = {} /\ running = {} /\ kv_draining = {} /\ prefetch_id = NoRequest
  BY DEF Init
<1> QED BY <1>1 DEF HoldInv, HasPages

LEMMA HoldFrame ==
    ASSUME HoldInv,
           UNCHANGED <<states, status, shape, owned, running, kv_draining, prefetch_id>>,
           \A x : Queuing(x) => Queuing(x)'
    PROVE  HoldInv'
BY DEF HoldInv, HasPages, Whole, Unfinished, IsFinished

LEMMA ReleasePages ==
    ASSUME NEW F, owned' = {o \in owned : o[1] \notin F}, shape' = shape
    PROVE  \A r : /\ HasPages(r)' <=> HasPages(r) /\ r \notin F
                  /\ r \notin F /\ Whole(r) => Whole(r)'
<1>1. \A r, q, b : <<r, q, b>>[1] = r
  OBVIOUS
<1> QED BY <1>1 DEF HasPages, Whole

LEMMA ReservePages ==
    ASSUME TypeOK, NEW r \in Request, NEW res \in Reservations(r),
           owned' = owned \cup PagesOf(r, res.own), shape' = shape
    PROVE  /\ HasPages(r)' /\ Whole(r)'
           /\ \A x : x # r => /\ HasPages(x)' <=> HasPages(x)
                              /\ Whole(x) => Whole(x)'
<1> DEFINE a == res.own
<1>1. /\ shape[r].rows # {} /\ \A q \in shape[r].rows : a[q] \in Block
      /\ DOMAIN a = shape[r].rows
  BY ShapeFields, ReservationFields DEF TypeOK, FreeBlocks
<1> HIDE DEF a
<1>2. \A q \in shape[r].rows : <<r, q, a[q]>> \in owned' /\ <<r, q, a[q]>>[1] = r
  BY <1>1 DEF PagesOf, a
<1>3. \A o \in PagesOf(r, res.own) : o[1] = r
  BY DEF PagesOf
<1>4. Whole(r)'
  BY <1>1, <1>2 DEF Whole
<1>5. HasPages(r)'
  BY <1>1, <1>2 DEF HasPages
<1>6. \A x : x # r => (HasPages(x)' <=> HasPages(x))
  BY <1>3 DEF HasPages
<1>7. \A x : Whole(x) => Whole(x)'
  BY DEF Whole
<1> QED BY <1>4, <1>5, <1>6, <1>7

\* Finishing requests frees or quarantines what they hold.
LEMMA FinishHolds ==
    ASSUME PageInv, QueueInv, HoldInv, NEW outcome,
           \A r \in DOMAIN outcome : outcome[r] \in Terminal,
           FinishRequests(outcome), UNCHANGED <<states, shape, deferred>>
    PROVE  HoldInv'
<1> DEFINE done  == Finishing(outcome)
           freed == done \ kv_loading
<1>1. /\ owned' = {o \in owned : o[1] \notin freed}
      /\ running' = running \ done
      /\ kv_draining' = kv_draining \cup (done \cap kv_loading)
      /\ prefetch_id' = IF prefetch_id \in done THEN NoRequest ELSE prefetch_id
      /\ waiting' = Without(waiting, done)
  BY DEF FinishRequests, Releasable, PrefetchAfter
<1>2. \A r : /\ HasPages(r)' <=> HasPages(r) /\ r \notin freed
             /\ r \notin freed /\ Whole(r) => Whole(r)'
  BY <1>1, ReleasePages
<1>3. \A x \in done : Unfinished(x) /\ x \in Request
  BY DEF Finishing, Unfinished, PageInv, TypeOK
<1>4. \A x \in Request : IsFinished(x)' <=> IsFinished(x) \/ x \in done
  BY DEF FinishRequests, IsFinished, Finishing
<1>5. \A x : Queuing(x)' <=> Queuing(x) /\ (InSeq(x, deferred) \/ x \notin done)
  <2>1. waiting \in Seq(Request)
    BY DEF QueueInv, TypeOK
  <2>2. \A x : InSeq(x, waiting') <=> InSeq(x, waiting) /\ x \notin done
    BY <1>1, <2>1, WithoutProperties
  <2> QED BY <2>2 DEF Queuing
<1>6. \A x \in kv_loading : HasPages(x)
  BY DEF PageInv, LoadingIsHeld
<1>7. /\ \A r \in Request : HasPages(r) =>
             Whole(r) /\ (r \in kv_draining \/ Unfinished(r))
      /\ \A r \in running \cup kv_draining : HasPages(r) /\ r \in Request
      /\ \A r \in kv_draining : IsFinished(r) /\ ~Unfinished(r)
      /\ prefetch_id # NoRequest => Queuing(prefetch_id) /\ HasPages(prefetch_id)
  BY DEF HoldInv, PageInv, TypeOK, Unfinished
<1>8. \A x \in Request : Unfinished(x)' <=> Unfinished(x) /\ x \notin done
  BY <1>4 DEF Unfinished
<1> HIDE DEF done
<1>9. \A r \in Request : HasPages(r)' =>
          Whole(r)' /\ (r \in kv_draining' \/ Unfinished(r)')
  BY <1>1, <1>2, <1>7, <1>8
<1>10. \A r \in running' \cup kv_draining' : HasPages(r)'
  BY <1>1, <1>2, <1>3, <1>6, <1>7
<1>11. \A r \in kv_draining' : IsFinished(r)'
  BY <1>1, <1>3, <1>4, <1>7
<1>12. prefetch_id' # NoRequest => Queuing(prefetch_id)' /\ HasPages(prefetch_id)'
  BY <1>1, <1>2, <1>5, <1>7
<1> QED BY <1>9, <1>10, <1>11, <1>12 DEF HoldInv

\* The request at the head of the queue starts with the pages it holds by now.
LEMMA StartHolds ==
    ASSUME QueueInv, HoldInv, NEW r \in Request, AtHead(r), StartRunning(r),
           UNCHANGED <<states, shape, deferred, kv_draining>>,
           HasPages(r)' /\ Whole(r)',
           \A x : x # r => /\ HasPages(x)' <=> HasPages(x)
                           /\ Whole(x) => Whole(x)'
    PROVE  HoldInv'
<1>1. /\ waiting # <<>> /\ waiting \in Seq(Request) /\ r = Head(waiting)
      /\ waiting' = Tail(waiting) /\ running' = running \cup {r} /\ r \in states
      /\ status' = [status EXCEPT ![r] = "RUNNING"]
      /\ prefetch_id' = IF prefetch_id = r THEN NoRequest ELSE prefetch_id
  BY DEF AtHead, StartRunning, QueueInv, TypeOK
<1>2. \A x : InSeq(x, waiting) <=> x = r \/ InSeq(x, waiting')
  BY <1>1, HeadAndTail
<1>3. \A x : x # r /\ Queuing(x) => Queuing(x)'
  BY <1>2 DEF Queuing
<1>4. Queuing(r) /\ Unfinished(r)
  BY <1>2 DEF Queuing, QueueInv, QueueParts
<1>5. \A x \in Request : IsFinished(x)' <=> x # r /\ IsFinished(x)
  BY <1>1 DEF QueueInv, TypeOK, IsFinished, Terminal
<1>6. \A x \in Request : Unfinished(x)' <=> Unfinished(x)
  BY <1>4, <1>5 DEF Unfinished
<1>7. \A x \in kv_draining : x \in Request /\ x # r
  BY <1>4 DEF HoldInv, QueueInv, TypeOK, Unfinished
<1>8. \A x \in Request : HasPages(x)' =>
          Whole(x)' /\ (x \in kv_draining' \/ Unfinished(x)')
  BY <1>4, <1>6 DEF HoldInv
<1>9. \A x \in running' \cup kv_draining' : HasPages(x)'
  BY <1>1, <1>7 DEF HoldInv
<1>10. \A x \in kv_draining' : IsFinished(x)'
  BY <1>5, <1>7 DEF HoldInv
<1>11. prefetch_id' # NoRequest => Queuing(prefetch_id)' /\ HasPages(prefetch_id)'
  <2> SUFFICES ASSUME prefetch_id' # NoRequest
               PROVE  Queuing(prefetch_id)' /\ HasPages(prefetch_id)'
    OBVIOUS
  <2>1. prefetch_id' = prefetch_id /\ prefetch_id # r
    BY <1>1
  <2>2. Queuing(prefetch_id) /\ HasPages(prefetch_id)
    BY <2>1 DEF HoldInv
  <2>3. HasPages(prefetch_id)'
    BY <2>1, <2>2 DEF HasPages
  <2>4. Queuing(prefetch_id)'
    BY <2>1, <2>2, <1>3 DEF Queuing
  <2> QED BY <2>3, <2>4
<1> QED BY <1>8, <1>9, <1>10, <1>11 DEF HoldInv

LEMMA HoldStep ==
    ASSUME PageInv, QueueInv, HoldInv, [Next]_vars PROVE HoldInv'
<1>a. /\ TypeOK /\ QueueParts /\ DeferredInLoop /\ SurfacedIsFinished
      /\ waiting \in Seq(Request) /\ deferred \in Seq(Request)
      /\ states \subseteq Request /\ running \subseteq Request
      /\ kv_draining \subseteq Request /\ status \in [Request -> Status]
      /\ shape \in [Request -> Shape]
  BY DEF QueueInv, PageInv, TypeOK
<1>b. /\ \A r \in Request : HasPages(r) =>
             Whole(r) /\ (r \in kv_draining \/ Unfinished(r))
      /\ \A r \in running \cup kv_draining : HasPages(r)
      /\ \A r \in kv_draining : IsFinished(r)
      /\ prefetch_id # NoRequest => Queuing(prefetch_id) /\ HasPages(prefetch_id)
  BY DEF HoldInv
<1>c. \A x \in running : Unfinished(x)
  BY <1>a DEF QueueParts
<1>d. \A x \in kv_draining : ~Unfinished(x)
  BY <1>b DEF Unfinished
<1>e. prefetch_id # NoRequest => prefetch_id \in Request /\ Unfinished(prefetch_id)
  BY <1>a, <1>b DEF QueueParts, TypeOK
<1>1. ASSUME NEW r \in Request, NEW s \in Shape, AddRequest(r, s)
      PROVE  HoldInv'
  <2>1. /\ r \notin states /\ r \notin kv_draining /\ waiting' = Append(waiting, r)
        /\ states' = states \cup {r}
        /\ status' = [status EXCEPT ![r] = "WAITING"]
        /\ shape' = [shape EXCEPT ![r] = s]
        /\ UNCHANGED <<owned, running, deferred, kv_draining, prefetch_id>>
    BY <1>1 DEF AddRequest, Admissible, pageVars, kvVars, waveVars
  <2>2. ~Unfinished(r) /\ ~HasPages(r)
    BY <2>1, <1>b DEF Unfinished
  <2>3. \A x : InSeq(x, waiting') <=> InSeq(x, waiting) \/ x = r
    BY <2>1, <1>a, InAppend
  <2>4. \A x : Queuing(x) => Queuing(x)'
    BY <2>1, <2>3 DEF Queuing
  <2>5. \A x : HasPages(x)' <=> HasPages(x)
    BY <2>1 DEF HasPages
  <2>6. \A x \in Request : x # r =>
            /\ IsFinished(x)' <=> IsFinished(x)
            /\ Unfinished(x)' <=> Unfinished(x)
            /\ Whole(x)' <=> Whole(x)
    BY <2>1, <1>a DEF IsFinished, Unfinished, Whole
  <2> QED BY <2>1, <2>2, <2>4, <2>5, <2>6, <1>a, <1>b DEF HoldInv
<1>2. CASE ScheduleBegin
  <2>1. \A x : Queuing(x)' <=> Queuing(x)
    BY <1>2, <1>a DEF ScheduleBegin, queueVars, DeferredInLoop, Queuing
  <2> QED BY <1>2, <2>1, HoldFrame
          DEF ScheduleBegin, requestVars, queueVars, pageVars, kvVars
<1>3. ASSUME NEW r \in Request, AdmitDefer(r) PROVE HoldInv'
  <2>1. /\ waiting # <<>> /\ r = Head(waiting) /\ waiting' = Tail(waiting)
        /\ deferred' = Append(deferred, r)
    BY <1>3 DEF AdmitDefer, AtHead
  <2>2. \A x : InSeq(x, waiting) <=> x = r \/ InSeq(x, waiting')
    BY <2>1, <1>a, HeadAndTail
  <2>3. \A x : InSeq(x, deferred') <=> InSeq(x, deferred) \/ x = r
    BY <2>1, <1>a, InAppend
  <2>4. \A x : Queuing(x)' <=> Queuing(x)
    BY <2>2, <2>3 DEF Queuing
  <2> QED BY <1>3, <2>4, HoldFrame DEF AdmitDefer, requestVars, pageVars, kvVars
<1>4. ASSUME NEW r \in Request, AdmitReserved(r) PROVE HoldInv'
  <2>1. /\ AtHead(r) /\ StartRunning(r) /\ HasPages(r)
        /\ UNCHANGED <<states, shape, deferred, kv_draining, owned>>
    BY <1>4 DEF AdmitReserved, pageVars
  <2>2. \A x : (HasPages(x)' <=> HasPages(x)) /\ (Whole(x)' <=> Whole(x))
    BY <2>1 DEF HasPages, Whole
  <2>3. HasPages(r)' /\ Whole(r)'
    BY <2>1, <2>2, <1>b
  <2> QED BY <2>1, <2>2, <2>3, StartHolds
<1>5. ASSUME NEW r \in Request, NEW res \in Reservations(r),
             AdmitNew(r, res)
      PROVE  HoldInv'
  <2>1. /\ AtHead(r) /\ StartRunning(r) /\ owned' = owned \cup PagesOf(r, res.own)
        /\ UNCHANGED <<states, shape, deferred, kv_draining>>
    BY <1>5 DEF AdmitNew, Reserve
  <2>2. /\ HasPages(r)' /\ Whole(r)'
        /\ \A x : x # r => /\ HasPages(x)' <=> HasPages(x)
                           /\ Whole(x) => Whole(x)'
    BY <2>1, <1>a, ReservePages
  <2> QED BY <2>1, <2>2, StartHolds
<1>6. ASSUME NEW r \in Request, AdmitTooLarge(r) \/ AdmitUnregistered(r)
                                \/ PrefetchUnregistered(r)
      PROVE  HoldInv'
  <2> DEFINE outcome == [x \in {r} |-> "ERROR"]
  <2>1. \A x \in DOMAIN outcome : outcome[x] \in Terminal
    BY DEF Terminal
  <2>2. FinishRequests(outcome) /\ UNCHANGED <<states, shape, deferred>>
    BY <1>6 DEF AdmitTooLarge, AdmitUnregistered, PrefetchUnregistered
  <2> HIDE DEF outcome
  <2> QED BY <2>1, <2>2, FinishHolds
<1>7. CASE ScheduleEnd
  <2>1. waiting' = deferred \o waiting
    BY <1>7 DEF ScheduleEnd, Requeued
  <2>2. \A x : Queuing(x) => Queuing(x)'
    BY <2>1, <1>a, InConcat DEF Queuing
  <2> QED BY <1>7, <2>2, HoldFrame DEF ScheduleEnd, requestVars, pageVars
<1>8. ASSUME NEW r \in Request, NEW res \in Reservations(r),
             PrefetchStart(r, res)
      PROVE  HoldInv'
  <2>1. /\ waiting # <<>> /\ r = Head(waiting) /\ prefetch_id' = r
        /\ owned' = owned \cup PagesOf(r, res.own)
        /\ UNCHANGED <<states, status, shape, running, waiting, deferred, kv_draining>>
    BY <1>8 DEF PrefetchStart, Prefetchable, Reserve, queueVars
  <2>2. /\ HasPages(r)' /\ Whole(r)'
        /\ \A x : x # r => /\ HasPages(x)' <=> HasPages(x)
                           /\ Whole(x) => Whole(x)'
    BY <2>1, <1>a, ReservePages
  <2>3. Queuing(r) /\ Unfinished(r)
    BY <2>1, <1>a, HeadAndTail DEF Queuing, QueueParts
  <2>4. /\ Queuing(r)'
        /\ \A x \in Request : /\ Unfinished(x)' <=> Unfinished(x)
                              /\ IsFinished(x)' <=> IsFinished(x)
    BY <2>1, <2>3 DEF Queuing, Unfinished, IsFinished
  <2>5. \A x \in Request : HasPages(x)' =>
            Whole(x)' /\ (x \in kv_draining' \/ Unfinished(x)')
    <3>1. Whole(r)' /\ Unfinished(r)'
      BY <2>2, <2>3, <2>4
    <3>2. ASSUME NEW x \in Request, x # r, HasPages(x)'
          PROVE  Whole(x)' /\ (x \in kv_draining' \/ Unfinished(x)')
      <4>1. Whole(x) /\ (x \in kv_draining \/ Unfinished(x))
        BY <3>2, <2>2, <1>b
      <4>2. kv_draining' = kv_draining
        BY <2>1
      <4> QED BY <4>1, <4>2, <3>2, <2>2, <2>4
    <3> QED BY <3>1, <3>2
  <2>6. \A x \in running' \cup kv_draining' : HasPages(x)'
    BY <2>1, <2>2, <1>b
  <2>7. \A x \in kv_draining' : IsFinished(x)'
    BY <2>1, <2>4, <1>a, <1>b
  <2>8. Queuing(prefetch_id)' /\ HasPages(prefetch_id)'
    <3>1. Queuing(prefetch_id)'
      BY <2>1, <2>3 DEF Queuing
    <3>2. \E o \in owned' : o[1] = prefetch_id'
      BY <2>1, <2>2 DEF HasPages
    <3> QED BY <3>1, <3>2 DEF HasPages
  <2> QED BY <2>5, <2>6, <2>7, <2>8 DEF HoldInv
<1>9. CASE PrefetchSkip \/ Publish \/ DropEnded \/ UNCHANGED vars
  <2>1. UNCHANGED <<states, status, shape, owned, running, kv_draining, prefetch_id,
                    waiting, deferred>>
    BY <1>9 DEF PrefetchSkip, Publish, DropEnded, vars, requestVars, queueVars,
       pageVars, kvVars, waveVars
  <2> QED BY <2>1, HoldFrame DEF Queuing
<1>10. ASSUME NEW D \in SUBSET arrived, UpdateKvConnectorOutput(D) PROVE HoldInv'
  <2>1. UNCHANGED <<states, status, shape, owned, running, kv_draining, prefetch_id,
                    waiting, deferred>>
    BY <1>10 DEF UpdateKvConnectorOutput, requestVars, queueVars, pageVars, waveVars
  <2> QED BY <2>1, HoldFrame DEF Queuing
<1>11. ASSUME NEW w \in writes, WriteArrives(w) PROVE HoldInv'
  <2>1. UNCHANGED <<states, status, shape, owned, running, kv_draining, prefetch_id,
                    waiting, deferred>>
    BY <1>11 DEF WriteArrives, requestVars, queueVars, pageVars, kvVars, waveVars
  <2> QED BY <2>1, HoldFrame DEF Queuing
<1>12. ASSUME NEW T \in SUBSET out.transfer, FailIncompleteKvLoads(T) PROVE HoldInv'
  <2> DEFINE late    == {r \in kv_loading \cap states : RowsOf(r) \cap T # {}}
             outcome == [r \in late |-> "ERROR"]
  <2>1. \A x \in DOMAIN outcome : outcome[x] \in Terminal
    BY DEF Terminal
  <2>2. FinishRequests(outcome) /\ UNCHANGED <<states, shape, deferred>>
    BY <1>12 DEF FailIncompleteKvLoads, waveVars
  <2> HIDE DEF outcome
  <2> QED BY <2>1, <2>2, FinishHolds
<1>13. ASSUME NEW S \in SUBSET Request, FinishRequestList(S, "ABORTED") PROVE HoldInv'
  <2> DEFINE outcome == [x \in S |-> "ABORTED"]
  <2>1. \A x \in DOMAIN outcome : outcome[x] \in Terminal
    BY DEF Terminal
  <2>2. FinishRequests(outcome) /\ UNCHANGED <<states, shape, deferred>>
    BY <1>13 DEF FinishRequestList, waveVars
  <2> HIDE DEF outcome
  <2> QED BY <2>1, <2>2, FinishHolds
<1>14. ASSUME NEW r \in Request, Preempt(r) PROVE HoldInv'
  <2>1. /\ r \in running /\ running' = running \ {r} /\ waiting' = <<r>> \o waiting
        /\ status' = [status EXCEPT ![r] = "PREEMPTED"]
        /\ UNCHANGED <<states, shape, owned, deferred, kv_draining, prefetch_id>>
    BY <1>14 DEF Preempt, pageVars, kvVars, waveVars
  <2>2. \A x : InSeq(x, waiting) => InSeq(x, waiting')
    <3>1. <<r>> \in Seq(Request)
      OBVIOUS
    <3> QED BY <2>1, <3>1, <1>a, InConcat
  <2>3. \A x : Queuing(x) => Queuing(x)'
    BY <2>1, <2>2 DEF Queuing
  <2>4. \A x \in Request : /\ IsFinished(x)' <=> IsFinished(x)
                           /\ Unfinished(x)' <=> Unfinished(x)
    BY <2>1, <1>a, <1>c DEF IsFinished, Unfinished, Terminal
  <2>5. \A x : (HasPages(x)' <=> HasPages(x)) /\ (Whole(x)' <=> Whole(x))
    BY <2>1 DEF HasPages, Whole
  <2> QED BY <2>1, <2>3, <2>4, <2>5, <1>a, <1>b DEF HoldInv
<1>15. CASE ReleaseKvDrains
  <2> DEFINE D == kv_draining \ kv_loading
  <2>1. /\ owned' = {o \in owned : o[1] \notin D} /\ kv_draining' = kv_draining \ D
        /\ UNCHANGED <<states, status, shape, running, waiting, deferred, prefetch_id>>
    BY <1>15 DEF ReleaseKvDrains, CompletedKvDrains, requestVars, queueVars, waveVars
  <2>2. \A x : /\ HasPages(x)' <=> HasPages(x) /\ x \notin D
               /\ x \notin D /\ Whole(x) => Whole(x)'
    BY <2>1, ReleasePages
  <2>3. \A x \in D : ~Unfinished(x)
    BY <1>d
  <2>4. \A x : /\ Unfinished(x)' <=> Unfinished(x)
               /\ IsFinished(x)' <=> IsFinished(x)
               /\ Queuing(x)' <=> Queuing(x)
    BY <2>1 DEF Unfinished, IsFinished, Queuing
  <2> HIDE DEF D
  <2> QED BY <2>1, <2>2, <2>3, <2>4, <1>b, <1>c, <1>e DEF HoldInv
<1>16. ASSUME NEW result \in [Scheduled -> Status], UpdateFromOutput(result)
       PROVE  HoldInv'
  <2> DEFINE open     == {r \in Scheduled : r \in states /\ ~IsFinished(r)}
             terminal == [r \in {x \in open : result[x] \in Terminal} |-> result[r]]
  <2>1. \A x \in DOMAIN terminal : terminal[x] \in Terminal
    OBVIOUS
  <2>2. FinishRequests(terminal) /\ UNCHANGED <<states, shape, deferred>>
    BY <1>16 DEF UpdateFromOutput
  <2> HIDE DEF terminal
  <2> QED BY <2>1, <2>2, FinishHolds
<1>17. ASSUME NEW r \in Request, PopRequestState(r) PROVE HoldInv'
  <2>1. /\ r \in states /\ IsFinished(r) /\ states' = states \ {r}
        /\ UNCHANGED <<status, shape, owned, running, waiting, deferred, kv_draining,
                       prefetch_id>>
    BY <1>17, <1>a DEF PopRequestState, PendingFinished, SurfacedIsFinished, queueVars,
       kvVars
  <2>2. \A x : Unfinished(x)' <=> Unfinished(x)
    BY <2>1 DEF Unfinished, IsFinished
  <2>3. \A x : /\ HasPages(x)' <=> HasPages(x)
               /\ Whole(x)' <=> Whole(x)
               /\ IsFinished(x)' <=> IsFinished(x)
               /\ Queuing(x)' <=> Queuing(x)
    BY <2>1 DEF HasPages, Whole, IsFinished, Queuing
  <2> QED BY <2>1, <2>2, <2>3, <1>b DEF HoldInv
<1>18. CASE Close
  BY <1>18 DEF Close, HoldInv, HasPages
<1> QED
  BY <1>1, <1>2, <1>3, <1>4, <1>5, <1>6, <1>7, <1>8, <1>9, <1>10, <1>11, <1>12,
     <1>13, <1>14, <1>15, <1>16, <1>17, <1>18
     DEF Next, InSchedule, Admission, NativePrefetch

-----------------------------------------------------------------------------
(***************************************************************************)
(* Which requests run together.  That every running request is in the      *)
(* output being executed is what keeps a step-mode wave in step.           *)
(***************************************************************************)
Compatible(r, s) ==
    IF StepMode THEN \/ shape[r].mixed /\ shape[s].mixed
                     \/ (step[r] = 0) <=> (step[s] = 0)
                ELSE boundary[r] = boundary[s]

BatchInv ==
    /\ phase \notin {"idle", "closed"} => running \subseteq Scheduled
    /\ \A r \in running : shape[r].key = sampling_key
    /\ \A r, s \in running : Compatible(r, s)

LEMMA BatchInit == Init => BatchInv
BY DEF Init, BatchInv

LEMMA BatchFrame ==
    ASSUME BatchInv, UNCHANGED <<running, sampling_key>>,
           \A r \in running : /\ shape'[r] = shape[r] /\ step'[r] = step[r]
                              /\ boundary'[r] = boundary[r],
           phase' \notin {"idle", "closed"} => phase \notin {"idle", "closed"},
           running \cap Scheduled \subseteq Scheduled'
    PROVE  BatchInv'
BY DEF BatchInv, Compatible

\* Fewer requests run.
LEMMA FinishBatch ==
    ASSUME BatchInv, NEW outcome, FinishRequests(outcome),
           UNCHANGED <<shape, step, boundary, out>>,
           phase' = phase \/ phase = "prefetch"
    PROVE  BatchInv'
<1> DEFINE done == Finishing(outcome)
<1>1. /\ running' = running \ done
      /\ sampling_key' = IF running \cap done # {} /\ running \subseteq done
                         THEN NoKey ELSE sampling_key
  BY DEF FinishRequests
<1>2. running' # {} => sampling_key' = sampling_key
  BY <1>1
<1>3. Scheduled' = Scheduled
  BY DEF Scheduled
<1> QED BY <1>1, <1>2, <1>3 DEF BatchInv, Compatible

\* A request starts beside those that run.
LEMMA StartBatch ==
    ASSUME TypeOK, BatchInv, NEW r \in Request, StartRunning(r),
           running # {} => sampling_key = shape[r].key,
           UNCHANGED <<shape, step, phase>>,
           \A s \in running : boundary'[s] = boundary[s],
           \A s \in running : s # r => Compatible(r, s)'
    PROVE  BatchInv'
<1>1. /\ running' = running \cup {r}
      /\ sampling_key' = IF running = {} THEN shape[r].key ELSE sampling_key
      /\ Scheduled' = Scheduled \cup {r}
  BY DEF StartRunning, Scheduled, TypeOK, Output
<1>2. \A s \in running' : shape'[s].key = sampling_key'
  BY <1>1 DEF BatchInv
<1>3. ASSUME NEW s \in running', NEW t \in running' PROVE Compatible(s, t)'
  <2>1. CASE s = t
    BY <2>1 DEF Compatible
  <2>2. CASE s # t /\ s \in running /\ t \in running
    BY <2>2 DEF BatchInv, Compatible
  <2>3. CASE s = r /\ t # r
    BY <2>3, <1>1
  <2>4. CASE s # r /\ t = r
    <3>1. Compatible(r, s)'
      BY <2>4, <1>1
    <3> QED BY <2>4, <3>1 DEF Compatible
  <2> QED BY <2>1, <2>2, <2>3, <2>4, <1>1
<1> QED BY <1>1, <1>2, <1>3 DEF BatchInv

LEMMA BatchStep ==
    ASSUME QueueInv, HoldInv, BatchInv, [Next]_vars PROVE BatchInv'
<1>a. TypeOK /\ QueueParts
  BY DEF QueueInv
<1>b. \A x \in running : x \in states /\ ~IsFinished(x) /\ x \in Request /\ ~Queuing(x)
  BY <1>a DEF QueueParts, Unfinished, TypeOK
<1>1. ASSUME NEW r \in Request, NEW s \in Shape, AddRequest(r, s)
      PROVE  BatchInv'
  <2>1. r \notin running
    BY <1>1, <1>b DEF AddRequest, Admissible
  <2>2. /\ shape' = [shape EXCEPT ![r] = s] /\ step' = [step EXCEPT ![r] = s.start]
        /\ UNCHANGED <<running, sampling_key, boundary, phase, out>>
    BY <1>1 DEF AddRequest, waveVars
  <2>3. \A x \in running : shape'[x] = shape[x] /\ step'[x] = step[x]
    BY <2>1, <2>2, <1>a, <1>b DEF TypeOK
  <2> QED BY <2>2, <2>3, BatchFrame DEF Scheduled
<1>2. CASE ScheduleBegin
  <2>1. /\ out' = [EmptyOutput EXCEPT !.cached = running]
        /\ UNCHANGED <<shape, step, boundary, running, sampling_key>>
    BY <1>2 DEF ScheduleBegin, requestVars, queueVars
  <2>2. running \subseteq Scheduled'
    BY <2>1 DEF Scheduled, EmptyOutput
  <2> QED BY <2>1, <2>2 DEF BatchInv, Compatible
<1>3. ASSUME NEW r \in Request, AdmitDefer(r) PROVE BatchInv'
  BY <1>3, BatchFrame DEF AdmitDefer, requestVars, Scheduled
<1>4. ASSUME NEW r \in Request, AdmitReserved(r) PROVE BatchInv'
  <2>1. /\ CanScheduleWaiting(r) /\ HasPages(r) /\ StartRunning(r)
        /\ UNCHANGED <<shape, step, boundary, phase>>
    BY <1>4 DEF AdmitReserved, AtHead
  <2>2. running # {} => sampling_key = shape[r].key
    BY <2>1 DEF CanScheduleWaiting
  <2>3. ASSUME NEW s \in running PROVE Compatible(r, s)'
    <3>1. CASE StepMode
      BY <2>1, <2>3, <3>1 DEF CanScheduleWaiting, SamePhase, Compatible
    <3>2. CASE ~StepMode
      <4>1. SameBoundary(boundary[r])
        BY <2>1, <2>3, <3>2 DEF CanScheduleWaiting
      <4>2. PICK t \in running : boundary[t] = boundary[r]
        BY <4>1, <2>3 DEF SameBoundary
      <4>3. boundary[t] = boundary[s]
        BY <3>2 DEF BatchInv, Compatible
      <4> QED BY <4>2, <4>3, <3>2, <2>1 DEF Compatible
    <3> QED BY <3>1, <3>2
  <2> QED BY <2>1, <2>2, <2>3, <1>a, StartBatch
<1>5. ASSUME NEW r \in Request, NEW res \in Reservations(r),
             AdmitNew(r, res)
      PROVE  BatchInv'
  <2>1. /\ CanScheduleWaiting(r) /\ StartRunning(r) /\ BoundaryFits(res.boundary)
        /\ boundary' = [boundary EXCEPT ![r] = res.boundary]
        /\ UNCHANGED <<shape, step, phase>>
        /\ waiting # <<>> /\ r = Head(waiting)
    BY <1>5 DEF AdmitNew, AtHead, Reserve
  <2>2. running # {} => sampling_key = shape[r].key
    BY <2>1 DEF CanScheduleWaiting
  <2>3. r \notin running
    BY <2>1, <1>b, HeadAndTail DEF Queuing, QueueInv, TypeOK
  <2>4. /\ \A s \in running : boundary'[s] = boundary[s]
        /\ boundary'[r] = res.boundary
    BY <2>1, <2>3, <1>a, <1>b DEF TypeOK
  <2>5. ASSUME NEW s \in running PROVE Compatible(r, s)'
    <3>1. CASE StepMode
      BY <2>1, <2>5, <3>1 DEF CanScheduleWaiting, SamePhase, Compatible
    <3>2. CASE ~StepMode
      <4>1. PICK t \in running : boundary[t] = res.boundary
        BY <2>1, <2>5, <3>2 DEF BoundaryFits, SameBoundary
      <4>2. boundary[t] = boundary[s]
        BY <3>2 DEF BatchInv, Compatible
      <4> QED BY <4>1, <4>2, <3>2, <2>4 DEF Compatible
    <3> QED BY <3>1, <3>2
  <2> QED BY <2>1, <2>2, <2>4, <2>5, <1>a, StartBatch
<1>6. ASSUME NEW r \in Request, AdmitTooLarge(r) \/ AdmitUnregistered(r)
      PROVE  BatchInv'
  <2>1. /\ FinishRequests([x \in {r} |-> "ERROR"])
        /\ UNCHANGED <<shape, step, boundary, phase, out>>
    BY <1>6 DEF AdmitTooLarge, AdmitUnregistered
  <2> QED BY <2>1, FinishBatch
<1>7. CASE ScheduleEnd
  <2>1. Scheduled' = Scheduled
    BY <1>7, <1>a DEF ScheduleEnd, Scheduled, TypeOK, Output
  <2> QED BY <1>7, <2>1, BatchFrame DEF ScheduleEnd, requestVars
<1>8. ASSUME NEW r \in Request, NEW res \in Reservations(r),
             PrefetchStart(r, res)
      PROVE  BatchInv'
  <2>1. /\ boundary' = [boundary EXCEPT ![r] = res.boundary] /\ phase = "prefetch"
        /\ waiting # <<>> /\ r = Head(waiting)
        /\ UNCHANGED <<shape, step, running, sampling_key, out>>
    BY <1>8 DEF PrefetchStart, Prefetchable, Reserve, queueVars
  <2>2. r \notin running
    BY <2>1, <1>b, HeadAndTail DEF Queuing, QueueInv, TypeOK
  <2>3. \A s \in running : boundary'[s] = boundary[s]
    BY <2>1, <2>2, <1>a, <1>b DEF TypeOK
  <2> QED BY <2>1, <2>3, BatchFrame DEF Scheduled
<1>9. ASSUME NEW r \in Request, PrefetchUnregistered(r) PROVE BatchInv'
  <2>1. /\ FinishRequests([x \in {r} |-> "ERROR"]) /\ phase = "prefetch"
        /\ UNCHANGED <<shape, step, boundary, out>>
    BY <1>9 DEF PrefetchUnregistered, Prefetchable
  <2> QED BY <2>1, FinishBatch
<1>10. CASE PrefetchSkip
  BY <1>10, BatchFrame DEF PrefetchSkip, requestVars, queueVars, Scheduled
<1>11. CASE Publish
  <2>1. Scheduled' = Scheduled
    BY <1>11, <1>a DEF Publish, Scheduled, TypeOK, Output
  <2> QED BY <1>11, <2>1, BatchFrame DEF Publish, requestVars
<1>12. ASSUME NEW D \in SUBSET arrived, UpdateKvConnectorOutput(D) PROVE BatchInv'
  BY <1>12, BatchFrame
     DEF UpdateKvConnectorOutput, requestVars, queueVars, waveVars, Scheduled
<1>13. ASSUME NEW T \in SUBSET out.transfer, FailIncompleteKvLoads(T) PROVE BatchInv'
  <2> DEFINE late    == {r \in kv_loading \cap states : RowsOf(r) \cap T # {}}
             outcome == [r \in late |-> "ERROR"]
  <2>1. FinishRequests(outcome) /\ UNCHANGED <<shape, step, boundary, phase, out>>
    BY <1>13 DEF FailIncompleteKvLoads, waveVars
  <2> HIDE DEF outcome
  <2> QED BY <2>1, FinishBatch
<1>14. CASE DropEnded
  <2>1. /\ Scheduled' = Scheduled \ Ended
        /\ UNCHANGED <<shape, step, boundary, running, sampling_key, phase>>
    BY <1>14, <1>a DEF DropEnded, Scheduled, TypeOK, Output, requestVars, queueVars
  <2>2. running \cap Scheduled \subseteq Scheduled'
    BY <2>1, <1>b DEF Ended
  <2> QED BY <2>1, <2>2, BatchFrame
<1>15. ASSUME NEW S \in SUBSET Request, FinishRequestList(S, "ABORTED") PROVE BatchInv'
  <2>1. /\ FinishRequests([x \in S |-> "ABORTED"])
        /\ UNCHANGED <<shape, step, boundary, phase, out>>
    BY <1>15 DEF FinishRequestList, waveVars
  <2> QED BY <2>1, FinishBatch
<1>16. ASSUME NEW r \in Request, Preempt(r) PROVE BatchInv'
  <2>1. /\ running' = running \ {r} /\ r \in running
        /\ sampling_key' = IF running = {r} THEN NoKey ELSE sampling_key
        /\ UNCHANGED <<shape, step, boundary, phase, out>>
    BY <1>16 DEF Preempt, waveVars
  <2>2. running' # {} => sampling_key' = sampling_key
    BY <2>1
  <2> QED BY <2>1, <2>2 DEF BatchInv, Compatible, Scheduled
<1>17. CASE ReleaseKvDrains
  BY <1>17, BatchFrame DEF ReleaseKvDrains, requestVars, queueVars, waveVars, Scheduled
<1>18. ASSUME NEW result \in [Scheduled -> Status],
              \A r \in Scheduled : result[r] \in Results(r), UpdateFromOutput(result)
       PROVE  BatchInv'
  <2> DEFINE open     == {r \in Scheduled : r \in states /\ ~IsFinished(r)}
             terminal == [r \in {x \in open : result[x] \in Terminal} |-> result[r]]
  <2>1. /\ phase = "flight" /\ phase' = "idle" /\ FinishRequests(terminal)
        /\ step' = [r \in Request |->
                       IF StepMode /\ r \in open /\ result[r] \in {"RUNNING", "COMPLETED"}
                       THEN step[r] + 1 ELSE step[r]]
        /\ UNCHANGED <<shape, boundary>>
    BY <1>18 DEF UpdateFromOutput
  <2>2. running \subseteq open
    BY <2>1, <1>b DEF BatchInv
  <2>3. \A x \in open : result[x] \in Terminal => x \in Finishing(terminal)
    BY DEF Finishing
  <2>4. /\ running' = running \ Finishing(terminal)
        /\ running' # {} => sampling_key' = sampling_key
    BY <2>1 DEF FinishRequests
  <2> HIDE DEF terminal
  <2>5. \A x \in running' : result[x] = "RUNNING" /\ x \in open /\ StepMode
    BY <2>2, <2>3, <2>4, <1>18 DEF Results, Terminal
  <2> HIDE DEF open
  <2>6. \A x \in running' : step'[x] = step[x] + 1 /\ step[x] \in Nat
    BY <2>1, <2>4, <2>5, <1>a, <1>b DEF TypeOK
  <2>7. \A x \in running' : step'[x] # 0
    BY <2>6
  <2> QED BY <2>1, <2>4, <2>5, <2>7 DEF BatchInv, Compatible
<1>19. ASSUME NEW r \in Request, PopRequestState(r) PROVE BatchInv'
  BY <1>19, BatchFrame DEF PopRequestState, queueVars, Scheduled
<1>20. ASSUME NEW w \in writes, WriteArrives(w) PROVE BatchInv'
  BY <1>20, BatchFrame DEF WriteArrives, requestVars, queueVars, waveVars, Scheduled
<1>21. CASE Close
  BY <1>21 DEF Close, BatchInv
<1>22. CASE UNCHANGED vars
  BY <1>22, BatchFrame DEF vars, requestVars, queueVars, waveVars, Scheduled
<1> QED
  BY <1>1, <1>2, <1>3, <1>4, <1>5, <1>6, <1>7, <1>8, <1>9, <1>10, <1>11, <1>12,
     <1>13, <1>14, <1>15, <1>16, <1>17, <1>18, <1>19, <1>20, <1>21, <1>22
     DEF Next, InSchedule, Admission, NativePrefetch

-----------------------------------------------------------------------------
(***************************************************************************)
(* Prefix pages.  PrefixesComputed is not inductive: that what a lookup    *)
(* finds was computed needs the index to list nothing else, and that the   *)
(* contents of a page in use stay needs its request to hold it.            *)
(***************************************************************************)
PrefixInv ==
    /\ \A o \in prefixed : HasPages(o[1])
    /\ cached \subseteq filled
    /\ PrefixesComputed

LEMMA PrefixInit == Init => PrefixInv
BY DEF Init, PrefixInv, PrefixesComputed

LEMMA PrefixFrame ==
    ASSUME PrefixInv, UNCHANGED <<shape, boundary, owned, prefixed, cached, filled>>
    PROVE  PrefixInv'
BY DEF PrefixInv, PrefixesComputed, PrefixOf, HasPages

\* Releasing pages, and computing or publishing others.
LEMMA ReleasePrefixes ==
    ASSUME PrefixInv, NEW F, UNCHANGED <<shape, boundary>>,
           owned' = {o \in owned : o[1] \notin F},
           prefixed' = {o \in prefixed : o[1] \notin F},
           filled \subseteq filled', cached' \subseteq filled'
    PROVE  PrefixInv'
<1>1. ASSUME NEW o \in prefixed' PROVE HasPages(o[1])'
  <2>1. o \in prefixed /\ o[1] \notin F
    BY <1>1
  <2>2. PICK p \in owned : p[1] = o[1]
    BY <2>1 DEF PrefixInv, HasPages
  <2> QED BY <2>1, <2>2 DEF HasPages
<1>2. PrefixesComputed'
  BY DEF PrefixInv, PrefixesComputed, PrefixOf
<1> QED BY <1>1, <1>2 DEF PrefixInv

LEMMA FinishPrefixes ==
    ASSUME PrefixInv, NEW outcome, FinishRequests(outcome),
           UNCHANGED <<shape, boundary>>,
           filled \subseteq filled', cached' \subseteq filled'
    PROVE  PrefixInv'
<1> DEFINE freed == Releasable(Finishing(outcome))
<1>1. /\ owned' = {o \in owned : o[1] \notin freed}
      /\ prefixed' = {o \in prefixed : o[1] \notin freed}
  BY DEF FinishRequests
<1> HIDE DEF freed
<1> QED BY <1>1, ReleasePrefixes

\* A page that loses its contents is nobody's.
LEMMA OverwriteKeeps ==
    ASSUME PrefixInv, NEW B, B \subseteq FreeBlocks, Overwrite(B)
    PROVE  /\ cached' \subseteq filled'
           /\ \A o \in prefixed : \A p :
                  <<o[3], p>> \in filled => <<o[3], p>> \in filled'
<1>1. \A o \in prefixed : o[3] \notin B
  BY DEF FreeBlocks
<1>2. cached' \subseteq filled'
  BY DEF Overwrite, PrefixInv
<1> QED BY <1>1, <1>2 DEF Overwrite

\* A reservation behind a cached prefix finds it computed, and takes neither
\* its own hits nor the prefix pages of others for its rows.
LEMMA ReservePrefixes ==
    ASSUME TypeOK, PrefixInv, NEW r \in Request, NEW res \in Reservations(r),
           ~HasPages(r), Reserve(r, res), shape' = shape
    PROVE  PrefixInv'
<1> DEFINE new == PagesOf(r, res.prefix)
<1>1. /\ owned' = owned \cup PagesOf(r, res.own) /\ prefixed' = prefixed \cup new
      /\ boundary' = [boundary EXCEPT ![r] = res.boundary]
      /\ Overwrite(Allocated(res))
  BY DEF Reserve
<1>2. /\ cached' \subseteq filled'
      /\ \A o \in prefixed : \A p :
             <<o[3], p>> \in filled => <<o[3], p>> \in filled'
  BY <1>1, ReservationFields, OverwriteKeeps
<1>3. \A o \in new : /\ o[1] = r /\ o[2] \in DOMAIN res.prefix
                     /\ o[3] = res.prefix[o[2]]
  BY DEF PagesOf
<1>4. \A o \in prefixed : o[1] # r /\ o[1] \in Request
  BY DEF PrefixInv, TypeOK
<1>5. ASSUME NEW o \in prefixed' PROVE HasPages(o[1])'
  <2>1. CASE o \in prefixed
    BY <2>1, <1>1 DEF PrefixInv, HasPages
  <2>2. CASE o \in new
    <3>1. HasPages(r)'
      BY <1>1, ReservePages
    <3> QED BY <3>1, <2>2, <1>3
  <2> QED BY <1>1, <1>5, <2>1, <2>2
<1>6. ASSUME NEW o \in prefixed', boundary'[o[1]] = 1
      PROVE  <<o[3], PrefixOf(o[1], o[2])>> \in filled'
  <2>1. CASE o \in prefixed
    <3>1. boundary[o[1]] = 1
      BY <2>1, <1>1, <1>4, <1>6 DEF TypeOK
    <3>2. <<o[3], PrefixOf(o[1], o[2])>> \in filled
      BY <2>1, <3>1 DEF PrefixInv, PrefixesComputed
    <3> QED BY <2>1, <3>2, <1>2
  <2>2. CASE o \in new
    <3>1. res.boundary = 1
      BY <2>2, <1>1, <1>3, <1>6 DEF TypeOK
    <3>2. <<o[3], PrefixOf(r, o[2])>> \in cached /\ o[3] \notin Allocated(res)
      BY <2>2, <3>1, <1>3, ReservationFields
    <3> QED BY <2>2, <3>2, <1>1, <1>3 DEF PrefixInv, Overwrite
  <2> QED BY <1>1, <1>6, <2>1, <2>2
<1>7. PrefixesComputed'
  BY <1>6 DEF PrefixesComputed, PrefixOf
<1> QED BY <1>2, <1>5, <1>7 DEF PrefixInv

LEMMA PrefixStep ==
    ASSUME TypeOK, HoldInv, PrefixInv, [Next]_vars PROVE PrefixInv'
<1> USE DEF requestVars, queueVars, pageVars, cacheVars
<1>a. cached \subseteq filled
  BY DEF PrefixInv
<1>1. ASSUME NEW r \in Request, NEW s \in Shape, AddRequest(r, s)
      PROVE  PrefixInv'
  <2>1. /\ shape' = [shape EXCEPT ![r] = s]
        /\ UNCHANGED <<boundary, owned, prefixed, cached, filled>>
    BY <1>1 DEF AddRequest
  <2>2. ~HasPages(r)
    BY <1>1 DEF AddRequest, Admissible, HoldInv, Unfinished
  <2>3. \A o \in prefixed : o[1] # r /\ o[1] \in Request
    BY <2>2 DEF PrefixInv, TypeOK
  <2>4. \A o \in prefixed : PrefixOf(o[1], o[2])' = PrefixOf(o[1], o[2])
    BY <2>1, <2>3 DEF PrefixOf, TypeOK
  <2> QED BY <2>1, <2>4 DEF PrefixInv, PrefixesComputed, HasPages
<1>2. ASSUME NEW r \in Request, AdmitDefer(r) \/ AdmitReserved(r)
      PROVE  PrefixInv'
  BY <1>2, PrefixFrame DEF AdmitDefer, AdmitReserved
<1>3. ASSUME NEW r \in Request, NEW res \in Reservations(r),
             AdmitNew(r, res) \/ PrefetchStart(r, res)
      PROVE  PrefixInv'
  <2>1. ~HasPages(r) /\ Reserve(r, res) /\ shape' = shape
    BY <1>3 DEF AdmitNew, PrefetchStart, Prefetchable
  <2> QED BY <2>1, ReservePrefixes
<1>4. ASSUME NEW r \in Request,
             AdmitTooLarge(r) \/ AdmitUnregistered(r) \/ PrefetchUnregistered(r)
      PROVE  PrefixInv'
  <2>1. /\ FinishRequests([x \in {r} |-> "ERROR"])
        /\ UNCHANGED <<shape, boundary, cached, filled>>
    BY <1>4 DEF AdmitTooLarge, AdmitUnregistered, PrefetchUnregistered
  <2> QED BY <2>1, <1>a, FinishPrefixes
<1>5. CASE ScheduleEnd
  <2>1. PICK L \in SUBSET Evictable : Overwrite(L)
    BY <1>5 DEF ScheduleEnd
  <2>2. L \subseteq FreeBlocks
    BY DEF Evictable
  <2>3. UNCHANGED <<shape, boundary, owned, prefixed>>
    BY <1>5 DEF ScheduleEnd
  <2> QED BY <2>1, <2>2, <2>3, OverwriteKeeps
          DEF PrefixInv, PrefixesComputed, PrefixOf, HasPages
<1>6. CASE ScheduleBegin \/ PrefetchSkip \/ Publish \/ DropEnded
  BY <1>6, PrefixFrame DEF ScheduleBegin, PrefetchSkip, Publish, DropEnded
<1>7. ASSUME NEW D, UpdateKvConnectorOutput(D) PROVE PrefixInv'
  BY <1>7, PrefixFrame DEF UpdateKvConnectorOutput
<1>8. ASSUME NEW T, FailIncompleteKvLoads(T) PROVE PrefixInv'
  <2> DEFINE outcome == [r \in {r \in kv_loading \cap states : RowsOf(r) \cap T # {}}
                            |-> "ERROR"]
  <2>1. FinishRequests(outcome) /\ UNCHANGED <<shape, boundary, cached, filled>>
    BY <1>8 DEF FailIncompleteKvLoads
  <2> HIDE DEF outcome
  <2> QED BY <2>1, <1>a, FinishPrefixes
<1>9. ASSUME NEW S, FinishRequestList(S, "ABORTED") PROVE PrefixInv'
  <2>1. /\ FinishRequests([x \in S |-> "ABORTED"])
        /\ UNCHANGED <<shape, boundary, cached, filled>>
    BY <1>9 DEF FinishRequestList
  <2> QED BY <2>1, <1>a, FinishPrefixes
<1>10. ASSUME NEW r \in Request, Preempt(r) \/ PopRequestState(r)
       PROVE  PrefixInv'
  BY <1>10, PrefixFrame DEF Preempt, PopRequestState
<1>11. CASE ReleaseKvDrains
  <2>1. /\ owned' = {o \in owned : o[1] \notin CompletedKvDrains}
        /\ prefixed' = {o \in prefixed : o[1] \notin CompletedKvDrains}
        /\ UNCHANGED <<shape, boundary, cached, filled>>
    BY <1>11 DEF ReleaseKvDrains
  <2> QED BY <2>1, <1>a, ReleasePrefixes
<1>12. ASSUME NEW result, UpdateFromOutput(result) PROVE PrefixInv'
  <2> DEFINE open     == {r \in Scheduled : r \in states /\ ~IsFinished(r)}
             terminal == [r \in {x \in open : result[x] \in Terminal} |-> result[r]]
  <2>1. /\ FinishRequests(terminal) /\ UNCHANGED <<shape, boundary>>
        /\ cached' = cached \cup PrefixesOf(PublishedNow(terminal))
        /\ filled' = filled \cup
               PrefixesOf({r \in DOMAIN terminal : terminal[r] = "COMPLETED"})
    BY <1>12 DEF UpdateFromOutput
  <2> HIDE DEF terminal
  <2>2. filled \subseteq filled' /\ cached' \subseteq filled'
    BY <2>1, <1>a DEF PublishedNow
  <2> QED BY <2>1, <2>2, FinishPrefixes
<1>13. ASSUME NEW w \in writes, WriteArrives(w) PROVE PrefixInv'
  BY <1>13, PrefixFrame DEF WriteArrives
<1>14. CASE Close
  BY <1>14, <1>a DEF Close, PrefixInv, PrefixesComputed
<1>15. CASE UNCHANGED vars
  BY <1>15, PrefixFrame DEF vars
<1> QED
  BY <1>1, <1>2, <1>3, <1>4, <1>5, <1>6, <1>7, <1>8, <1>9, <1>10, <1>11, <1>12,
     <1>13, <1>14, <1>15 DEF Next, InSchedule, Admission, NativePrefetch

-----------------------------------------------------------------------------
(* The theorems.                                                           *)
WholeInv ==
    PageInv /\ QueueInv /\ NothingReported /\ NoStrandedResult /\ HoldInv /\ BatchInv

LEMMA WholeInvariant == Spec => []WholeInv
<1>1. Init => WholeInv
  <2>1. ASSUME Init PROVE NothingReported /\ NoStrandedResult
    BY <2>1 DEF Init, EmptyOutput, NothingReported, NoStrandedResult
  <2> QED BY <2>1, PageInit, QueueInit, HoldInit, BatchInit DEF WholeInv
<1>2. WholeInv /\ [Next]_vars => WholeInv'
  <2> SUFFICES ASSUME WholeInv, [Next]_vars PROVE WholeInv'
    OBVIOUS
  <2>1. PageInv'
    BY PageStep DEF WholeInv
  <2>2. QueueInv'
    BY QueueStep DEF WholeInv, PageInv
  <2>3. NothingReported' /\ NoStrandedResult'
    BY ResultStep DEF WholeInv, PageInv, ResultInv
  <2>4. HoldInv'
    BY HoldStep DEF WholeInv
  <2>5. BatchInv'
    BY BatchStep DEF WholeInv
  <2> QED BY <2>1, <2>2, <2>3, <2>4, <2>5 DEF WholeInv
<1> QED BY <1>1, <1>2, PTL DEF Spec

\* Every open request is in the queue or in the wave, once; no finished one is
\* left in either by the loop, its failures, aborts and preemptions.
THEOREM QueueStaysPartition == Spec => []QueuePartition
<1>1. WholeInv => QueuePartition
  BY QueueIsPartition DEF WholeInv
<1> QED BY <1>1, WholeInvariant, PTL

\* Whenever a request ends, inside schedule() or outside, with or without
\* native prefetch, its id is in a set that is still to be reported.
THEOREM NoResultStranded == Spec => []NoStrandedResult
<1>1. WholeInv => NoStrandedResult
  BY DEF WholeInv
<1> QED BY <1>1, WholeInvariant, PTL

\* A running request has a page for each of its CFG rows, and so has a
\* quarantined one, also when its id was used before with other rows.
THEOREM RowsStayHeld == Spec => []RowsHeld
<1>1. WholeInv => RowsHeld
  <2> SUFFICES ASSUME WholeInv PROVE RowsHeld
    OBVIOUS
  <2>1. \A r \in running \cup kv_draining : r \in Request /\ HasPages(r)
    BY DEF WholeInv, QueueInv, TypeOK, HoldInv
  <2>2. \A r \in running \cup kv_draining : Whole(r)
    BY <2>1 DEF WholeInv, HoldInv
  <2> QED BY <2>2 DEF RowsHeld, Whole, WholeInv, HoldInv
<1> QED BY <1>1, WholeInvariant, PTL

\* The id of the prefetched request never outlives it: native prefetch cannot
\* be disabled by a request that is gone.
THEOREM PrefetchIdStaysLive == Spec => []PrefetchIdLive
<1>1. WholeInv => PrefetchIdLive
  <2> SUFFICES ASSUME WholeInv, prefetch_id # NoRequest
               PROVE  /\ InSeq(prefetch_id, Queue) /\ HasPages(prefetch_id)
                      /\ prefetch_id \in states /\ ~IsFinished(prefetch_id)
    BY DEF PrefetchIdLive
  <2>1. /\ Queuing(prefetch_id) /\ HasPages(prefetch_id) /\ prefetch_id \in Request
        /\ waiting \in Seq(Request) /\ deferred \in Seq(Request)
    BY DEF WholeInv, HoldInv, QueueInv, TypeOK
  <2>2. InSeq(prefetch_id, Queue)
    BY <2>1, InConcat DEF Queue, Queuing
  <2>3. Unfinished(prefetch_id)
    BY <2>1 DEF WholeInv, QueueInv, QueueParts
  <2> QED BY <2>1, <2>2, <2>3 DEF Unfinished
<1> QED BY <1>1, WholeInvariant, PTL

\* A wave never mixes sampling parameters, prefix boundaries (request mode) or
\* first and later steps (step mode), over any number of calls of schedule().
THEOREM BatchStaysHomogeneous == Spec => []BatchHomogeneous
<1>1. WholeInv => BatchHomogeneous
  BY DEF WholeInv, BatchInv, Compatible, BatchHomogeneous
<1> QED BY <1>1, WholeInvariant, PTL
-----------------------------------------------------------------------------
(* What a step of the scheduler may never do.                              *)

\* Pages come back to the pool only when no sender can write them and their
\* request is finished, whichever operation frees them.
THEOREM ReleaseStaysSafe == Spec => ReleaseIsSafe
<1>1. WholeInv /\ [Next]_vars => [FreesSafely]_vars
  <2> SUFFICES ASSUME WholeInv, Next PROVE FreesSafely
    OBVIOUS
  <2>t. TypeOK /\ \A o \in owned : o[1] \in Request
    BY DEF WholeInv, QueueInv, TypeOK
  <2>1. ASSUME NEW outcome, FinishRequests(outcome),
               \A r \in DOMAIN outcome : outcome[r] \in Terminal
        PROVE  FreesSafely
    <3>1. \A o \in owned \ owned' : o[1] \in Finishing(outcome) \ kv_loading
      BY <2>1 DEF FinishRequests, Releasable
    <3>2. \A r \in Request : r \in Finishing(outcome) => status'[r] \in Terminal
      BY <2>1 DEF FinishRequests, Finishing
    <3> QED BY <3>1, <3>2, <2>t DEF FreesSafely
  <2>2. CASE ReleaseKvDrains
    <3>1. \A o \in owned \ owned' : o[1] \in kv_draining \ kv_loading
      BY <2>2 DEF ReleaseKvDrains, CompletedKvDrains
    <3>2. status' = status
      BY <2>2 DEF ReleaseKvDrains, requestVars
    <3>3. \A r \in kv_draining : status[r] \in Terminal
      BY DEF WholeInv, HoldInv, IsFinished
    <3> QED BY <3>1, <3>2, <3>3 DEF FreesSafely
  <2>3. CASE Close
    BY <2>3 DEF Close, FreesSafely
  <2>4. ASSUME owned \subseteq owned' PROVE FreesSafely
    BY <2>4 DEF FreesSafely
  <2>5. CASE \/ \E T \in SUBSET out.transfer : FailIncompleteKvLoads(T)
             \/ \E S \in SUBSET Request : FinishRequestList(S, "ABORTED")
             \/ \E r \in Request : \/ AdmitTooLarge(r)
                                   \/ AdmitUnregistered(r)
                                   \/ PrefetchUnregistered(r)
    <3>1. CASE \E T \in SUBSET out.transfer : FailIncompleteKvLoads(T)
      <4>1. PICK T \in SUBSET out.transfer : FailIncompleteKvLoads(T)
        BY <3>1
      <4> DEFINE late    == {r \in kv_loading \cap states : RowsOf(r) \cap T # {}}
                 outcome == [r \in late |-> "ERROR"]
      <4>2. FinishRequests(outcome)
        BY <4>1 DEF FailIncompleteKvLoads
      <4>3. \A r \in DOMAIN outcome : outcome[r] \in Terminal
        BY DEF Terminal
      <4> HIDE DEF outcome
      <4> QED BY <4>2, <4>3, <2>1
    <3>2. ASSUME NEW S, FinishRequestList(S, "ABORTED") PROVE FreesSafely
      <4>1. FinishRequests([x \in S |-> "ABORTED"])
        BY <3>2 DEF FinishRequestList
      <4> QED BY <4>1, <2>1 DEF Terminal
    <3>3. ASSUME NEW r \in Request,
                 \/ AdmitTooLarge(r)
                 \/ AdmitUnregistered(r)
                 \/ PrefetchUnregistered(r)
          PROVE  FreesSafely
      <4>1. FinishRequests([x \in {r} |-> "ERROR"])
        BY <3>3 DEF AdmitTooLarge, AdmitUnregistered, PrefetchUnregistered
      <4> QED BY <4>1, <2>1 DEF Terminal
    <3> QED BY <2>5, <3>1, <3>2, <3>3
  <2>6. ASSUME NEW result \in [Scheduled -> Status], UpdateFromOutput(result) PROVE FreesSafely
    <3> DEFINE open     == {r \in Scheduled : r \in states /\ ~IsFinished(r)}
               terminal == [r \in {x \in open : result[x] \in Terminal} |-> result[r]]
    <3>1. FinishRequests(terminal)
      BY <2>6 DEF UpdateFromOutput
    <3>2. \A r \in DOMAIN terminal : terminal[r] \in Terminal
      OBVIOUS
    <3> HIDE DEF terminal
    <3> QED BY <3>1, <3>2, <2>1
  <2>7. CASE \/ \E r \in Request, s \in Shape : AddRequest(r, s)
             \/ ScheduleBegin \/ ScheduleEnd \/ PrefetchSkip \/ Publish \/ DropEnded
             \/ \E D \in SUBSET arrived : UpdateKvConnectorOutput(D)
             \/ \E r \in Request : Preempt(r) \/ PopRequestState(r)
                                   \/ AdmitDefer(r) \/ AdmitReserved(r)
             \/ \E w \in writes : WriteArrives(w)
             \/ phase = "closed" /\ UNCHANGED vars
    BY <2>7, <2>4 DEF AddRequest, ScheduleBegin, ScheduleEnd, PrefetchSkip, Publish,
       DropEnded, UpdateKvConnectorOutput, Preempt, PopRequestState, AdmitDefer,
       AdmitReserved, WriteArrives, vars, pageVars
  <2>8. ASSUME NEW r \in Request, NEW res \in Reservations(r),
               AdmitNew(r, res) \/ PrefetchStart(r, res)
        PROVE  FreesSafely
    BY <2>8, <2>4 DEF AdmitNew, PrefetchStart, Reserve
  <2> QED BY <2>2, <2>3, <2>5, <2>6, <2>7, <2>8, <2>1
          DEF Next, InSchedule, Admission, NativePrefetch
<1> QED BY <1>1, WholeInvariant, PTL DEF Spec, ReleaseIsSafe

\* Where the elements of a concatenation stand.
LEMMA AheadConcat ==
    ASSUME NEW S, NEW s \in Seq(S), NEW t \in Seq(S)
    PROVE  \A x, y : Ahead(x, y, s \o t) <=>
                \/ Ahead(x, y, s) \/ Ahead(x, y, t)
                \/ InSeq(x, s) /\ InSeq(y, t)
<1> DEFINE u == s \o t
<1>1. /\ Len(s) \in Nat /\ Len(t) \in Nat /\ Len(u) = Len(s) + Len(t)
      /\ \A i \in 1 .. Len(s) : i \in 1 .. Len(u) /\ u[i] = s[i]
      /\ \A i \in 1 .. Len(t) : Len(s) + i \in 1 .. Len(u) /\ u[Len(s) + i] = t[i]
      /\ \A i \in 1 .. Len(u) : i \in 1 .. Len(s) \/ i - Len(s) \in 1 .. Len(t)
  OBVIOUS
<1> SUFFICES ASSUME NEW x, NEW y
             PROVE  Ahead(x, y, u) <=> \/ Ahead(x, y, s) \/ Ahead(x, y, t)
                                       \/ InSeq(x, s) /\ InSeq(y, t)
  OBVIOUS
<1> HIDE DEF u
<1>2. ASSUME Ahead(x, y, u)
      PROVE  Ahead(x, y, s) \/ Ahead(x, y, t) \/ (InSeq(x, s) /\ InSeq(y, t))
  <2>1. PICK i \in 1 .. Len(u), j \in 1 .. Len(u) : i < j /\ u[i] = x /\ u[j] = y
    BY <1>2 DEF Ahead
  <2> DEFINE m == i - Len(s)
             n == j - Len(s)
  <2>2. /\ i = Len(s) + m /\ j = Len(s) + n /\ (m < n <=> i < j)
        /\ i \in 1 .. Len(s) \/ m \in 1 .. Len(t)
        /\ j \in 1 .. Len(s) \/ n \in 1 .. Len(t)
    BY <1>1
  <2>3. n \in 1 .. Len(t) => t[n] = y
    BY <2>1, <2>2, <1>1
  <2>4. m \in 1 .. Len(t) => t[m] = x
    BY <2>1, <2>2, <1>1
  <2>5. /\ i \in 1 .. Len(s) => s[i] = x
        /\ j \in 1 .. Len(s) => s[j] = y
    BY <2>1, <1>1
  <2>6. m \in 1 .. Len(t) => j \notin 1 .. Len(s)
    BY <2>1, <2>2, <1>1
  <2> HIDE DEF m, n
  <2> QED BY <2>1, <2>2, <2>3, <2>4, <2>5, <2>6 DEF Ahead, InSeq
<1>3. ASSUME Ahead(x, y, s) PROVE Ahead(x, y, u)
  BY <1>3, <1>1 DEF Ahead
<1>4. ASSUME Ahead(x, y, t) PROVE Ahead(x, y, u)
  <2>1. PICK i \in 1 .. Len(t), j \in 1 .. Len(t) : i < j /\ t[i] = x /\ t[j] = y
    BY <1>4 DEF Ahead
  <2>2. Len(s) + i < Len(s) + j
    BY <2>1, <1>1
  <2> QED BY <2>1, <2>2, <1>1 DEF Ahead
<1>5. ASSUME InSeq(x, s), InSeq(y, t) PROVE Ahead(x, y, u)
  <2>1. PICK i \in 1 .. Len(s), j \in 1 .. Len(t) : s[i] = x /\ t[j] = y
    BY <1>5 DEF InSeq
  <2>2. i < Len(s) + j
    BY <2>1, <1>1
  <2> QED BY <2>1, <2>2, <1>1 DEF Ahead
<1> QED BY <1>2, <1>3, <1>4, <1>5

LEMMA AheadIsIn == \A x, y, s : Ahead(x, y, s) => InSeq(x, s) /\ InSeq(y, s)
BY DEF Ahead, InSeq

\* Dropping finished requests keeps the order of the others.
LEMMA WithoutKeepsOrder ==
    ASSUME NEW S, NEW s \in Seq(S), NEW F, NEW x, NEW y, x \notin F, y \notin F,
           Ahead(x, y, s)
    PROVE  Ahead(x, y, Without(s, F))
<1> DEFINE K == Kept(s, F)
           n == Cardinality(K)
           at(k) == CHOOSE i \in K : Rank(K, i) = k
           t == Without(s, F)
<1>1. /\ n \in Nat
      /\ \A i \in K : Rank(K, i) \in 1 .. n
      /\ \A i, j \in K : i < j => Rank(K, i) < Rank(K, j)
      /\ \A k \in 1 .. n : at(k) \in K /\ Rank(K, at(k)) = k
  BY RankIsOntoKept
<1>2. t = [k \in 1 .. n |-> s[at(k)]]
  BY DEF Without
<1>3. \A i \in K : i \in Int /\ s[i] \in S
  BY DEF Kept
<1> HIDE DEF n, at, t
<1>4. Len(t) = n
  <2>1. t \in Seq(S) /\ DOMAIN t = 1 .. n
    BY <1>1, <1>2, <1>3
  <2> QED BY <2>1, <1>1
<1>5. PICK i \in 1 .. Len(s), j \in 1 .. Len(s) : i < j /\ s[i] = x /\ s[j] = y
  BY DEF Ahead
<1>6. i \in K /\ j \in K
  BY <1>5 DEF Kept
<1> HIDE DEF K
<1>7. ASSUME NEW m \in K PROVE at(Rank(K, m)) = m
  <2>1. PICK k \in K : k = at(Rank(K, m)) /\ Rank(K, k) = Rank(K, m)
    BY <1>7, <1>1
  <2>2. k \in Int /\ m \in Int /\ Rank(K, m) \in Int
    BY <1>1, <1>3
  <2>3. ~(k < m) /\ ~(m < k)
    BY <2>1, <2>2, <1>1
  <2> QED BY <2>1, <2>2, <2>3
<1>8. /\ Rank(K, i) \in 1 .. n /\ Rank(K, j) \in 1 .. n /\ Rank(K, i) < Rank(K, j)
      /\ t[Rank(K, i)] = x /\ t[Rank(K, j)] = y
  BY <1>1, <1>2, <1>5, <1>6, <1>7
<1> QED BY <1>4, <1>8 DEF Ahead, t

\* Requests that stay in the queue keep their order: neither the requests set
\* aside by schedule() nor those that end, start or are preempted change it.
THEOREM OrderIsFifo == Spec => FifoOrder
<1>1. WholeInv /\ [Next]_vars => [KeepsOrder]_vars
  <2> SUFFICES ASSUME WholeInv, Next PROVE KeepsOrder
    OBVIOUS
  <2>a. /\ waiting \in Seq(Request) /\ deferred \in Seq(Request) /\ QueueInv
        /\ QueueParts /\ DeferredInLoop
    BY DEF WholeInv, QueueInv, TypeOK
  <2>b. \A x, y : Ahead(x, y, Queue) <=>
            \/ Ahead(x, y, deferred) \/ Ahead(x, y, waiting)
            \/ InSeq(x, deferred) /\ InSeq(y, waiting)
    BY <2>a, AheadConcat DEF Queue
  <2>c. \A x : InSeq(x, Queue) <=> InSeq(x, deferred) \/ InSeq(x, waiting)
    BY <2>a, InConcat DEF Queue
  <2>1. ASSUME Queue' = Queue PROVE KeepsOrder
    BY <2>1 DEF KeepsOrder
  <2>2. ASSUME NEW outcome, FinishRequests(outcome), deferred' = deferred,
               \A r \in Finishing(outcome) : ~InSeq(r, deferred)
        PROVE  KeepsOrder
    <3> DEFINE done == Finishing(outcome)
    <3>1. waiting' = Without(waiting, done)
      BY <2>2 DEF FinishRequests
    <3> HIDE DEF done
    <3>2. /\ waiting' \in Seq(Request)
          /\ \A x : InSeq(x, waiting') <=> InSeq(x, waiting) /\ x \notin done
      BY <3>1, <2>a, WithoutProperties
    <3>3. \A x, y : x \notin done /\ y \notin done /\ Ahead(x, y, waiting)
                     => Ahead(x, y, waiting')
      BY <3>1, <2>a, WithoutKeepsOrder
    <3>4. \A x, y : Ahead(x, y, Queue') <=>
              \/ Ahead(x, y, deferred) \/ Ahead(x, y, waiting')
              \/ InSeq(x, deferred) /\ InSeq(y, waiting')
      BY <3>2, <2>a, <2>2, AheadConcat DEF Queue
    <3>5. \A x : InSeq(x, Queue') <=> InSeq(x, deferred) \/ InSeq(x, waiting')
      BY <3>2, <2>a, <2>2, InConcat DEF Queue
    <3>6. \A x : InSeq(x, Queue') => x \notin done
      BY <3>2, <3>5, <2>2 DEF done
    <3>7. \A x, y : Ahead(x, y, Queue) /\ x \notin done /\ y \notin done
                     => Ahead(x, y, Queue')
      BY <2>b, <3>2, <3>3, <3>4
    <3> QED BY <3>6, <3>7 DEF KeepsOrder
  <2>d. phase # "admit" => \A x : ~InSeq(x, deferred)
    BY <2>a, EmptyQueue DEF DeferredInLoop
  <2>3. ASSUME NEW r \in Request, NEW s \in Shape, AddRequest(r, s) PROVE KeepsOrder
    <3>1. /\ waiting' = waiting \o <<r>> /\ deferred' = deferred /\ <<r>> \in Seq(Request)
      BY <2>3, <2>a DEF AddRequest, waveVars
    <3>2. Queue' = Queue \o <<r>> /\ Queue \in Seq(Request)
      BY <3>1, <2>a DEF Queue
    <3>3. \A x, y : Ahead(x, y, Queue) => Ahead(x, y, Queue \o <<r>>)
      BY <3>1, <3>2, AheadConcat
    <3> QED BY <3>2, <3>3 DEF KeepsOrder
  <2>4. ASSUME NEW r \in Request, AdmitDefer(r) PROVE KeepsOrder
    <3>1. /\ waiting = <<r>> \o Tail(waiting) /\ waiting' = Tail(waiting)
          /\ deferred' = deferred \o <<r>>
          /\ Tail(waiting) \in Seq(Request) /\ <<r>> \in Seq(Request)
      BY <2>4, <2>a, HeadAndTail DEF AdmitDefer, AtHead
    <3>2. (deferred \o <<r>>) \o Tail(waiting) = deferred \o (<<r>> \o Tail(waiting))
      BY <3>1, <2>a
    <3> QED BY <3>1, <3>2, <2>1 DEF Queue
  <2>5. ASSUME NEW r \in Request, AtHead(r), StartRunning(r), deferred' = deferred
        PROVE  KeepsOrder
    <3>1. /\ waiting = <<r>> \o waiting' /\ waiting' \in Seq(Request)
          /\ <<r>> \in Seq(Request) /\ r = Head(waiting) /\ waiting # <<>>
      BY <2>5, <2>a, HeadAndTail DEF AtHead, StartRunning
    <3>2. ~InSeq(r, deferred) /\ ~InSeq(r, waiting')
      <4>1. waiting # <<>> /\ r = Head(waiting) /\ waiting' = Tail(waiting)
        BY <2>5 DEF AtHead, StartRunning
      <4>2. Distinct(waiting) <=> Distinct(waiting') /\ ~InSeq(r, waiting')
        BY ONLY <4>1, <2>a, HeadAndTail
      <4> QED BY <4>1, <4>2, <2>a, HeadIsNotDeferred DEF QueueParts
    <3>3. \A x, y : Ahead(x, y, waiting) <=>
              \/ Ahead(x, y, <<r>>) \/ Ahead(x, y, waiting')
              \/ InSeq(x, <<r>>) /\ InSeq(y, waiting')
      BY <3>1, AheadConcat
    <3>4. \A x, y : /\ InSeq(x, <<r>>) <=> x = r
                    /\ Ahead(x, y, <<r>>) => x = r
      BY Singleton, AheadIsIn
    <3>5. \A x : /\ InSeq(x, waiting) <=> x = r \/ InSeq(x, waiting')
                 /\ InSeq(x, Queue') <=> InSeq(x, deferred) \/ InSeq(x, waiting')
      <4>1. \A x : InSeq(x, waiting) <=> InSeq(x, <<r>>) \/ InSeq(x, waiting')
        BY <3>1, InConcat
      <4>2. \A x : InSeq(x, Queue') <=> InSeq(x, deferred) \/ InSeq(x, waiting')
        BY <3>1, <2>a, <2>5, InConcat DEF Queue
      <4> QED BY <4>1, <4>2, <3>4
    <3>6. \A x, y : Ahead(x, y, Queue') <=>
              \/ Ahead(x, y, deferred) \/ Ahead(x, y, waiting')
              \/ InSeq(x, deferred) /\ InSeq(y, waiting')
      BY <3>1, <2>a, <2>5, AheadConcat DEF Queue
    <3>7. ~InSeq(r, Queue')
      BY <3>2, <3>5
    <3>8. \A x, y : Ahead(x, y, Queue) /\ x # r /\ y # r => Ahead(x, y, Queue')
      BY <2>b, <3>3, <3>4, <3>5, <3>6
    <3> QED BY <3>7, <3>8 DEF KeepsOrder
  <2>6. ASSUME NEW r \in Request, AdmitReserved(r) PROVE KeepsOrder
    BY <2>6, <2>5 DEF AdmitReserved
  <2>7. ASSUME NEW r \in Request, NEW res \in Reservations(r),
               AdmitNew(r, res)
        PROVE  KeepsOrder
    BY <2>7, <2>5 DEF AdmitNew
  <2>8. ASSUME NEW r \in Request,
               AdmitTooLarge(r) \/ AdmitUnregistered(r)
        PROVE  KeepsOrder
    <3>1. /\ FinishRequests([x \in {r} |-> "ERROR"]) /\ deferred' = deferred
          /\ waiting # <<>> /\ r = Head(waiting)
      BY <2>8 DEF AdmitTooLarge, AdmitUnregistered, AtHead
    <3>2. ~InSeq(r, deferred)
      BY <3>1, <2>a, HeadIsNotDeferred
    <3> QED BY <3>1, <3>2, <2>2 DEF Finishing
  <2>9. CASE ScheduleEnd
    <3>1. Queue' = <<>> \o Queue /\ Queue \in Seq(Request)
      BY <2>9, <2>a DEF ScheduleEnd, Requeued, Queue
    <3>2. Queue' = Queue
      BY <3>1
    <3> QED BY <3>2, <2>1
  <2>10. ASSUME NEW r \in Request, PrefetchUnregistered(r) PROVE KeepsOrder
    <3>1. /\ FinishRequests([x \in {r} |-> "ERROR"]) /\ deferred' = deferred
          /\ phase # "admit"
      BY <2>10 DEF PrefetchUnregistered, Prefetchable
    <3> QED BY <3>1, <2>2, <2>d
  <2>11. ASSUME NEW T \in SUBSET out.transfer, FailIncompleteKvLoads(T) PROVE KeepsOrder
    <3> DEFINE late    == {r \in kv_loading \cap states : RowsOf(r) \cap T # {}}
               outcome == [r \in late |-> "ERROR"]
    <3>1. FinishRequests(outcome) /\ deferred' = deferred /\ phase # "admit"
      BY <2>11 DEF FailIncompleteKvLoads, waveVars
    <3> HIDE DEF outcome
    <3> QED BY <3>1, <2>2, <2>d
  <2>12. ASSUME NEW S \in SUBSET Request, FinishRequestList(S, "ABORTED") PROVE KeepsOrder
    <3>1. /\ FinishRequests([x \in S |-> "ABORTED"]) /\ deferred' = deferred
          /\ phase # "admit"
      BY <2>12 DEF FinishRequestList, Unlocked, waveVars
    <3> QED BY <3>1, <2>2, <2>d
  <2>13. ASSUME NEW result \in [Scheduled -> Status], UpdateFromOutput(result)
         PROVE  KeepsOrder
    <3> DEFINE open     == {r \in Scheduled : r \in states /\ ~IsFinished(r)}
               terminal == [r \in {x \in open : result[x] \in Terminal} |-> result[r]]
    <3>1. FinishRequests(terminal) /\ deferred' = deferred /\ phase # "admit"
      BY <2>13 DEF UpdateFromOutput
    <3> HIDE DEF terminal
    <3> QED BY <3>1, <2>2, <2>d
  <2>14. ASSUME NEW r \in Request, Preempt(r) PROVE KeepsOrder
    <3>1. /\ waiting' = <<r>> \o waiting /\ deferred' = deferred /\ phase # "admit"
          /\ <<r>> \in Seq(Request) /\ <<r>> \o waiting \in Seq(Request)
      BY <2>14, <2>a DEF Preempt, Unlocked, waveVars
    <3>2. \A x, y : Ahead(x, y, waiting) => Ahead(x, y, <<r>> \o waiting)
      BY <3>1, <2>a, AheadConcat
    <3>3. Queue = waiting /\ Queue' = waiting'
      <4>1. deferred = <<>>
        BY <3>1, <2>a DEF DeferredInLoop
      <4> QED BY <4>1, <3>1, <2>a DEF Queue
    <3> QED BY <3>1, <3>2, <3>3 DEF KeepsOrder
  <2>15. CASE Close
    <3>1. Queue' = <<>>
      BY <2>15 DEF Close, Queue
    <3> QED BY <3>1, EmptyQueue DEF KeepsOrder
  <2>16. CASE ScheduleBegin
    <3>1. deferred' = deferred /\ waiting' = waiting
      BY <2>16, <2>a DEF ScheduleBegin, DeferredInLoop, queueVars
    <3> QED BY <3>1, <2>1 DEF Queue
  <2>17. CASE \/ \E r \in Request : \E res \in Reservations(r) :
                     PrefetchStart(r, res)
              \/ PrefetchSkip \/ Publish \/ DropEnded \/ ReleaseKvDrains
              \/ \E D \in SUBSET arrived : UpdateKvConnectorOutput(D)
              \/ \E r \in Request : PopRequestState(r)
              \/ \E w \in writes : WriteArrives(w)
              \/ phase = "closed" /\ UNCHANGED vars
    <3>1. UNCHANGED <<waiting, deferred>>
      BY <2>17 DEF PrefetchStart, PrefetchSkip, Publish, DropEnded, ReleaseKvDrains,
         UpdateKvConnectorOutput, PopRequestState, WriteArrives, vars, queueVars, waveVars
    <3> QED BY <3>1, <2>1 DEF Queue
  <2> QED BY <2>3, <2>4, <2>6, <2>7, <2>8, <2>9, <2>10, <2>11, <2>12, <2>13, <2>14,
             <2>15, <2>16, <2>17
          DEF Next, InSchedule, Admission, NativePrefetch
<1> QED BY <1>1, WholeInvariant, PTL DEF Spec, FifoOrder

\* No request is ever computed behind a prefix page whose contents nobody
\* completed or somebody has overwritten, for any number of rows, pages and
\* requests that share prefixes.
THEOREM PrefixesStayComputed == Spec => []PrefixesComputed
<1>1. Init => PrefixInv
  BY PrefixInit
<1>2. TypeOK /\ HoldInv /\ PrefixInv /\ [Next]_vars => PrefixInv'
  BY PrefixStep
<1>3. WholeInv => TypeOK /\ HoldInv
  BY DEF WholeInv, PageInv
<1>4. PrefixInv => PrefixesComputed
  BY DEF PrefixInv
<1> QED BY <1>1, <1>2, <1>3, <1>4, WholeInvariant, PTL DEF Spec
=============================================================================
