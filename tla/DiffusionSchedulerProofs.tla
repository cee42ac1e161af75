---------------------- MODULE DiffusionSchedulerProofs ----------------------
(***************************************************************************)
(* Theorems about DiffusionScheduler, for every number of requests, rows   *)
(* and pages, both execution modes, with and without native prefetch.      *)
(***************************************************************************)
EXTENDS DiffusionScheduler, FiniteSetTheorems, TLAPS

-----------------------------------------------------------------------------
(* Lemmas about Without, the rebuilding of a deque.                        *)

\* Rank numbers the kept positions 1, 2, ... in their order.
LEMMA RankIsOntoKept ==
    ASSUME NEW S, NEW s \in Seq(S), NEW F, NEW K, K = Kept(s, F)
    PROVE  /\ IsFiniteSet(K) /\ Cardinality(K) \in Nat
           /\ \A i \in K : Rank(K, i) \in 1 .. Cardinality(K)
           /\ \A i, j \in K : i < j => Rank(K, i) < Rank(K, j)
           /\ \A k \in 1 .. Cardinality(K) : \E i \in K : Rank(K, i) = k
<1> DEFINE Low(i) == {j \in K : j <= i}
           f == [i \in K |-> Rank(K, i)]
<1>1. K \subseteq 1 .. Len(s) /\ Len(s) \in Nat
  BY DEF Kept
<1>2. IsFiniteSet(K) /\ Cardinality(K) \in Nat
  <2>1. IsFiniteSet(1 .. Len(s))
    BY <1>1, FS_Interval
  <2>2. IsFiniteSet(K)
    BY <2>1, <1>1, FS_Subset
  <2> QED BY <2>2, FS_CardinalityType
<1>3. ASSUME NEW i \in K PROVE IsFiniteSet(Low(i)) /\ Rank(K, i) = Cardinality(Low(i))
                               /\ Rank(K, i) \in 1 .. Cardinality(K)
  <2>1. Low(i) \in SUBSET K /\ i \in Low(i)
    BY <1>1
  <2>2. IsFiniteSet(Low(i)) /\ Cardinality(Low(i)) <= Cardinality(K)
    BY <2>1, <1>2, FS_Subset
  <2>3. Cardinality(Low(i)) \in Nat /\ Cardinality(Low(i)) # 0
    BY <2>1, <2>2, FS_CardinalityType, FS_EmptySet
  <2> QED BY <2>2, <2>3, <1>2 DEF Rank
<1>4. ASSUME NEW i \in K, NEW j \in K, i < j PROVE Rank(K, i) < Rank(K, j)
  <2>1. Low(i) \in SUBSET Low(j) /\ j \in Low(j) /\ j \notin Low(i)
    BY <1>1, <1>4
  <2>2. IsFiniteSet(Low(j))
    BY <1>3
  <2>3. Low(i) # Low(j)
    BY <2>1
  <2> HIDE DEF Low
  <2>4. Cardinality(Low(i)) <= Cardinality(Low(j)) /\ Cardinality(Low(i)) # Cardinality(Low(j))
    BY <2>1, <2>2, <2>3, FS_Subset
  <2> QED BY <2>4, <1>3
<1>5. f \in Injection(K, 1 .. Cardinality(K))
  <2>1. f \in [K -> 1 .. Cardinality(K)]
    BY <1>3
  <2>2. ASSUME NEW i \in K, NEW j \in K, i # j PROVE Rank(K, i) # Rank(K, j)
    <3>1. Rank(K, i) \in 1 .. Cardinality(K) /\ Rank(K, j) \in 1 .. Cardinality(K)
      BY <1>3
    <3>2. i \in Int /\ j \in Int
      BY <1>1
    <3>3. i < j \/ j < i
      BY <2>2, <3>2
    <3>4. Rank(K, i) < Rank(K, j) \/ Rank(K, j) < Rank(K, i)
      BY <3>3, <1>4
    <3> QED BY <3>1, <3>4, <1>2
  <2>3. \A i, j \in K : f[i] = f[j] => i = j
    BY <2>2
  <2> HIDE DEF f
  <2> QED BY <2>1, <2>3 DEF Injection, IsInjective
<1>6. f \in Surjection(K, 1 .. Cardinality(K))
  <2>1. IsFiniteSet(1 .. Cardinality(K)) /\ Cardinality(1 .. Cardinality(K)) = Cardinality(K)
    BY <1>2, FS_Interval
  <2> QED BY <2>1, <1>5, FS_Injection
<1> QED BY <1>2, <1>3, <1>4, <1>6 DEF Surjection

\* Without(s, F) is a sequence over the same set that has exactly the members
\* of s outside F, and no duplicate if s has none.
LEMMA WithoutProperties ==
    ASSUME NEW S, NEW s \in Seq(S), NEW F
    PROVE  /\ Without(s, F) \in Seq(S)
           /\ \A x : InSeq(x, Without(s, F)) <=> InSeq(x, s) /\ x \notin F
           /\ (\A i, j \in 1 .. Len(s) : s[i] = s[j] => i = j)
              => \A i, j \in 1 .. Len(Without(s, F)) :
                     Without(s, F)[i] = Without(s, F)[j] => i = j
<1> DEFINE K == Kept(s, F)
           n == Cardinality(K)
           at(k) == CHOOSE i \in K : Rank(K, i) = k
           t == Without(s, F)
<1>1. /\ n \in Nat
      /\ \A i \in K : Rank(K, i) \in 1 .. n
      /\ \A i, j \in K : i < j => Rank(K, i) < Rank(K, j)
      /\ \A k \in 1 .. n : at(k) \in K /\ Rank(K, at(k)) = k
  BY RankIsOntoKept
<1>2. t = [k \in 1 .. n |-> s[at(k)]]
  BY DEF Without
<1>3. \A i \in K : i \in Int /\ i \in 1 .. Len(s) /\ s[i] \in S /\ s[i] \notin F
  BY DEF Kept
<1> HIDE DEF K, n, at, t
<1>4. t \in Seq(S) /\ Len(t) = n
  BY <1>1, <1>2, <1>3
<1>5. ASSUME NEW x PROVE InSeq(x, t) <=> InSeq(x, s) /\ x \notin F
  <2>1. ASSUME InSeq(x, t) PROVE InSeq(x, s) /\ x \notin F
    BY <2>1, <1>1, <1>2, <1>3, <1>4 DEF InSeq
  <2>2. ASSUME InSeq(x, s), x \notin F PROVE InSeq(x, t)
    <3>1. PICK i \in 1 .. Len(s) : s[i] = x
      BY <2>2 DEF InSeq
    <3>2. i \in K
      BY <3>1, <2>2 DEF K, Kept
    <3>3. Rank(K, i) \in 1 .. n /\ at(Rank(K, i)) \in K /\ Rank(K, at(Rank(K, i))) = Rank(K, i)
      BY <3>2, <1>1
    <3>4. at(Rank(K, i)) = i
      <4>1. PICK j \in K : j = at(Rank(K, i)) /\ Rank(K, j) = Rank(K, i)
        BY <3>3
      <4>2. i \in Int /\ j \in Int /\ Rank(K, i) \in Int
        BY <3>2, <3>3, <1>1, <1>3
      <4>3. ~(i < j) /\ ~(j < i)
        BY <3>2, <4>1, <4>2, <1>1
      <4> QED BY <4>1, <4>2, <4>3
    <3> QED BY <3>1, <3>3, <3>4, <1>2, <1>4 DEF InSeq
  <2> QED BY <2>1, <2>2
<1>6. ASSUME \A i, j \in 1 .. Len(s) : s[i] = s[j] => i = j,
             NEW k \in 1 .. n, NEW m \in 1 .. n, t[k] = t[m]
      PROVE  k = m
  <2>1. at(k) \in K /\ at(m) \in K /\ Rank(K, at(k)) = k /\ Rank(K, at(m)) = m
    BY <1>1
  <2>2. at(k) = at(m)
    BY <2>1, <1>2, <1>3, <1>6
  <2> QED BY <2>1, <2>2
<1> QED BY <1>4, <1>5, <1>6 DEF t

-----------------------------------------------------------------------------
(* Type correctness.                                                       *)

LEMMA ShapeFields ==
    ASSUME NEW s \in Shape
    PROVE  /\ s.key \in Key /\ s.rows \subseteq Row /\ s.rows # {}
           /\ s.remote \in BOOLEAN /\ s.mixed \in BOOLEAN
           /\ s.start \in Nat /\ s.total \in Nat
           /\ s.prefix \in [Row -> Prefix \cup {NoPrefix}]
BY ConstantsAssumption DEF ShapeType

LEMMA DefaultsType == AnyShape \in Shape
BY ConstantsAssumption DEF AnyShape

\* What a page table of reserve_request looks like.
LEMMA ReservationFields ==
    ASSUME NEW r, NEW x \in Reservations(r)
    PROVE  /\ x.own \in [shape[r].rows -> FreeBlocks] /\ Injective(x.own)
           /\ x.boundary \in {0, 1}
           /\ DOMAIN x.prefix \subseteq shape[r].rows
           /\ \A q \in DOMAIN x.prefix : x.prefix[q] \in Block
           /\ x.boundary = 1 =>
                  /\ \A q \in DOMAIN x.prefix :
                         <<x.prefix[q], PrefixOf(r, q)>> \in cached
                  /\ \A q \in DOMAIN x.prefix : x.prefix[q] \notin Allocated(x)
           /\ Allocated(x) \subseteq FreeBlocks
<1>1. CASE Hits(r) # {}
  <2>1. /\ x \in [boundary : {1}, prefix : Hits(r),
                  own : [shape[r].rows -> FreeBlocks]]
        /\ Injective(x.own) /\ \A q \in DOMAIN x.own : x.own[q] \notin Pinned(x.prefix)
    BY <1>1 DEF Reservations, WarmReservations
  <2>2. x.prefix \in [shape[r].rows -> Block]
        /\ \A q \in shape[r].rows : <<x.prefix[q], PrefixOf(r, q)>> \in cached
    BY <2>1 DEF Hits
  <2> QED BY <2>1, <2>2 DEF Pinned, Allocated
<1>2. CASE Hits(r) = {}
  <2>1. /\ x \in [boundary : {0}, prefix : [CacheableRows(r) -> FreeBlocks],
                  own : [shape[r].rows -> FreeBlocks]]
        /\ Injective(x.own)
    BY <1>2 DEF Reservations, ColdReservations
  <2>2. CacheableRows(r) \subseteq shape[r].rows /\ FreeBlocks \subseteq Block
    BY DEF CacheableRows, FreeBlocks
  <2> QED BY <2>1, <2>2 DEF Allocated
<1> QED BY <1>1, <1>2

LEMMA RowsType ==
    ASSUME shape \in [Request -> Shape], NEW S, S \subseteq Request
    PROVE  /\ RowsOfAll(S) \subseteq Rows /\ RemoteRows(S) \subseteq Rows
           /\ \A r \in S : RowsOf(r) \subseteq Rows
<1>1. \A r \in Request : shape[r].rows \subseteq Row
  BY ShapeFields
<1> QED BY <1>1 DEF RowsOfAll, RemoteRows, RowsOf, Rows

\* What _finish_requests does to the scheduler's state keeps its type.
LEMMA FinishRequestsType ==
    ASSUME TypeOK, NEW outcome, DOMAIN outcome \subseteq Request,
           \A r \in DOMAIN outcome : outcome[r] \in Terminal,
           FinishRequests(outcome)
    PROVE  /\ Finishing(outcome) \subseteq Request
           /\ waiting' \in Seq(Request) /\ running' \subseteq Request
           /\ sampling_key' \in Key \cup {NoKey}
           /\ status' \in [Request -> Status]
           /\ prefetch_id' \in Request \cup {NoRequest}
           /\ kv_draining' \subseteq Request
           /\ owned' \subseteq Request \X Row \X Block
           /\ prefixed' \subseteq Request \X Row \X Block
           /\ kv_finished' \subseteq Rows
<1> DEFINE done == Finishing(outcome)
<1>1. done \subseteq DOMAIN outcome /\ done \subseteq Request
  BY DEF Finishing
<1>2. waiting' \in Seq(Request)
  BY WithoutProperties DEF FinishRequests, TypeOK
<1>3. status' \in [Request -> Status]
  BY <1>1 DEF FinishRequests, TypeOK, Status
<1>4. kv_finished' \subseteq Rows
  BY <1>1, RowsType DEF FinishRequests, Releasable, TypeOK
<1> QED BY <1>1, <1>2, <1>3, <1>4 DEF FinishRequests, PrefetchAfter, TypeOK

\* Starting r, which every successful turn of the admission loop does.
LEMMA StartRunningType ==
    ASSUME TypeOK, NEW r \in Request, AtHead(r), StartRunning(r)
    PROVE  /\ waiting' \in Seq(Request) /\ budget' \in Nat
           /\ sampling_key' \in Key \cup {NoKey} /\ running' \subseteq Request
           /\ status' \in [Request -> Status]
           /\ prefetch_id' \in Request \cup {NoRequest} /\ out' \in Output
<1>1. shape[r].key \in Key
  BY ShapeFields DEF TypeOK
<1>2. out' \in Output
  BY DEF StartRunning, TypeOK, Output
<1>3. waiting' \in Seq(Request) /\ budget' \in Nat
  <2>1. waiting \in Seq(Request) /\ budget \in Nat
    BY DEF TypeOK
  <2>2. waiting # <<>> /\ budget > 0
    BY DEF AtHead
  <2>3. waiting' = Tail(waiting) /\ budget' = budget - 1
    BY DEF StartRunning
  <2> QED BY ONLY <2>1, <2>2, <2>3
<1>4. status' \in [Request -> Status]
  BY DEF StartRunning, TypeOK, Status
<1>5. sampling_key' \in Key \cup {NoKey} /\ running' \subseteq Request
  BY <1>1 DEF StartRunning, TypeOK
<1>6. prefetch_id' \in Request \cup {NoRequest}
  BY DEF StartRunning, TypeOK
<1> QED BY <1>2, <1>3, <1>4, <1>5, <1>6

LEMMA ReserveType ==
    ASSUME TypeOK, NEW r \in Request, NEW x \in Reservations(r), Reserve(r, x)
    PROVE  /\ owned' \subseteq Request \X Row \X Block
           /\ prefixed' \subseteq Request \X Row \X Block
           /\ cached' \subseteq Block \X Prefix /\ filled' \subseteq Block \X Prefix
           /\ boundary' \in [Request -> {0, 1}]
           /\ generation' \in [Request -> Nat] /\ next_generation' \in Nat \ {0}
           /\ kv_loading' \subseteq Request /\ kv_transfer' \subseteq Rows
           /\ writes' \subseteq Request \X Row \X Block
<1>1. shape[r].rows \subseteq Row /\ RowsOf(r) \subseteq Rows
  BY ShapeFields, RowsType DEF TypeOK
<1>2. PagesOf(r, x.own) \subseteq Request \X Row \X Block
  <2>1. x.own \in [shape[r].rows -> Block]
    BY ReservationFields DEF FreeBlocks
  <2> QED BY <1>1, <2>1 DEF PagesOf
<1>3. PagesOf(r, x.prefix) \subseteq Request \X Row \X Block
  <2>1. DOMAIN x.prefix \subseteq Row /\ \A q \in DOMAIN x.prefix : x.prefix[q] \in Block
    BY <1>1, ReservationFields
  <2> QED BY <2>1 DEF PagesOf
<1>4. boundary' \in [Request -> {0, 1}]
  BY ReservationFields DEF Reserve, TypeOK
<1>5. cached' \subseteq Block \X Prefix /\ filled' \subseteq Block \X Prefix
  BY DEF Reserve, Overwrite, TypeOK
<1> QED BY <1>1, <1>2, <1>3, <1>4, <1>5 DEF Reserve, TypeOK

LEMMA PrefixesType ==
    ASSUME TypeOK, NEW S
    PROVE  PrefixesOf(S) \subseteq Block \X Prefix
<1>1. ASSUME NEW o \in prefixed, PrefixOf(o[1], o[2]) # NoPrefix
      PROVE  <<o[3], PrefixOf(o[1], o[2])>> \in Block \X Prefix
  <2>1. o \in Request \X Row \X Block /\ shape[o[1]] \in Shape
    BY DEF TypeOK
  <2>2. PrefixOf(o[1], o[2]) \in Prefix \cup {NoPrefix}
    BY <2>1, ShapeFields DEF PrefixOf
  <2> QED BY <1>1, <2>1, <2>2
<1> QED BY <1>1 DEF PrefixesOf

LEMMA TypeInit == Init => TypeOK
<1> SUFFICES ASSUME Init PROVE TypeOK
  OBVIOUS
<1>1. EmptyOutput \in Output
  BY DEF EmptyOutput, Output
<1>2. <<>> \in Seq(Request)
  OBVIOUS
<1> QED BY <1>1, <1>2, DefaultsType DEF Init, TypeOK, Status

LEMMA TypeStep == TypeOK /\ [Next]_vars => TypeOK'
<1> USE DEF requestVars, queueVars, pageVars, cacheVars, kvVars, waveVars, wireVars
<1> SUFFICES ASSUME TypeOK, [Next]_vars PROVE TypeOK'
  OBVIOUS
<1>1. ASSUME NEW r \in Request, NEW s \in Shape, AddRequest(r, s) PROVE TypeOK'
  <2>1. s.start \in Nat
    BY ShapeFields
  <2>2. Append(waiting, r) \in Seq(Request)
    BY DEF TypeOK
  <2>3. /\ states' \subseteq Request /\ status' \in [Request -> Status]
        /\ shape' \in [Request -> Shape] /\ step' \in [Request -> Nat]
    BY <1>1, <2>1 DEF AddRequest, TypeOK, Status
  <2>4. waiting' \in Seq(Request) /\ adds' \in Nat
    BY <1>1, <2>2 DEF AddRequest, TypeOK
  <2> QED BY <1>1, <2>3, <2>4 DEF AddRequest, TypeOK
<1>2. CASE ScheduleBegin
  <2>1. out' \in Output
    BY <1>2 DEF ScheduleBegin, TypeOK, EmptyOutput, Output
  <2>2. budget' \in Nat /\ deferred' \in Seq(Request)
    BY <1>2 DEF ScheduleBegin, TypeOK
  <2> QED BY <1>2, <2>1, <2>2 DEF ScheduleBegin, TypeOK
<1>3. ASSUME NEW r \in Request, AdmitDefer(r) PROVE TypeOK'
  <2>1. waiting' \in Seq(Request) /\ deferred' \in Seq(Request) /\ budget' \in Nat
    BY <1>3 DEF AdmitDefer, AtHead, TypeOK
  <2> QED BY <1>3, <2>1 DEF AdmitDefer, TypeOK
<1>4. ASSUME NEW r \in Request, AdmitReserved(r) PROVE TypeOK'
  <2>1. AtHead(r) /\ StartRunning(r)
    BY <1>4 DEF AdmitReserved
  <2> QED BY <1>4, <2>1, StartRunningType DEF AdmitReserved, TypeOK
<1>5. ASSUME NEW r \in Request, NEW x \in Reservations(r), AdmitNew(r, x)
      PROVE  TypeOK'
  <2>1. AtHead(r) /\ StartRunning(r) /\ Reserve(r, x)
    BY <1>5 DEF AdmitNew
  <2>2. /\ owned' \subseteq Request \X Row \X Block
        /\ prefixed' \subseteq Request \X Row \X Block
        /\ cached' \subseteq Block \X Prefix /\ filled' \subseteq Block \X Prefix
        /\ boundary' \in [Request -> {0, 1}]
        /\ generation' \in [Request -> Nat] /\ next_generation' \in Nat \ {0}
        /\ kv_loading' \subseteq Request /\ kv_transfer' \subseteq Rows
        /\ writes' \subseteq Request \X Row \X Block
    BY <2>1, ReserveType
  <2>3. /\ waiting' \in Seq(Request) /\ budget' \in Nat
        /\ sampling_key' \in Key \cup {NoKey} /\ running' \subseteq Request
        /\ status' \in [Request -> Status]
        /\ prefetch_id' \in Request \cup {NoRequest} /\ out' \in Output
    BY <2>1, StartRunningType
  <2> QED BY <1>5, <2>2, <2>3 DEF AdmitNew, TypeOK
<1>6. ASSUME NEW r \in Request, AdmitTooLarge(r) PROVE TypeOK'
  <2> DEFINE outcome == [x \in {r} |-> "ERROR"]
  <2>1. FinishRequests(outcome) /\ outcome[r] \in Terminal /\ budget' \in Nat
    BY <1>6 DEF AdmitTooLarge, AtHead, Terminal, TypeOK
  <2> QED BY <1>6, <2>1, FinishRequestsType DEF AdmitTooLarge, TypeOK
<1>7. ASSUME NEW r \in Request, AdmitUnregistered(r)
      PROVE  TypeOK'
  <2> DEFINE outcome == [x \in {r} |-> "ERROR"]
  <2>1. FinishRequests(outcome) /\ outcome[r] \in Terminal /\ budget' \in Nat
    BY <1>7 DEF AdmitUnregistered, AtHead, Terminal, TypeOK
  <2>2. DOMAIN outcome \subseteq Request /\ \A x \in DOMAIN outcome : outcome[x] \in Terminal
    BY <2>1
  <2>3. /\ waiting' \in Seq(Request) /\ running' \subseteq Request
        /\ sampling_key' \in Key \cup {NoKey}
        /\ status' \in [Request -> Status]
        /\ prefetch_id' \in Request \cup {NoRequest}
        /\ kv_draining' \subseteq Request
        /\ owned' \subseteq Request \X Row \X Block
        /\ prefixed' \subseteq Request \X Row \X Block
        /\ kv_finished' \subseteq Rows
    BY <2>1, <2>2, FinishRequestsType
  <2>4. generation' \in [Request -> Nat] /\ next_generation' \in Nat \ {0}
    BY <1>7 DEF AdmitUnregistered, TypeOK
  <2> HIDE DEF outcome
  <2> QED BY <1>7, <2>1, <2>3, <2>4 DEF AdmitUnregistered, TypeOK
<1>8. ASSUME NEW r \in Request, NEW x \in Reservations(r), PrefetchStart(r, x)
      PROVE  TypeOK'
  <2>1. Reserve(r, x)
    BY <1>8 DEF PrefetchStart
  <2> QED BY <1>8, <2>1, ReserveType DEF PrefetchStart, TypeOK
<1>9. ASSUME NEW r \in Request, PrefetchUnregistered(r) PROVE TypeOK'
  <2> DEFINE outcome == [x \in {r} |-> "ERROR"]
  <2>1. FinishRequests(outcome) /\ outcome[r] \in Terminal
    BY <1>9 DEF PrefetchUnregistered, Terminal
  <2>2. DOMAIN outcome \subseteq Request /\ \A x \in DOMAIN outcome : outcome[x] \in Terminal
    BY <2>1
  <2>3. /\ waiting' \in Seq(Request) /\ running' \subseteq Request
        /\ sampling_key' \in Key \cup {NoKey}
        /\ status' \in [Request -> Status]
        /\ prefetch_id' \in Request \cup {NoRequest}
        /\ kv_draining' \subseteq Request
        /\ owned' \subseteq Request \X Row \X Block
        /\ prefixed' \subseteq Request \X Row \X Block
        /\ kv_finished' \subseteq Rows
    BY <2>1, <2>2, FinishRequestsType
  <2>4. generation' \in [Request -> Nat] /\ next_generation' \in Nat \ {0}
    BY <1>9 DEF PrefetchUnregistered, TypeOK
  <2> HIDE DEF outcome
  <2> QED BY <1>9, <2>3, <2>4 DEF PrefetchUnregistered, TypeOK
<1>10. CASE ScheduleEnd
  <2>1. waiting' \in Seq(Request) /\ deferred' \in Seq(Request)
    BY <1>10 DEF ScheduleEnd, Requeued, TypeOK
  <2>2. RowsOfAll(running \cap kv_loading) \subseteq Rows
    BY RowsType DEF TypeOK
  <2>3. out' \in Output
    BY <1>10, <2>2 DEF ScheduleEnd, TypeOK, Output
  <2>4. cached' \subseteq Block \X Prefix /\ filled' \subseteq Block \X Prefix
    BY <1>10 DEF ScheduleEnd, Overwrite, TypeOK
  <2> QED BY <1>10, <2>1, <2>3, <2>4 DEF ScheduleEnd, TypeOK
<1>11. CASE PrefetchSkip
  BY <1>11 DEF PrefetchSkip, TypeOK
<1>12. CASE Publish
  <2>1. out' \in Output
    BY <1>12 DEF Publish, Published, TypeOK, Output
  <2> QED BY <1>12, <2>1 DEF Publish, TypeOK
<1>13. ASSUME NEW D \in SUBSET arrived, UpdateKvConnectorOutput(D) PROVE TypeOK'
  BY <1>13 DEF UpdateKvConnectorOutput, TypeOK
<1>14. ASSUME NEW T \in SUBSET out.transfer, FailIncompleteKvLoads(T) PROVE TypeOK'
  <2> DEFINE late    == {r \in kv_loading \cap states : RowsOf(r) \cap T # {}}
             outcome == [r \in late |-> "ERROR"]
  <2>1. /\ FinishRequests(outcome) /\ DOMAIN outcome \subseteq Request
        /\ \A r \in DOMAIN outcome : outcome[r] \in Terminal
    BY <1>14 DEF FailIncompleteKvLoads, Terminal, TypeOK
  <2>2. Finishing(outcome) \subseteq Request
    BY <2>1, FinishRequestsType
  <2> QED BY <1>14, <2>1, <2>2, FinishRequestsType
          DEF FailIncompleteKvLoads, TypeOK
<1>15. ASSUME NEW S \in SUBSET Request, FinishRequestList(S, "ABORTED")
       PROVE  TypeOK'
  <2> DEFINE outcome == [x \in S |-> "ABORTED"]
  <2>1. /\ FinishRequests(outcome) /\ DOMAIN outcome \subseteq Request
        /\ \A r \in DOMAIN outcome : outcome[r] \in Terminal
    BY <1>15 DEF FinishRequestList, Terminal
  <2>2. Finishing(outcome) \subseteq Request
    BY <2>1, FinishRequestsType
  <2> QED BY <1>15, <2>1, <2>2, FinishRequestsType DEF FinishRequestList, TypeOK
<1>16. ASSUME NEW r \in Request, Preempt(r) PROVE TypeOK'
  <2>1. waiting' \in Seq(Request)
    BY <1>16 DEF Preempt, TypeOK
  <2> QED BY <1>16, <2>1 DEF Preempt, TypeOK, Status
<1>17. CASE ReleaseKvDrains
  <2>1. RemoteRows(CompletedKvDrains) \subseteq Rows
    BY RowsType DEF TypeOK, CompletedKvDrains
  <2> QED BY <1>17, <2>1 DEF ReleaseKvDrains, TypeOK
<1>18. ASSUME NEW result \in [Scheduled -> Status], UpdateFromOutput(result)
       PROVE  TypeOK'
  <2> DEFINE open     == {r \in Scheduled : r \in states /\ ~IsFinished(r)}
             terminal == [r \in {x \in open : result[x] \in Terminal} |-> result[r]]
  <2>1. /\ FinishRequests(terminal) /\ DOMAIN terminal \subseteq Request
        /\ \A r \in DOMAIN terminal : terminal[r] \in Terminal
    BY <1>18 DEF UpdateFromOutput, Terminal, TypeOK
  <2>2. step' \in [Request -> Nat]
    BY <1>18 DEF UpdateFromOutput, TypeOK
  <2>3. surfaced' \subseteq Request /\ finished_req_ids' \subseteq Request
    BY <1>18, <2>1 DEF UpdateFromOutput, Surfaced, AllFinished, TypeOK
  <2>4. out' \in Output
    BY <1>18 DEF UpdateFromOutput, EmptyOutput, Output
  <2>5. /\ waiting' \in Seq(Request) /\ running' \subseteq Request
        /\ sampling_key' \in Key \cup {NoKey} /\ status' \in [Request -> Status]
        /\ prefetch_id' \in Request \cup {NoRequest}
        /\ kv_draining' \subseteq Request
        /\ owned' \subseteq Request \X Row \X Block /\ kv_finished' \subseteq Rows
        /\ prefixed' \subseteq Request \X Row \X Block
    BY <2>1, FinishRequestsType
  <2>6. /\ phase' = "idle"
        /\ UNCHANGED <<states, shape, boundary, generation, next_generation,
                       kv_loading, kv_received, kv_transfer, budget, deferred,
                       wireVars, adds>>
    BY <1>18 DEF UpdateFromOutput
  <2>7. cached' \subseteq Block \X Prefix /\ filled' \subseteq Block \X Prefix
    <3>1. /\ cached' = cached \cup PrefixesOf(PublishedNow(terminal))
          /\ filled' = filled \cup
                 PrefixesOf({r \in DOMAIN terminal : terminal[r] = "COMPLETED"})
      BY <1>18 DEF UpdateFromOutput
    <3> QED BY <3>1, PrefixesType DEF TypeOK
  <2> HIDE DEF open, terminal
  <2> QED BY <2>2, <2>3, <2>4, <2>5, <2>6, <2>7 DEF wireVars, TypeOK
<1>19. ASSUME NEW r \in Request, PopRequestState(r) PROVE TypeOK'
  BY <1>19 DEF PopRequestState, TypeOK
<1>20. ASSUME NEW w \in writes, WriteArrives(w) PROVE TypeOK'
  <2>1. w \in Request \X Row \X Block
    BY DEF TypeOK
  <2>2. <<w[1], w[2]>> \in Rows
    BY ONLY <2>1 DEF Rows
  <2>3. writes' \subseteq Request \X Row \X Block /\ arrived' \subseteq Rows
    BY <1>20, <2>2 DEF WriteArrives, TypeOK
  <2> QED BY <1>20, <2>3 DEF WriteArrives, TypeOK
<1>21. CASE Close
  <2>1. out' \in Output /\ waiting' \in Seq(Request)
    BY <1>21 DEF Close, EmptyOutput, Output
  <2> QED BY <1>21, <2>1 DEF Close, TypeOK
<1>22. CASE UNCHANGED vars
  BY <1>22 DEF vars, TypeOK
<1>23. CASE DropEnded
  <2>1. out' \in Output
    BY <1>23 DEF DropEnded, Ended, TypeOK, Output
  <2> QED BY <1>23, <2>1 DEF DropEnded, TypeOK
<1> QED
  BY <1>1, <1>2, <1>3, <1>4, <1>5, <1>6, <1>7, <1>8, <1>9, <1>10, <1>11, <1>12,
     <1>13, <1>14, <1>15, <1>16, <1>17, <1>18, <1>19, <1>20, <1>21, <1>22, <1>23
     DEF Next, InSchedule, Admission, NativePrefetch

\* Every reachable state has the declared types.
THEOREM TypeCorrect == Spec => []TypeOK
<1>1. Init => TypeOK
  BY TypeInit
<1>2. TypeOK /\ [Next]_vars => TypeOK'
  BY TypeStep
<1> QED BY <1>1, <1>2, PTL DEF Spec

-----------------------------------------------------------------------------
(***************************************************************************)
(* Pages are safe while they are being received.  WritesOwned alone is not *)
(* inductive: that a request stops loading only when its last write is     *)
(* over needs the accounting of its rows, that a request with a receive in *)
(* flight keeps its entry and its pages needs the link between loading,    *)
(* finishing and draining, and that popping an entry respects it needs     *)
(* SurfacedIsFinished.                                                     *)
(***************************************************************************)
RowHasOnePage == \A o, p \in owned : o[1] = p[1] /\ o[2] = p[2] => o = p

LoadingIsHeld ==
    \A r \in kv_loading :
        /\ HasPages(r)
        /\ r \in states \cup kv_draining
        /\ IsFinished(r) => r \in kv_draining

RunningIsOpen == \A r \in running : r \in states => ~IsFinished(r)

SurfacedWhenIdle == phase # "idle" => surfaced = {}

PageInv ==
    /\ TypeOK
    /\ RowHasOnePage /\ WritesOwned
    /\ ReceivesAccounted /\ LoadingIsHeld
    /\ RunningIsOpen /\ SurfacedIsFinished /\ SurfacedWhenIdle

\* What the constructors of rows and pages contain.
LEMMA RowsOfAllElements ==
    \A S, x, q : <<x, q>> \in RowsOfAll(S) <=> x \in S /\ q \in shape[x].rows
<1> SUFFICES ASSUME NEW S, NEW x, NEW q
             PROVE  <<x, q>> \in RowsOfAll(S) <=> x \in S /\ q \in shape[x].rows
  OBVIOUS
<1>1. \A r : <<x, q>> \in RowsOf(r) <=> x = r /\ q \in shape[r].rows
  BY DEF RowsOf
<1> QED BY <1>1 DEF RowsOfAll

LEMMA PagesOfRows ==
    ASSUME NEW r, NEW a, DOMAIN a = shape[r].rows
    PROVE  {<<w[1], w[2]>> : w \in PagesOf(r, a)} = RowsOf(r)
<1>1. \A q : <<r, q, a[q]>>[1] = r /\ <<r, q, a[q]>>[2] = q
  OBVIOUS
<1>2. \A q \in shape[r].rows :
        <<r, q>> \in {<<w[1], w[2]>> : w \in PagesOf(r, a)}
  <2> SUFFICES ASSUME NEW q \in shape[r].rows
               PROVE  <<r, q>> \in {<<w[1], w[2]>> : w \in PagesOf(r, a)}
    OBVIOUS
  <2>1. <<r, q, a[q]>> \in PagesOf(r, a)
    BY DEF PagesOf
  <2> QED BY <2>1, <1>1
<1>3. ASSUME NEW w \in PagesOf(r, a)
      PROVE  <<w[1], w[2]>> \in RowsOf(r)
  <2>1. PICK q \in shape[r].rows : w = <<r, q, a[q]>>
    BY <1>3 DEF PagesOf
  <2> QED BY <2>1, <1>1 DEF RowsOf
<1>4. \A x \in RowsOf(r) : \E q \in shape[r].rows : x = <<r, q>>
  BY DEF RowsOf
<1> QED BY <1>2, <1>3, <1>4

LEMMA PageInit == Init => PageInv
<1> SUFFICES ASSUME Init PROVE PageInv
  OBVIOUS
<1>1. TypeOK
  BY TypeInit
<1>2. ReceivesAccounted
  BY DEF Init, ReceivesAccounted, RowsOfAll
<1> QED BY <1>1, <1>2 DEF Init, PageInv, RowHasOnePage,
           WritesOwned, LoadingIsHeld, RunningIsOpen, SurfacedIsFinished,
           SurfacedWhenIdle

\* Finishing requests frees no page of a request that is loading.
LEMMA FinishKeepsPages ==
    ASSUME PageInv, NEW outcome, DOMAIN outcome \subseteq Request,
           \A r \in DOMAIN outcome : outcome[r] \in Terminal,
           FinishRequests(outcome),
           UNCHANGED <<states, shape, kv_loading, kv_received, writes, arrived>>
    PROVE  /\ RowHasOnePage' /\ WritesOwned'
           /\ ReceivesAccounted' /\ LoadingIsHeld' /\ RunningIsOpen'
           /\ \A r \in states : IsFinished(r) => IsFinished(r)'
           /\ \A r \in Finishing(outcome) : r \in states /\ IsFinished(r)'
<1> DEFINE done == Finishing(outcome)
<1>1. owned' \subseteq owned /\ \A o \in owned : o[1] \in kv_loading => o \in owned'
  BY DEF FinishRequests, Releasable
<1>2. \A w \in writes : w \in owned /\ w[1] \in kv_loading
  <2>1. \A w \in writes : <<w[1], w[2]>> \in RowsOfAll(kv_loading)
    BY DEF PageInv, ReceivesAccounted
  <2>2. \A w \in writes : w[1] \in kv_loading
    BY <2>1, RowsOfAllElements
  <2> QED BY <2>2 DEF PageInv, WritesOwned
<1>3. \A r \in Request : IsFinished(r)' <=> IsFinished(r) \/ r \in done
  BY DEF FinishRequests, IsFinished, Finishing, PageInv, TypeOK
<1>4. RowHasOnePage' /\ WritesOwned'
  BY <1>1, <1>2 DEF PageInv, RowHasOnePage, WritesOwned
<1>5. ReceivesAccounted'
  BY DEF PageInv, ReceivesAccounted, RowsOfAll, RowsOf
<1>6. LoadingIsHeld'
  <2> SUFFICES ASSUME NEW r \in kv_loading
               PROVE  /\ HasPages(r)' /\ r \in states \cup kv_draining'
                      /\ IsFinished(r)' => r \in kv_draining'
    BY DEF LoadingIsHeld
  <2>1. HasPages(r)'
    BY <1>1 DEF PageInv, LoadingIsHeld, HasPages
  <2>2. kv_draining' = kv_draining \cup (done \cap kv_loading)
    BY DEF FinishRequests
  <2>3. r \in Request
    BY DEF PageInv, TypeOK
  <2> QED BY <2>1, <2>2, <2>3, <1>3 DEF PageInv, LoadingIsHeld
<1>7. RunningIsOpen'
  BY <1>3 DEF FinishRequests, PageInv, TypeOK, RunningIsOpen
<1>8. \A r \in done : r \in states /\ r \in Request
  BY DEF Finishing
<1>9. \A r \in states : r \in Request
  BY DEF PageInv, TypeOK
<1> QED BY <1>3, <1>4, <1>5, <1>6, <1>7, <1>8, <1>9

\* A reservation takes free pages and opens the account of its receives.
LEMMA ReserveKeepsPages ==
    ASSUME PageInv, NEW r \in Request, NEW x \in Reservations(r), ~HasPages(r),
           r \in states, Reserve(r, x), ~IsFinished(r)',
           \A y \in Request \ {r} : IsFinished(y)' <=> IsFinished(y),
           UNCHANGED <<states, shape, kv_draining, kv_received, arrived>>
    PROVE  /\ RowHasOnePage' /\ WritesOwned'
           /\ ReceivesAccounted' /\ LoadingIsHeld'
<1> DEFINE a == x.own
           new == PagesOf(r, a)
<1>0. a \in [shape[r].rows -> FreeBlocks] /\ Injective(a)
  BY ReservationFields
<1> HIDE DEF a
<1>1. \A o \in new : /\ o[1] = r /\ o[2] \in shape[r].rows
                     /\ o[3] = a[o[2]] /\ o = <<o[1], o[2], o[3]>>
                     /\ \A p \in owned : p[3] # o[3] /\ p[1] # r
  BY <1>0 DEF PagesOf, FreeBlocks, HasPages
<1>2. \A q, t \in shape[r].rows : a[q] = a[t] => q = t
  BY <1>0 DEF Injective
<1>3. owned' = owned \cup new
  BY DEF Reserve, a
<1>4. r \notin kv_loading
  BY DEF PageInv, LoadingIsHeld
<1>5. RowHasOnePage'
  <2> SUFFICES ASSUME NEW o \in owned \cup new, NEW p \in owned \cup new
               PROVE  o[1] = p[1] /\ o[2] = p[2] => o = p
    BY <1>3 DEF RowHasOnePage
  <2>1. CASE o \in owned /\ p \in owned
    BY <2>1 DEF PageInv, RowHasOnePage
  <2>2. CASE o \in owned /\ p \in new
    BY <2>2, <1>1
  <2>3. CASE o \in new /\ p \in owned
    BY <2>3, <1>1
  <2>4. CASE o \in new /\ p \in new
    BY <2>4, <1>1, <1>2
  <2> QED BY <2>1, <2>2, <2>3, <2>4
<1>6. WritesOwned'
  BY <1>3 DEF Reserve, PageInv, WritesOwned, a
<1>7. shape[r].rows # {} /\ HasPages(r)'
  <2>1. shape[r].rows # {}
    BY ShapeFields DEF PageInv, TypeOK
  <2>2. PICK q \in shape[r].rows : TRUE
    BY <2>1
  <2>3. <<r, q, a[q]>> \in new
    BY <2>2, <1>0 DEF PagesOf
  <2> QED BY <2>1, <2>3, <1>3 DEF HasPages
<1>8. LoadingIsHeld'
  <2>1. kv_loading' \subseteq kv_loading \cup {r}
    BY DEF Reserve
  <2>2. \A y \in kv_loading : HasPages(y)' /\ y \in Request /\ y # r
    BY <1>3, <1>4 DEF PageInv, TypeOK, LoadingIsHeld, HasPages
  <2> QED BY <2>1, <2>2, <1>7 DEF PageInv, LoadingIsHeld
<1>9. ReceivesAccounted'
  <2> DEFINE seen == {<<w[1], w[2]>> : w \in writes}
  <2>1. CASE ~shape[r].remote
    BY <2>1 DEF Reserve, PageInv, ReceivesAccounted, RowsOfAll, RowsOf
  <2>2. CASE shape[r].remote
    <3>1. {<<w[1], w[2]>> : w \in writes'} = seen \cup RowsOf(r)
      <4>1. writes' = writes \cup new
        BY <2>2 DEF Reserve, a
      <4>2. {<<w[1], w[2]>> : w \in new} = RowsOf(r)
        BY <1>0, PagesOfRows
      <4> QED BY <4>1, <4>2
    <3>2. kv_loading' = kv_loading \cup {r}
      BY <2>2 DEF Reserve
    <3>3. RowsOfAll(kv_loading)' = RowsOfAll(kv_loading) \cup RowsOf(r)
      BY <3>2 DEF RowsOfAll, RowsOf
    <3>4. RowsOf(r) \cap RowsOfAll(kv_loading) = {}
      BY <1>4 DEF RowsOfAll, RowsOf
    <3> QED BY <3>1, <3>3, <3>4 DEF PageInv, ReceivesAccounted
  <2> QED BY <2>1, <2>2
<1> QED BY <1>5, <1>6, <1>8, <1>9

\* Steps that touch neither pages nor receives, and finish or revive nothing.
LEMMA PageFrame ==
    ASSUME PageInv, TypeOK',
           UNCHANGED <<states, status, shape, owned, kv_loading, kv_draining,
                       kv_received, writes, arrived, running>>,
           surfaced' = surfaced, phase = "idle" => surfaced = {} \/ phase' = "idle"
    PROVE  PageInv'
<1>1. ReceivesAccounted' /\ LoadingIsHeld'
  BY DEF PageInv, ReceivesAccounted, RowsOfAll, RowsOf, LoadingIsHeld, HasPages,
         IsFinished
<1> QED BY <1>1 DEF PageInv, RowHasOnePage, WritesOwned,
           RunningIsOpen, SurfacedIsFinished, SurfacedWhenIdle, IsFinished

\* The rows with an open receive belong to the requests that are loading.
LEMMA WritesAreLoading ==
    ASSUME PageInv
    PROVE  /\ \A w \in writes : w \in owned /\ w[1] \in kv_loading
                               /\ w[2] \in shape[w[1]].rows
           /\ \A d \in arrived : d[1] \in kv_loading
<1>1. \A w \in writes : <<w[1], w[2]>> \in RowsOfAll(kv_loading)
  BY DEF PageInv, ReceivesAccounted
<1>2. \A d \in arrived : <<d[1], d[2]>> \in RowsOfAll(kv_loading)
  <2>1. arrived \subseteq RowsOfAll(kv_loading)
    BY DEF PageInv, ReceivesAccounted
  <2>2. arrived \subseteq Request \X Row
    BY DEF PageInv, TypeOK, Rows
  <2>3. \A d \in arrived : d = <<d[1], d[2]>>
    BY <2>2
  <2> QED BY <2>1, <2>3
<1>3. \A w \in writes : w[1] \in kv_loading /\ w[2] \in shape[w[1]].rows
  BY <1>1, RowsOfAllElements
<1>4. \A d \in arrived : d[1] \in kv_loading
  BY <1>2, RowsOfAllElements
<1> QED BY <1>3, <1>4 DEF PageInv, WritesOwned

\* Finishing steps: the results a step surfaces are finished when it surfaces
\* them, or there are none.
LEMMA FinishStep ==
    ASSUME PageInv, TypeOK', NEW outcome, DOMAIN outcome \subseteq Request,
           \A r \in DOMAIN outcome : outcome[r] \in Terminal,
           FinishRequests(outcome),
           UNCHANGED <<states, shape, kv_loading, kv_received, writes, arrived>>,
           surfaced' \subseteq surfaced
               \cup {r \in states : IsFinished(r)} \cup Finishing(outcome),
           phase' # "idle" => surfaced' = {}
    PROVE  PageInv'
<1>1. /\ RowHasOnePage' /\ WritesOwned'
      /\ ReceivesAccounted' /\ LoadingIsHeld' /\ RunningIsOpen'
      /\ \A r \in states : IsFinished(r) => IsFinished(r)'
      /\ \A r \in Finishing(outcome) : r \in states /\ IsFinished(r)'
  BY FinishKeepsPages
<1>2. \A r \in surfaced : r \in states /\ IsFinished(r)
  BY DEF PageInv, SurfacedIsFinished
<1>3. SurfacedIsFinished'
  <2> SUFFICES ASSUME NEW r \in surfaced' PROVE r \in states' /\ IsFinished(r)'
    BY DEF SurfacedIsFinished
  <2> QED BY <1>1, <1>2
<1> QED BY <1>1, <1>3 DEF PageInv, SurfacedWhenIdle

LEMMA PageStep == PageInv /\ [Next]_vars => PageInv'
<1> SUFFICES ASSUME PageInv, [Next]_vars PROVE PageInv'
  OBVIOUS
<1>0. TypeOK /\ TypeOK'
  BY TypeStep DEF PageInv
<1>a. /\ RowHasOnePage /\ WritesOwned
      /\ ReceivesAccounted /\ LoadingIsHeld
      /\ RunningIsOpen /\ SurfacedIsFinished /\ SurfacedWhenIdle
  BY DEF PageInv
<1>b. \A r \in kv_loading \cup running \cup surfaced \cup states : r \in Request
  BY <1>0 DEF TypeOK
<1>1. ASSUME NEW r \in Request, NEW s \in Shape, AddRequest(r, s)
      PROVE  PageInv'
  <2>1. r \notin kv_loading /\ r \notin states /\ r \notin kv_draining
    BY <1>1, <1>a DEF AddRequest, Admissible, LoadingIsHeld
  <2>2. /\ \A x \in Request \ {r} : shape'[x] = shape[x] /\ status'[x] = status[x]
        /\ status'[r] = "WAITING"
        /\ states' = states \cup {r}
        /\ UNCHANGED <<owned, kv_loading, kv_draining, kv_received, writes,
                       arrived, running, surfaced, phase>>
    BY <1>1, <1>0 DEF AddRequest, TypeOK, pageVars, kvVars, waveVars, wireVars
  <2>3. \A x \in kv_loading : RowsOf(x)' = RowsOf(x)
    BY <2>1, <2>2, <1>b DEF RowsOf
  <2>4. RowsOfAll(kv_loading)' = RowsOfAll(kv_loading)
    BY <2>2, <2>3 DEF RowsOfAll
  <2>5. ReceivesAccounted'
    BY <2>2, <2>4, <1>a DEF ReceivesAccounted
  <2>6. \A x \in Request \ {r} : IsFinished(x)' <=> IsFinished(x)
    BY <2>2 DEF IsFinished
  <2>7. ~IsFinished(r)'
    BY <2>2 DEF IsFinished, Terminal
  <2>8. LoadingIsHeld'
    BY <2>1, <2>2, <2>6, <1>a, <1>b DEF LoadingIsHeld, HasPages
  <2>9. RunningIsOpen' /\ SurfacedIsFinished'
    BY <2>1, <2>2, <2>6, <2>7, <1>a, <1>b DEF RunningIsOpen, SurfacedIsFinished
  <2> QED BY <2>2, <2>5, <2>8, <2>9, <1>0, <1>a
          DEF PageInv, RowHasOnePage, WritesOwned, SurfacedWhenIdle
<1>2. CASE ScheduleBegin
  BY <1>2, <1>0, <1>a, PageFrame
     DEF ScheduleBegin, requestVars, queueVars, pageVars, kvVars, wireVars
<1>3. ASSUME NEW r \in Request, AdmitDefer(r) PROVE PageInv'
  BY <1>3, <1>0, PageFrame DEF AdmitDefer, AtHead, requestVars, pageVars, kvVars,
     wireVars
<1>4. ASSUME NEW r \in Request, AdmitReserved(r) PROVE PageInv'
  <2>1. /\ phase = "admit" /\ phase' = "admit" /\ surfaced' = surfaced
        /\ running' = running \cup {r} /\ status' = [status EXCEPT ![r] = "RUNNING"]
        /\ UNCHANGED <<states, shape, owned, kv_loading, kv_draining, kv_received,
                       writes, arrived>>
    BY <1>4 DEF AdmitReserved, AtHead, StartRunning, pageVars, wireVars
  <2>2. /\ ~IsFinished(r)'
        /\ \A x \in Request \ {r} : IsFinished(x)' <=> IsFinished(x)
    BY <2>1, <1>0 DEF IsFinished, TypeOK, Terminal
  <2>3. ReceivesAccounted' /\ LoadingIsHeld'
    BY <2>1, <2>2, <1>a, <1>b
       DEF ReceivesAccounted, RowsOfAll, RowsOf, LoadingIsHeld, HasPages
  <2>4. RunningIsOpen'
    BY <2>1, <2>2, <1>a, <1>b DEF RunningIsOpen
  <2>5. surfaced = {}
    BY <2>1, <1>a DEF SurfacedWhenIdle
  <2> QED BY <2>1, <2>3, <2>4, <2>5, <1>0, <1>a
          DEF PageInv, RowHasOnePage, WritesOwned,
              SurfacedIsFinished, SurfacedWhenIdle
<1>5. ASSUME NEW r \in Request, NEW x \in Reservations(r), AdmitNew(r, x)
      PROVE  PageInv'
  <2>1. /\ phase = "admit" /\ phase' = "admit" /\ surfaced' = surfaced
        /\ r \in states /\ ~HasPages(r) /\ Reserve(r, x)
        /\ running' = running \cup {r} /\ status' = [status EXCEPT ![r] = "RUNNING"]
        /\ UNCHANGED <<states, shape, kv_draining, kv_received, arrived>>
    BY <1>5 DEF AdmitNew, AtHead, StartRunning
  <2>2. /\ ~IsFinished(r)'
        /\ \A y \in Request \ {r} : IsFinished(y)' <=> IsFinished(y)
    BY <2>1, <1>0 DEF IsFinished, TypeOK, Terminal
  <2>3. /\ RowHasOnePage' /\ WritesOwned'
        /\ ReceivesAccounted' /\ LoadingIsHeld'
    BY <2>1, <2>2, ReserveKeepsPages
  <2>4. RunningIsOpen'
    BY <2>1, <2>2, <1>a, <1>b DEF RunningIsOpen
  <2>5. surfaced = {}
    BY <2>1, <1>a DEF SurfacedWhenIdle
  <2> QED BY <2>1, <2>3, <2>4, <2>5, <1>0
          DEF PageInv, SurfacedIsFinished, SurfacedWhenIdle
<1>6. ASSUME NEW r \in Request, AdmitTooLarge(r) PROVE PageInv'
  <2> DEFINE outcome == [x \in {r} |-> "ERROR"]
  <2>1. DOMAIN outcome \subseteq Request /\ \A x \in DOMAIN outcome : outcome[x] \in Terminal
    BY DEF Terminal
  <2>2. FinishRequests(outcome) /\ phase' # "idle" /\ surfaced' = {}
    BY <1>6, <1>a DEF AdmitTooLarge, AtHead, SurfacedWhenIdle
  <2>3. UNCHANGED <<states, shape, kv_loading, kv_received, writes, arrived>>
    BY <1>6 DEF AdmitTooLarge, wireVars
  <2> HIDE DEF outcome
  <2> QED BY <2>1, <2>2, <2>3, <1>0, FinishStep
<1>7. ASSUME NEW r \in Request, AdmitUnregistered(r)
      PROVE  PageInv'
  <2> DEFINE outcome == [x \in {r} |-> "ERROR"]
  <2>1. DOMAIN outcome \subseteq Request /\ \A x \in DOMAIN outcome : outcome[x] \in Terminal
    BY DEF Terminal
  <2>2. FinishRequests(outcome) /\ phase' # "idle" /\ surfaced' = {}
    BY <1>7, <1>a DEF AdmitUnregistered, AtHead, SurfacedWhenIdle
  <2>3. UNCHANGED <<states, shape, kv_loading, kv_received, writes, arrived>>
    BY <1>7 DEF AdmitUnregistered, wireVars
  <2> HIDE DEF outcome
  <2> QED BY <2>1, <2>2, <2>3, <1>0, FinishStep
<1>8. CASE ScheduleEnd
  BY <1>8, <1>0, PageFrame DEF ScheduleEnd, requestVars, wireVars
<1>9. ASSUME NEW r \in Request, NEW x \in Reservations(r), PrefetchStart(r, x)
      PROVE  PageInv'
  <2>1. /\ phase = "prefetch" /\ phase' = "publish" /\ surfaced' = surfaced
        /\ r \in states /\ ~HasPages(r) /\ ~IsFinished(r) /\ Reserve(r, x)
        /\ UNCHANGED <<states, status, shape, running, kv_draining, kv_received,
                       arrived>>
    BY <1>9 DEF PrefetchStart, Prefetchable, queueVars
  <2>2. \A y \in Request : IsFinished(y)' <=> IsFinished(y)
    BY <2>1 DEF IsFinished
  <2>3. /\ RowHasOnePage' /\ WritesOwned'
        /\ ReceivesAccounted' /\ LoadingIsHeld'
    BY <2>1, <2>2, ReserveKeepsPages
  <2>4. RunningIsOpen' /\ surfaced = {}
    BY <2>1, <2>2, <1>a, <1>b DEF RunningIsOpen, SurfacedWhenIdle
  <2> QED BY <2>1, <2>3, <2>4, <1>0
          DEF PageInv, SurfacedIsFinished, SurfacedWhenIdle
<1>10. ASSUME NEW r \in Request, PrefetchUnregistered(r) PROVE PageInv'
  <2> DEFINE outcome == [x \in {r} |-> "ERROR"]
  <2>1. DOMAIN outcome \subseteq Request /\ \A x \in DOMAIN outcome : outcome[x] \in Terminal
    BY DEF Terminal
  <2>2. FinishRequests(outcome) /\ phase' # "idle" /\ surfaced' = {}
    BY <1>10, <1>a DEF PrefetchUnregistered, Prefetchable, SurfacedWhenIdle
  <2>3. UNCHANGED <<states, shape, kv_loading, kv_received, writes, arrived>>
    BY <1>10 DEF PrefetchUnregistered, wireVars
  <2> HIDE DEF outcome
  <2> QED BY <2>1, <2>2, <2>3, <1>0, FinishStep
<1>11. CASE PrefetchSkip
  BY <1>11, <1>0, PageFrame
     DEF PrefetchSkip, requestVars, queueVars, pageVars, kvVars, wireVars
<1>12. CASE Publish
  BY <1>12, <1>0, PageFrame DEF Publish, requestVars, pageVars, wireVars
<1>13. ASSUME NEW D \in SUBSET arrived, UpdateKvConnectorOutput(D)
       PROVE  PageInv'
  <2> DEFINE got  == kv_received \cup {d \in D : d[1] \in kv_loading}
             full == {r \in kv_loading : RowsOf(r) \subseteq got}
             seen == {<<w[1], w[2]>> : w \in writes}
  <2>1. /\ kv_loading' = kv_loading \ full
        /\ kv_received' = got \ RowsOfAll(full)
        /\ arrived' = arrived \ D
        /\ UNCHANGED <<states, status, shape, running, owned, kv_draining, phase,
                       surfaced, writes>>
    BY <1>13 DEF UpdateKvConnectorOutput, CompletedLoads,
       requestVars, queueVars, pageVars, waveVars
  <2>2. got = kv_received \cup D
    BY WritesAreLoading
  <2>3. RowsOfAll(kv_loading \ full) = RowsOfAll(kv_loading) \ RowsOfAll(full)
    BY DEF RowsOfAll, RowsOf
  <2>4. RowsOfAll(full) \subseteq got /\ RowsOfAll(full) \subseteq RowsOfAll(kv_loading)
    BY DEF RowsOfAll
  <2>5. /\ seen \cup arrived \cup kv_received = RowsOfAll(kv_loading)
        /\ seen \cap arrived = {} /\ seen \cap kv_received = {}
        /\ arrived \cap kv_received = {}
    BY <1>a DEF ReceivesAccounted
  <2>6. RowsOfAll(kv_loading)' = RowsOfAll(kv_loading \ full)
    BY <2>1 DEF RowsOfAll, RowsOf
  <2>7. {<<w[1], w[2]>> : w \in writes'} = seen
    BY <2>1
  <2> HIDE DEF got, full, seen
  <2>8. /\ seen \cup arrived' \cup kv_received' = RowsOfAll(kv_loading)'
        /\ seen \cap arrived' = {} /\ seen \cap kv_received' = {}
        /\ arrived' \cap kv_received' = {}
    BY <1>13, <2>1, <2>2, <2>3, <2>4, <2>5, <2>6
  <2>9. ReceivesAccounted'
    BY <2>7, <2>8 DEF ReceivesAccounted
  <2> QED BY <2>1, <2>9, <1>0, <1>a
          DEF PageInv, RowHasOnePage, WritesOwned, LoadingIsHeld,
              HasPages, IsFinished, RunningIsOpen, SurfacedIsFinished,
              SurfacedWhenIdle
<1>14. ASSUME NEW T \in SUBSET out.transfer, FailIncompleteKvLoads(T)
       PROVE  PageInv'
  <2> DEFINE late    == {r \in kv_loading \cap states : RowsOf(r) \cap T # {}}
             outcome == [r \in late |-> "ERROR"]
  <2>1. DOMAIN outcome \subseteq Request /\ \A x \in DOMAIN outcome : outcome[x] \in Terminal
    BY <1>0 DEF Terminal, TypeOK
  <2>2. FinishRequests(outcome) /\ phase' # "idle" /\ surfaced' = {}
    BY <1>14, <1>a DEF FailIncompleteKvLoads, SurfacedWhenIdle, waveVars
  <2>3. UNCHANGED <<states, shape, kv_loading, kv_received, writes, arrived>>
    BY <1>14 DEF FailIncompleteKvLoads, wireVars
  <2> HIDE DEF outcome
  <2> QED BY <2>1, <2>2, <2>3, <1>0, FinishStep
<1>15. ASSUME NEW S \in SUBSET Request, FinishRequestList(S, "ABORTED")
       PROVE  PageInv'
  <2> DEFINE outcome == [x \in S |-> "ABORTED"]
  <2>1. DOMAIN outcome \subseteq Request /\ \A x \in DOMAIN outcome : outcome[x] \in Terminal
    BY DEF Terminal
  <2>2. FinishRequests(outcome) /\ surfaced' = surfaced /\ phase' = phase
    BY <1>15 DEF FinishRequestList, waveVars
  <2>3. UNCHANGED <<states, shape, kv_loading, kv_received, writes, arrived>>
    BY <1>15 DEF FinishRequestList, wireVars
  <2>4. phase' # "idle" => surfaced' = {}
    BY <2>2, <1>a DEF SurfacedWhenIdle
  <2> HIDE DEF outcome
  <2> QED BY <2>1, <2>2, <2>3, <2>4, <1>0, FinishStep
<1>16. ASSUME NEW r \in Request, Preempt(r) PROVE PageInv'
  <2>1. /\ r \in running /\ r \in states /\ r \notin kv_loading
        /\ running' = running \ {r} /\ status' = [status EXCEPT ![r] = "PREEMPTED"]
        /\ UNCHANGED <<states, shape, owned, kv_loading, kv_draining, kv_received,
                       writes, arrived, phase, surfaced>>
    BY <1>16 DEF Preempt, pageVars, kvVars, waveVars, wireVars
  <2>2. \A x \in Request \ {r} : IsFinished(x)' <=> IsFinished(x)
    BY <2>1, <1>0 DEF IsFinished, TypeOK
  <2>3. r \notin surfaced
    BY <2>1, <1>a DEF RunningIsOpen, SurfacedIsFinished
  <2>4. ReceivesAccounted' /\ LoadingIsHeld'
    BY <2>1, <2>2, <1>a, <1>b
       DEF ReceivesAccounted, RowsOfAll, RowsOf, LoadingIsHeld, HasPages
  <2>5. RunningIsOpen' /\ SurfacedIsFinished'
    BY <2>1, <2>2, <2>3, <1>a, <1>b DEF RunningIsOpen, SurfacedIsFinished
  <2> QED BY <2>1, <2>4, <2>5, <1>0, <1>a
          DEF PageInv, RowHasOnePage, WritesOwned, SurfacedWhenIdle
<1>17. CASE ReleaseKvDrains
  <2>1. /\ owned' = {o \in owned : o[1] \notin kv_draining \ kv_loading}
        /\ kv_draining' = kv_draining \ (kv_draining \ kv_loading)
        /\ UNCHANGED <<states, status, shape, running, kv_loading, kv_received,
                       phase, surfaced, writes, arrived>>
    BY <1>17 DEF ReleaseKvDrains, CompletedKvDrains, requestVars, queueVars,
       waveVars, wireVars
  <2>2. WritesOwned'
    BY <2>1, WritesAreLoading DEF WritesOwned
  <2>3. ReceivesAccounted' /\ LoadingIsHeld'
    BY <2>1, <1>a
       DEF ReceivesAccounted, RowsOfAll, RowsOf, LoadingIsHeld, HasPages, IsFinished
  <2> QED BY <2>1, <2>2, <2>3, <1>0, <1>a
          DEF PageInv, RowHasOnePage, RunningIsOpen,
              SurfacedIsFinished, SurfacedWhenIdle, IsFinished
<1>18. ASSUME NEW result \in [Scheduled -> Status], UpdateFromOutput(result)
       PROVE  PageInv'
  <2> DEFINE open     == {r \in Scheduled : r \in states /\ ~IsFinished(r)}
             terminal == [r \in {x \in open : result[x] \in Terminal} |-> result[r]]
  <2>1. /\ FinishRequests(terminal) /\ phase' = "idle"
        /\ surfaced' =
              {r \in out.finished \cup (Scheduled \cap finished_req_ids) :
                   r \in states /\ IsFinished(r)}
              \cup DOMAIN terminal
        /\ UNCHANGED <<states, shape, kv_loading, kv_received, writes, arrived>>
    BY <1>18 DEF UpdateFromOutput, Surfaced, wireVars
  <2>2. DOMAIN terminal \subseteq Request /\ \A x \in DOMAIN terminal : terminal[x] \in Terminal
    BY <1>b
  <2>3. DOMAIN terminal \subseteq Finishing(terminal)
    BY DEF Finishing
  <2> HIDE DEF terminal
  <2>4. surfaced' \subseteq surfaced \cup {r \in states : IsFinished(r)}
            \cup Finishing(terminal)
    BY <2>1, <2>3
  <2> QED BY <2>1, <2>2, <2>4, <1>0, FinishStep
<1>19. ASSUME NEW r \in Request, PopRequestState(r) PROVE PageInv'
  <2>1. r \in states /\ IsFinished(r)
    BY <1>19, <1>a DEF PopRequestState, PendingFinished, SurfacedIsFinished
  <2>2. /\ states' = states \ {r} /\ surfaced' = surfaced \ {r} /\ phase' = phase
        /\ UNCHANGED <<status, shape, running, owned, kv_loading, kv_draining,
                       kv_received, writes, arrived>>
    BY <1>19 DEF PopRequestState, queueVars, kvVars, wireVars
  <2>3. ReceivesAccounted' /\ LoadingIsHeld'
    BY <2>1, <2>2, <1>a
       DEF ReceivesAccounted, RowsOfAll, RowsOf, LoadingIsHeld, HasPages, IsFinished
  <2> QED BY <2>2, <2>3, <1>0, <1>a
          DEF PageInv, RowHasOnePage, WritesOwned, RunningIsOpen,
              SurfacedIsFinished, SurfacedWhenIdle, IsFinished
<1>20. ASSUME NEW w \in writes, WriteArrives(w) PROVE PageInv'
  <2> DEFINE seen == {<<v[1], v[2]>> : v \in writes}
             row  == <<w[1], w[2]>>
  <2>1. /\ writes' = writes \ {w} /\ arrived' = arrived \cup {row}
        /\ UNCHANGED <<states, status, shape, running, owned, kv_loading,
                       kv_draining, kv_received, phase, surfaced>>
    BY <1>20 DEF WriteArrives, requestVars, queueVars, pageVars, kvVars, waveVars
  <2>2. \A v \in writes : v[1] = w[1] /\ v[2] = w[2] => v = w
    BY <1>a DEF WritesOwned, RowHasOnePage
  <2>3. {<<v[1], v[2]>> : v \in writes'} = seen \ {row}
    BY <2>1, <2>2
  <2>4. row \in seen
    OBVIOUS
  <2>5. /\ seen \cup arrived \cup kv_received = RowsOfAll(kv_loading)
        /\ seen \cap arrived = {} /\ seen \cap kv_received = {}
        /\ arrived \cap kv_received = {}
    BY <1>a DEF ReceivesAccounted
  <2>6. RowsOfAll(kv_loading)' = RowsOfAll(kv_loading)
    BY <2>1 DEF RowsOfAll, RowsOf
  <2> HIDE DEF seen, row
  <2>7. /\ (seen \ {row}) \cup arrived' \cup kv_received' = RowsOfAll(kv_loading)'
        /\ (seen \ {row}) \cap arrived' = {} /\ (seen \ {row}) \cap kv_received' = {}
        /\ arrived' \cap kv_received' = {}
    BY <2>1, <2>4, <2>5, <2>6
  <2>8. ReceivesAccounted'
    BY <2>3, <2>7 DEF ReceivesAccounted
  <2> QED BY <2>1, <2>8, <1>0, <1>a
          DEF PageInv, RowHasOnePage, WritesOwned, LoadingIsHeld,
              HasPages, IsFinished, RunningIsOpen, SurfacedIsFinished,
              SurfacedWhenIdle
<1>21. CASE Close
  <2>1. /\ running' = {} /\ owned' = {} /\ kv_loading' = {} /\ kv_received' = {}
        /\ writes' = {} /\ arrived' = {} /\ surfaced' = {}
    BY <1>21 DEF Close
  <2>2. ReceivesAccounted'
    BY <2>1 DEF ReceivesAccounted, RowsOfAll
  <2> QED BY <2>1, <2>2, <1>0
          DEF PageInv, RowHasOnePage, WritesOwned, LoadingIsHeld,
              RunningIsOpen, SurfacedIsFinished, SurfacedWhenIdle
<1>22. CASE UNCHANGED vars
  BY <1>22, <1>0, PageFrame DEF vars, requestVars, queueVars, pageVars, kvVars,
     waveVars, wireVars
<1>23. CASE DropEnded
  BY <1>23, <1>0, PageFrame DEF DropEnded, requestVars, queueVars, pageVars,
     kvVars, wireVars
<1> QED
  BY <1>1, <1>2, <1>3, <1>4, <1>5, <1>6, <1>7, <1>8, <1>9, <1>10, <1>11, <1>12,
     <1>13, <1>14, <1>15, <1>16, <1>17, <1>18, <1>19, <1>20, <1>21, <1>22, <1>23
     DEF Next, InSchedule, Admission, NativePrefetch

LEMMA PageInvariant == Spec => []PageInv
<1>1. Init => PageInv
  BY PageInit
<1>2. PageInv /\ [Next]_vars => PageInv'
  BY PageStep
<1> QED BY <1>1, <1>2, PTL DEF Spec

\* No remote sender ever writes a page that was released or given to another
\* row, for any number of requests, pages and CFG rows.
THEOREM WritesStayOwned == Spec => []WritesOwned
<1>1. PageInv => WritesOwned
  BY DEF PageInv
<1> QED BY <1>1, PageInvariant, PTL

\* No row of a receive is lost or counted twice.
THEOREM ReceivesStayAccounted == Spec => []ReceivesAccounted
<1>1. PageInv => ReceivesAccounted
  BY DEF PageInv
<1> QED BY <1>1, PageInvariant, PTL

\* The engine finalizes only requests that are finished.
THEOREM SurfacedStayFinished == Spec => []SurfacedIsFinished
<1>1. PageInv => SurfacedIsFinished
  BY DEF PageInv
<1> QED BY <1>1, PageInvariant, PTL
=============================================================================
