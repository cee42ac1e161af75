------------------------ MODULE HostWeightStoreProofs ------------------------
(***************************************************************************)
(* Theorems about HostWeightStore, for any number of processes,            *)
(* publications, failures and crashes.                                     *)
(***************************************************************************)
EXTENDS HostWeightStore, FiniteSetTheorems, TLAPS

-----------------------------------------------------------------------------
(* Types.  The invariant adds that a process which handles a publication   *)
(* has one.                                                                *)

NamesOK ==
    /\ place \in [Publications -> Places] /\ onDisk \in [Publications -> SUBSET Places]
    /\ \A b \in Publications : place[b] \in onDisk[b]

MarksOK ==
    /\ marked \in [Publications -> BOOLEAN] /\ markedOnDisk \in [Publications -> SUBSET BOOLEAN]
    /\ \A b \in Publications : marked[b] \in markedOnDisk[b]

CountsOK ==
    /\ corrupt \subseteq Publications /\ condemned \subseteq Publications
    /\ deny \in BOOLEAN /\ deny \in denyOnDisk /\ denyOnDisk \subseteq BOOLEAN
    /\ made \in 0 .. MaxPublications /\ strain \in 0 .. MaxStrain

TasksOK ==
    /\ readers \subseteq Processes
    /\ writer \in Processes \cup {Nobody} /\ builder \in Processes \cup {Nobody}
    /\ pc \in [Processes -> Pcs] /\ call \in [Processes -> Calls]
    /\ full \in [Processes -> BOOLEAN] /\ duty \in [Processes -> Duties]
    /\ held \in [Processes -> Publications \cup {NoPublication}]
    /\ was \in [Processes -> BOOLEAN]
    /\ lease \in [Processes -> Publications \cup {NoPublication}]

Moving == {"lockout", "mark", "replace", "sync", "clear"}
Publishing == {"publish", "harden", "settle", "commit", "condemn"}

HoldsOne ==
    \A p \in Processes :
        /\ pc[p] \in Shared \cup Moving \cup Publishing => held[p] \in Publications
        /\ pc[p] = "undeny" /\ duty[p] = "publish" => held[p] \in Publications
        /\ pc[p] \in {"repair", "sweep"} => duty[p] \in {"prepare", "cleanup"}

TypeInv == NamesOK /\ MarksOK /\ CountsOK /\ TasksOK /\ HoldsOne

LEMMA TypeInit == Init => TypeInv
<1> SUFFICES ASSUME Init PROVE TypeInv
  OBVIOUS
<1>1. NamesOK /\ MarksOK
  BY DEF Init, NamesOK, MarksOK, Places
<1>4. CountsOK
  <2>1. /\ corrupt \subseteq Publications /\ condemned \subseteq Publications
        /\ deny \in BOOLEAN /\ deny \in denyOnDisk /\ denyOnDisk \subseteq BOOLEAN
    BY DEF Init
  <2>2. made \in 0 .. MaxPublications /\ strain \in 0 .. MaxStrain
    BY StoreAssumption DEF Init, StoreAssumption
  <2> QED BY <2>1, <2>2 DEF CountsOK
<1>2. TasksOK
  BY DEF Init, TasksOK, NoPublication, Pcs, Calls, Duties
<1>3. HoldsOne
  BY DEF Init, HoldsOne, Shared, Moving, Publishing
<1> QED BY <1>1, <1>2, <1>3, <1>4 DEF TypeInv

\* A call that ends leaves the tasks of the others alone.
LEMMA StopTasks ==
    ASSUME TypeInv, NEW P \in SUBSET Processes, Stop(P), lease' \in [Processes -> Publications \cup {NoPublication}]
    PROVE  TasksOK' /\ HoldsOne'
BY DEF TypeInv, TasksOK, HoldsOne, Stop, Forget, Unlocked, Pcs, Shared, Exclusive, Building,
       Moving, Publishing, Calls, Duties, NoPublication

LEMMA MissedTasks ==
    ASSUME TypeInv, NEW p \in Processes, Missed(p)
    PROVE  TasksOK' /\ HoldsOne'
<1>1. CASE Return(p)
  BY <1>1, StopTasks DEF Return, TypeInv, TasksOK
<1>2. CASE ~Return(p)
  BY <1>2 DEF Missed, TypeInv, TasksOK, HoldsOne, Go, Pcs, Shared, Exclusive, Building,
              Moving, Publishing, Calls, Duties, NoPublication
<1> QED BY <1>1, <1>2

LEMMA FailTasks ==
    ASSUME TypeInv, NEW p \in Processes, Fail(p)
    PROVE  TasksOK' /\ HoldsOne'
<1>1. CASE Return(p)
  BY <1>1, StopTasks DEF Return, TypeInv, TasksOK
<1>2. CASE ~Return(p)
  BY <1>2 DEF Fail, TypeInv, TasksOK, HoldsOne, Go, task, Pcs, Shared, Exclusive, Building,
              Moving, Publishing, Calls, Duties, NoPublication
<1> QED BY <1>1, <1>2

LEMMA TasksStep ==
    ASSUME TypeInv, NEW p \in Processes, Step(p)
    PROVE  TasksOK' /\ HoldsOne'
<1> USE DEF At, Go
<1>1. ASSUME Return(p) PROVE TasksOK' /\ HoldsOne'
  BY <1>1, StopTasks DEF Return, TypeInv, TasksOK
<1>2. CASE Start(p) \/ Release(p)
  BY <1>2 DEF Start, Release, TypeInv, TasksOK, HoldsOne, locks, task, Pcs, Shared, Exclusive,
              Building, Moving, Publishing, Calls, Duties, NoPublication
<1>3. CASE TimeOut(p) \/ ReadError(p) \/ Discard(p)
  BY <1>1, <1>3 DEF TimeOut, ReadError, Discard
<1>4. CASE Lookup(p)
  <2>1. CASE Missed(p)
    BY <2>1, MissedTasks
  <2>2. CASE ~Missed(p)
    BY <1>4, <2>2 DEF Lookup, Entry, TypeInv, TasksOK, HoldsOne, Pcs, Shared, Exclusive,
              Building, Moving, Publishing, Calls, Duties, NoPublication
  <2> QED BY <2>1, <2>2
<1>5. CASE Check(p)
  <2>1. CASE Missed(p)
    BY <2>1, MissedTasks
  <2>2. CASE ~Missed(p)
    <3>1. held[p] \in Publications
      BY <1>5 DEF Check, TypeInv, HoldsOne, Shared
    <3>2. /\ Forget({p}) /\ lease' = [lease EXCEPT ![p] = held[p]]
          /\ builder' = Unlocked(builder, {p}) /\ UNCHANGED <<readers, writer>>
      BY <1>5, <2>2 DEF Check
    <3>3. \A q \in Processes :
              /\ call[q] \in Calls /\ full[q] \in BOOLEAN /\ duty[q] \in Duties
              /\ held[q] \in Publications \cup {NoPublication} /\ was[q] \in BOOLEAN
              /\ pc[q] \in Pcs
      BY DEF TypeInv, TasksOK
    <3>4. TasksOK'
      BY <3>1, <3>2, <3>3 DEF Forget, Unlocked, TypeInv, TasksOK, Pcs, Calls, Duties
    <3>5. HoldsOne'
      BY <3>2, <3>3 DEF Forget, TypeInv, HoldsOne, Shared, Moving, Publishing
    <3> QED BY <3>4, <3>5
  <2> QED BY <2>1, <2>2
<1>6. CASE Deny(p) \/ DenySync(p)
  <2>1. CASE Missed(p)
    BY <2>1, MissedTasks
  <2>2. CASE ~Missed(p)
    BY <1>6, <2>2 DEF Deny, DenySync, locks, task, TypeInv, TasksOK, HoldsOne, Pcs, Shared,
              Exclusive, Building, Moving, Publishing, Calls, Duties
  <2> QED BY <2>1, <2>2
<1>7. CASE Open(p) \/ Exclude(p)
  <2>1. CASE Return(p)
    BY <1>1, <2>1
  <2>2. CASE ~Return(p)
    <3>1. TasksOK'
      BY <1>7, <2>2 DEF Open, Exclude, locks, task, TypeInv, TasksOK, Pcs, Shared
    <3>2. HoldsOne'
      BY <1>7, <2>2 DEF Open, Exclude, locks, task, TypeInv, TasksOK, HoldsOne, Shared, Moving,
                        Publishing
    <3> QED BY <3>1, <3>2
  <2> QED BY <2>1, <2>2
<1>8. CASE Lockout(p)
  <2>1. CASE Return(p)
    BY <1>1, <2>1
  <2>2. CASE ~Return(p)
    BY <1>8, <2>2 DEF Lockout, TypeInv, TasksOK, HoldsOne, Pcs, Shared,
              Exclusive, Building, Moving, Publishing, Calls, Duties
  <2> QED BY <2>1, <2>2
<1>9. CASE Mark(p) \/ Replace(p) \/ Sync(p) \/ Clear(p)
  <2>1. CASE Fail(p)
    BY <2>1, FailTasks
  <2>2. CASE ~Fail(p)
    <3>1. CASE Mark(p)
      <4>1. was' = [was EXCEPT ![p] = marked[held[p]]] /\ marked[held[p]] \in BOOLEAN
        BY <2>2, <3>1 DEF Mark, TypeInv, MarksOK, HoldsOne, Moving
      <4>2. TasksOK'
        BY <2>2, <3>1, <4>1 DEF Mark, locks, TypeInv, TasksOK, Pcs, Exclusive
      <4>3. HoldsOne'
        BY <2>2, <3>1 DEF Mark, locks, TypeInv, TasksOK, HoldsOne, Shared, Moving, Publishing
      <4> QED BY <4>2, <4>3
    <3>2. CASE Replace(p) \/ Sync(p) \/ Clear(p)
      BY <2>2, <3>2 DEF Replace, Sync, Clear, locks, task, TypeInv, TasksOK, HoldsOne, Pcs,
              Shared, Exclusive, Building, Moving, Publishing, Calls, Duties
    <3> QED BY <1>9, <3>1, <3>2
  <2> QED BY <2>1, <2>2
<1>10. CASE Cleanup(p) \/ Build(p) \/ Prepare(p)
  BY <1>10 DEF Cleanup, Build, Recheck, Prepare, TypeInv, TasksOK, HoldsOne, Pcs, Shared,
              Exclusive, Building, Moving, Publishing, Calls, Duties
<1>11. CASE Repair(p) \/ Sweep(p) \/ Undeny(p) \/ Temps(p)
  <2>1. CASE Return(p)
    BY <1>1, <2>1
  <2>2. CASE ~Return(p)
    <3>1. CASE Repair(p)
      <4>1. /\ UNCHANGED <<locks, call, full, duty, was, lease>>
            /\ \/ pc' = [pc EXCEPT ![p] = "sweep"] /\ UNCHANGED held
               \/ \E b \in Publications :
                      pc' = [pc EXCEPT ![p] = "mark"] /\ held' = [held EXCEPT ![p] = b]
        BY <2>2, <3>1 DEF Repair, Entry
      <4>2. duty[p] \in {"prepare", "cleanup"}
        BY <3>1 DEF Repair, TypeInv, HoldsOne
      <4>3. TasksOK'
        BY <4>1 DEF locks, TypeInv, TasksOK, Pcs, Exclusive
      <4>4. HoldsOne'
        BY <4>1, <4>2 DEF TypeInv, TasksOK, HoldsOne, Shared, Moving, Publishing
      <4> QED BY <4>3, <4>4
    <3>2. CASE Sweep(p) \/ Temps(p)
      BY <2>2, <3>2 DEF Sweep, Temps, task, locks, TypeInv, TasksOK, HoldsOne, Pcs, Shared,
              Exclusive, Building, Moving, Publishing
    <3>3. CASE Undeny(p)
      BY <2>2, <3>3 DEF Undeny, task, locks, TypeInv, TasksOK, HoldsOne, Pcs, Shared,
              Exclusive, Moving, Publishing, Duties
    <3> QED BY <1>11, <3>1, <3>2, <3>3
  <2> QED BY <2>1, <2>2
<1>12. CASE Produce(p)
  <2>1. CASE Return(p)
    BY <1>1, <2>1
  <2>2. CASE ~Return(p)
    <3>1. made + 1 \in Publications
      <4>1. made \in 0 .. MaxPublications /\ made < MaxPublications
        BY <1>12, <2>2 DEF Produce, TypeInv, CountsOK
      <4> QED BY <4>1, StoreAssumption DEF Publications, StoreAssumption
    <3> DEFINE new == made + 1
    <3>2. /\ held' = [held EXCEPT ![p] = new]
          /\ pc' = [pc EXCEPT ![p] = "publish"] \/ pc' = [pc EXCEPT ![p] = "discard"]
          /\ UNCHANGED <<locks, call, full, duty, was, lease>>
      BY <1>12, <2>2 DEF Produce
    <3> HIDE DEF new
    <3>3. TasksOK'
      <4>1. new \in Publications
        BY <3>1 DEF new
      <4> QED BY <3>2, <4>1 DEF locks, TypeInv, TasksOK, Pcs, Building
    <3>4. HoldsOne'
      <4>1. new \in Publications
        BY <3>1 DEF new
      <4> QED BY <3>2, <4>1 DEF TypeInv, TasksOK, HoldsOne, Shared, Moving, Publishing
    <3> QED BY <3>3, <3>4
  <2> QED BY <2>1, <2>2
<1>13. CASE Publish(p) \/ Harden(p) \/ Settle(p) \/ Condemn(p)
  <2>1. TasksOK'
    BY <1>13 DEF Publish, Harden, Settle, Condemn, Reject, locks, task, TypeInv, TasksOK,
              Pcs, Exclusive, Building, Duties
  <2>2. HoldsOne'
    BY <1>13 DEF Publish, Harden, Settle, Condemn, Reject, locks, task, TypeInv, TasksOK,
              HoldsOne, Shared, Moving, Publishing
  <2> QED BY <2>1, <2>2
<1>14. CASE Commit(p)
  BY <1>14 DEF Commit, Reject, locks, task, TypeInv, TasksOK, HoldsOne, NoPublication,
              Pcs, Shared, Exclusive, Building, Moving, Publishing, Calls, Duties
<1> QED BY <1>2, <1>3, <1>4, <1>5, <1>6, <1>7, <1>8, <1>9, <1>10, <1>11, <1>12, <1>13,
           <1>14 DEF Step
LEMMA TroubleCounts ==
    ASSUME TypeInv, NEW n \in Nat, Trouble(n)
    PROVE  strain' \in 0 .. MaxStrain
BY StoreAssumption DEF TypeInv, CountsOK, Trouble, StoreAssumption

LEMMA SyncedNames ==
    ASSUME NamesOK, NEW D, "none" \notin D, onDisk' = Synced(onDisk, D), place' = place
    PROVE  NamesOK'
BY DEF NamesOK, Synced

LEMMA RemovedNames ==
    ASSUME NamesOK, NEW d, d # "none", Removed(d)
    PROVE  NamesOK'
BY DEF NamesOK, Removed, Places

LEMMA RenamedNames ==
    ASSUME NamesOK, NEW b, NEW to \in Places, Rename(b, to)
    PROVE  NamesOK'
BY DEF NamesOK, Rename

LEMMA SetMarks ==
    ASSUME MarksOK, NEW b, NEW mark \in BOOLEAN, SetMark(b, mark)
    PROVE  MarksOK'
BY DEF MarksOK, SetMark

LEMMA NamesStep ==
    ASSUME TypeInv, NEW p \in Processes, Step(p)
    PROVE  NamesOK'
<1> USE DEF TypeInv
<1>1. CASE UNCHANGED names
  BY <1>1 DEF names, NamesOK
<1>2. CASE Replace(p) \/ Publish(p)
  BY <1>1, <1>2, RenamedNames DEF Replace, Publish, Destination, Places
<1>3. CASE Sync(p) \/ Repair(p) \/ Settle(p) \/ Commit(p)
  <2>1. place' = place
    BY <1>3 DEF Sync, Repair, Settle, Commit
  <2>2. \/ onDisk' = onDisk
        \/ onDisk' = Synced(onDisk, {"artifacts"})
        \/ onDisk' = Synced(onDisk, {"quarantine", "cleanup"})
        \/ onDisk' = Synced(onDisk, {"tmp"})
        \/ onDisk' = Synced(Synced(onDisk, {"artifacts"}), {"quarantine", "cleanup"})
    BY <1>3 DEF Sync, Repair, Settle, Commit, Committed
  <2>3. CASE onDisk' = Synced(Synced(onDisk, {"artifacts"}), {"quarantine", "cleanup"})
    BY <2>1, <2>3 DEF NamesOK, Synced
  <2> QED BY <1>1, <2>1, <2>2, <2>3, SyncedNames DEF names
<1>4. CASE Sweep(p) \/ Temps(p)
  BY <1>1, <1>4, RemovedNames DEF Sweep, Temps
<1>5. CASE Produce(p)
  <2> SUFFICES ASSUME ~UNCHANGED names PROVE NamesOK'
    BY <1>1
  <2>1. PICK b : /\ place' = [place EXCEPT ![b] = "tmp"]
                 /\ onDisk' = [onDisk EXCEPT ![b] = {"none", "tmp"}]
    BY <1>5 DEF Produce
  <2> QED BY <2>1 DEF NamesOK, Places
<1>6. CASE Discard(p)
  <2> SUFFICES ASSUME ~UNCHANGED names PROVE NamesOK'
    BY <1>1
  <2>1. PICK b : /\ place' = [place EXCEPT ![b] = "none"]
                 /\ onDisk' = [onDisk EXCEPT ![b] = {"none"}]
    BY <1>6 DEF Discard
  <2> QED BY <2>1 DEF NamesOK, Places
<1>7. CASE ~(Replace(p) \/ Publish(p) \/ Sync(p) \/ Repair(p) \/ Settle(p) \/ Commit(p)
             \/ Sweep(p) \/ Temps(p) \/ Produce(p) \/ Discard(p))
  <2> UNCHANGED names
    BY <1>7 DEF Step, Start, Release, TimeOut, Lookup, Open, Check, ReadError, Deny, DenySync,
                Exclude, Lockout, Mark, Clear, Cleanup, Build, Prepare, Undeny, Harden, Condemn
  <2> QED BY <1>1
<1> QED BY <1>2, <1>3, <1>4, <1>5, <1>6, <1>7

LEMMA MarksStep ==
    ASSUME TypeInv, NEW p \in Processes, Step(p)
    PROVE  MarksOK'
<1> USE DEF TypeInv
<1>1. CASE UNCHANGED marks
  BY <1>1 DEF marks, MarksOK
<1>2. CASE Exclude(p) \/ Mark(p) \/ Condemn(p)
  <2>1. ASSUME markedOnDisk' = [markedOnDisk EXCEPT ![held[p]] = @ \cup {TRUE}],
               marked' = [marked EXCEPT ![held[p]] = TRUE]
        PROVE  MarksOK'
    BY <2>1 DEF MarksOK
  <2> QED BY <1>1, <1>2, <2>1, SetMarks DEF Exclude, Mark, Condemn
<1>3. CASE Replace(p)
  <2> was[p] \in BOOLEAN
    BY DEF TasksOK
  <2> QED BY <1>1, <1>3, SetMarks DEF Replace
<1>4. CASE Clear(p)
  <2>1. CASE SetMark(held[p], FALSE)
    BY <2>1, SetMarks
  <2>2. CASE ~SetMark(held[p], FALSE)
    <3>1. /\ markedOnDisk' = [markedOnDisk EXCEPT ![held[p]] = @ \cup {FALSE}]
          /\ marked' = marked \/ marked' = [marked EXCEPT ![held[p]] = FALSE]
      BY <1>4, <2>2 DEF Clear
    <3>2. markedOnDisk' \in [Publications -> SUBSET BOOLEAN]
      BY <3>1 DEF MarksOK
    <3>3. CASE marked' = marked
      BY <3>1, <3>2, <3>3 DEF MarksOK
    <3>4. CASE marked' = [marked EXCEPT ![held[p]] = FALSE]
      BY <3>1, <3>2, <3>4 DEF MarksOK
    <3> QED BY <3>1, <3>3, <3>4
  <2> QED BY <2>1, <2>2
<1>5. CASE Repair(p)
  <2>1. PICK S \in SUBSET Interrupted :
            /\ marked' = [b \in Publications |-> marked[b] /\ b \notin S]
            /\ \/ markedOnDisk' = [b \in Publications |->
                                        IF b \in S THEN {FALSE} ELSE markedOnDisk[b]]
               \/ markedOnDisk' = [b \in Publications |->
                                        markedOnDisk[b] \cup (IF b \in S THEN {FALSE} ELSE {})]
    BY <1>5 DEF Repair
  <2>2. marked' \in [Publications -> BOOLEAN]
    BY <2>1
  <2>3. ASSUME NEW b \in Publications
        PROVE  /\ markedOnDisk'[b] \in SUBSET BOOLEAN
               /\ b \in S => FALSE \in markedOnDisk'[b]
               /\ b \notin S => markedOnDisk'[b] = markedOnDisk[b]
    <3>1. markedOnDisk[b] \in SUBSET BOOLEAN
      BY DEF MarksOK
    <3>2. CASE markedOnDisk' = [c \in Publications |->
                                   IF c \in S THEN {FALSE} ELSE markedOnDisk[c]]
      BY <3>1, <3>2
    <3>3. CASE markedOnDisk' = [c \in Publications |->
                                   markedOnDisk[c] \cup (IF c \in S THEN {FALSE} ELSE {})]
      <4>1. markedOnDisk'[b] = markedOnDisk[b] \cup (IF b \in S THEN {FALSE} ELSE {})
        BY <3>3
      <4> QED BY <3>1, <4>1
    <3> QED BY <2>1, <3>2, <3>3
  <2>4. markedOnDisk' = [b \in Publications |-> markedOnDisk'[b]]
    BY <2>1
  <2>5. markedOnDisk' \in [Publications -> SUBSET BOOLEAN]
    BY <2>3, <2>4
  <2>6. ASSUME NEW b \in Publications PROVE marked'[b] \in markedOnDisk'[b]
    <3>1. marked[b] \in markedOnDisk[b] /\ marked[b] \in BOOLEAN
      BY DEF MarksOK
    <3>2. CASE b \in S
      <4>1. marked'[b] = FALSE
        BY <2>1, <3>2
      <4> QED BY <2>3, <3>2, <4>1
    <3>3. CASE b \notin S
      <4>1. marked'[b] = marked[b]
        BY <2>1, <3>1, <3>3
      <4> QED BY <2>3, <3>1, <3>3, <4>1
    <3> QED BY <3>2, <3>3
  <2> QED BY <2>2, <2>5, <2>6 DEF MarksOK
<1>6. CASE Produce(p)
  <2>1. UNCHANGED marks \/ \E b : SetMark(b, TRUE)
    BY <1>6 DEF Produce
  <2> QED BY <1>1, <2>1, SetMarks
<1>7. CASE Harden(p)
  <2> SUFFICES ASSUME ~UNCHANGED marks PROVE MarksOK'
    BY <1>1
  <2>1. PICK b : /\ marked' = [marked EXCEPT ![b] = FALSE]
                 /\ markedOnDisk' = [markedOnDisk EXCEPT ![b] = @ \cup {FALSE}]
    BY <1>7 DEF Harden
  <2>2. markedOnDisk' \in [Publications -> SUBSET BOOLEAN]
    BY <2>1 DEF MarksOK
  <2> QED BY <2>1, <2>2 DEF MarksOK
<1>8. CASE Settle(p)
  <2> marked' = marked
    BY <1>8 DEF Settle
  <2> CASE markedOnDisk' = markedOnDisk
    BY DEF MarksOK
  <2> CASE markedOnDisk' = [markedOnDisk EXCEPT ![held[p]] = {marked[held[p]]}]
    BY DEF MarksOK
  <2> QED BY <1>8 DEF Settle
<1>9. CASE ~(Exclude(p) \/ Mark(p) \/ Condemn(p) \/ Replace(p) \/ Clear(p) \/ Repair(p)
             \/ Produce(p) \/ Harden(p) \/ Settle(p))
  <2> UNCHANGED marks
    BY <1>9 DEF Step, Start, Release, TimeOut, Lookup, Open, Check, ReadError, Deny, DenySync,
                Lockout, Sync, Cleanup, Build, Prepare, Sweep, Undeny, Temps, Publish, Commit,
                Discard
  <2> QED BY <1>1
<1> QED BY <1>2, <1>3, <1>4, <1>5, <1>6, <1>7, <1>8, <1>9

LEMMA CountsStep ==
    ASSUME TypeInv, NEW p \in Processes, Step(p)
    PROVE  CountsOK'
<1>1. strain' = strain \/ Trouble(1) \/ Trouble(2)
  BY DEF Step, Start, Release, TimeOut, Lookup, Open, Check, ReadError, Deny, DenySync, Exclude,
         Lockout, Mark, Replace, Sync, Clear, Cleanup, Build, Prepare, Repair, Sweep, Undeny,
         Temps, Produce, Publish, Harden, Settle, Commit, Condemn, Discard, Reject
<1>2. strain' \in 0 .. MaxStrain
  BY <1>1, TroubleCounts DEF TypeInv, CountsOK
<1>3. corrupt' = corrupt
  BY DEF Step, Start, Release, TimeOut, Lookup, Open, Check, ReadError, Deny, DenySync, Exclude,
         Lockout, Mark, Replace, Sync, Clear, Cleanup, Build, Prepare, Repair, Sweep, Undeny,
         Temps, Produce, Publish, Harden, Settle, Commit, Condemn, Discard, rest
<1>4. made' \in 0 .. MaxPublications
  <2>1. CASE Produce(p)
    <3>1. made \in 0 .. MaxPublications /\ (made' = made \/ (made < MaxPublications /\ made' = made + 1))
      BY <2>1 DEF TypeInv, CountsOK, Produce
    <3> QED BY <3>1, StoreAssumption DEF StoreAssumption
  <2>2. CASE ~Produce(p)
    BY <2>2 DEF Step, Start, Release, TimeOut, Lookup, Open, Check, ReadError, Deny, DenySync,
         Exclude, Lockout, Mark, Replace, Sync, Clear, Cleanup, Build, Prepare, Repair, Sweep,
         Undeny, Temps, Publish, Harden, Settle, Commit, Condemn, Discard, rest, TypeInv, CountsOK
  <2> QED BY <2>1, <2>2
<1>5. deny' \in BOOLEAN /\ deny' \in denyOnDisk' /\ denyOnDisk' \subseteq BOOLEAN
  <2>1. CASE UNCHANGED denial
    BY <2>1 DEF denial, TypeInv, CountsOK
  <2>2. CASE Deny(p) \/ DenySync(p) \/ Undeny(p)
    BY <2>1, <2>2 DEF Deny, DenySync, Undeny, denial, TypeInv, CountsOK
  <2>3. CASE ~(Deny(p) \/ DenySync(p) \/ Undeny(p))
    BY <2>1, <2>3 DEF Step, Start, Release, TimeOut, Lookup, Open, Check, ReadError, Exclude,
         Lockout, Mark, Replace, Sync, Clear, Cleanup, Build, Prepare, Repair, Sweep, Temps,
         Produce, Publish, Harden, Settle, Commit, Condemn, Discard
  <2> QED BY <2>2, <2>3
<1>6. condemned' \subseteq Publications
  <2>1. condemned' = condemned \/ condemned' = condemned \cup {held[p]}
    BY DEF Step, Start, Release, TimeOut, Lookup, Open, Check, ReadError, Deny, DenySync, Exclude,
         Lockout, Mark, Replace, Sync, Clear, Cleanup, Build, Prepare, Repair, Sweep, Undeny,
         Temps, Produce, Publish, Harden, Settle, Commit, Condemn, Discard, rest
  <2>2. condemned' # condemned => held[p] \in Publications
    BY DEF Step, Start, Release, TimeOut, Lookup, Open, Check, ReadError, Deny, DenySync, Exclude,
         Lockout, Mark, Replace, Sync, Clear, Cleanup, Build, Prepare, Repair, Sweep, Undeny,
         Temps, Produce, Publish, Harden, Settle, Commit, Condemn, Discard, rest, At, TypeInv,
         HoldsOne, Shared, Moving, Publishing
  <2> QED BY <2>1, <2>2 DEF TypeInv, CountsOK
<1> QED BY <1>2, <1>3, <1>4, <1>5, <1>6 DEF TypeInv, CountsOK

LEMMA OutsideTypes ==
    ASSUME TypeInv, Rot \/ PowerLoss \/ \E p \in Processes : Crash(p)
    PROVE  TypeInv'
<1>1. CASE Rot
  <2>1. corrupt' \subseteq Publications
    BY <1>1 DEF Rot, Entry, TypeInv, CountsOK
  <2>2. NamesOK' /\ MarksOK' /\ HoldsOne'
    BY <1>1 DEF Rot, names, marks, task, TypeInv, NamesOK, MarksOK, HoldsOne
  <2>3. TasksOK'
    BY <1>1 DEF Rot, task, locks, TypeInv, TasksOK
  <2> QED BY <1>1, <2>1, <2>2, <2>3 DEF Rot, denial, TypeInv, CountsOK
<1>2. CASE PowerLoss
  <2>1. TasksOK' /\ HoldsOne'
    <3>1. lease' \in [Processes -> Publications \cup {NoPublication}]
      BY <1>2 DEF PowerLoss
    <3> QED BY <1>2, <3>1, StopTasks DEF PowerLoss
  <2>2. NamesOK'
    BY <1>2 DEF PowerLoss, NamesOK
  <2>3. MarksOK'
    <3>1. markedOnDisk' \in [Publications -> SUBSET BOOLEAN]
      BY <1>2 DEF PowerLoss
    <3>2. \A b \in Publications : marked'[b] \in markedOnDisk'[b]
      BY <1>2 DEF PowerLoss
    <3> QED BY <1>2, <3>1, <3>2 DEF PowerLoss, MarksOK
  <2>4. CountsOK'
    <3>1. strain' \in 0 .. MaxStrain
      BY <1>2, TroubleCounts DEF PowerLoss
    <3>2. /\ deny' \in BOOLEAN /\ deny' \in denyOnDisk' /\ denyOnDisk' \subseteq BOOLEAN
          /\ UNCHANGED rest
      BY <1>2 DEF PowerLoss, TypeInv, CountsOK
    <3> QED BY <3>1, <3>2 DEF rest, TypeInv, CountsOK
  <2> QED BY <2>1, <2>2, <2>3, <2>4 DEF TypeInv
<1>3. ASSUME NEW p \in Processes, Crash(p) PROVE TypeInv'
  <2>1. TasksOK' /\ HoldsOne'
    <3>1. lease' \in [Processes -> Publications \cup {NoPublication}]
      BY <1>3 DEF Crash, TypeInv, TasksOK
    <3> QED BY <1>3, <3>1, StopTasks DEF Crash
  <2>2. strain' \in 0 .. MaxStrain
    BY <1>3, TroubleCounts DEF Crash
  <2> QED BY <1>3, <2>1, <2>2
          DEF Crash, names, marks, denial, rest, TypeInv, NamesOK, MarksOK, CountsOK
<1> QED BY <1>1, <1>2, <1>3

LEMMA TypeStep == TypeInv /\ [Next]_vars => TypeInv'
<1> SUFFICES ASSUME TypeInv, [Next]_vars PROVE TypeInv'
  OBVIOUS
<1>1. ASSUME NEW p \in Processes, Step(p) PROVE TypeInv'
  BY <1>1, NamesStep, MarksStep, CountsStep, TasksStep DEF TypeInv
<1>2. CASE UNCHANGED vars
  BY <1>2 DEF vars, names, marks, denial, locks, task, rest, TypeInv, NamesOK, MarksOK,
              CountsOK, TasksOK, HoldsOne
<1> QED BY <1>1, <1>2, OutsideTypes DEF Next

\* The variables keep their types; in particular what a power loss may find of
\* a directory always includes what is there.
THEOREM StoreTypeCorrect == StoreSpec => []StoreTypeOK
<1>1. TypeInv => StoreTypeOK
  BY DEF TypeInv, NamesOK, MarksOK, CountsOK, TasksOK, StoreTypeOK
<1> QED BY <1>1, TypeInit, TypeStep, PTL DEF StoreSpec

-----------------------------------------------------------------------------
(* What a step of one process leaves to the others.                        *)

LEMMA OtherTasks ==
    ASSUME TypeInv, NEW p \in Processes, Step(p) \/ Crash(p), NEW q \in Processes, q # p
    PROVE  /\ pc'[q] = pc[q] /\ call'[q] = call[q] /\ duty'[q] = duty[q] /\ held'[q] = held[q]
           /\ was'[q] = was[q] /\ lease'[q] = lease[q] /\ (q \in readers' <=> q \in readers)
<1> DEFINE Others == /\ pc'[q] = pc[q] /\ call'[q] = call[q] /\ duty'[q] = duty[q]
                     /\ held'[q] = held[q] /\ was'[q] = was[q] /\ lease'[q] = lease[q]
                     /\ (q \in readers' <=> q \in readers)
<1> USE DEF TypeInv, TasksOK, At, Go
<1>1. ASSUME Return(p) PROVE Others
  BY <1>1 DEF Return, Stop, Forget
<1>2. ASSUME Missed(p) PROVE Others
  BY <1>1, <1>2 DEF Missed
<1>3. ASSUME Fail(p) PROVE Others
  BY <1>1, <1>3 DEF Fail, task
<1>4. CASE Crash(p)
  BY <1>4 DEF Crash, Stop, Forget
<1>5. CASE Start(p) \/ Release(p) \/ TimeOut(p) \/ Lookup(p) \/ Open(p) \/ ReadError(p)
  BY <1>1, <1>2, <1>5 DEF Start, Release, TimeOut, Lookup, Open, ReadError, locks, task
<1>6. CASE Check(p)
  BY <1>2, <1>6 DEF Check, Forget
<1>7. CASE Deny(p) \/ DenySync(p) \/ Exclude(p) \/ Lockout(p)
  BY <1>1, <1>2, <1>7 DEF Deny, DenySync, Exclude, Lockout, locks, task
<1>8. CASE Mark(p) \/ Replace(p) \/ Sync(p) \/ Clear(p)
  BY <1>3, <1>8 DEF Mark, Replace, Sync, Clear, locks, task
<1>9. CASE Cleanup(p) \/ Build(p) \/ Prepare(p) \/ Repair(p) \/ Sweep(p) \/ Undeny(p) \/ Temps(p)
  BY <1>1, <1>9 DEF Cleanup, Build, Recheck, Prepare, Repair, Sweep, Undeny, Temps, locks, task
<1>10. CASE Produce(p) \/ Discard(p)
  BY <1>1, <1>10 DEF Produce, Discard, locks
<1>11. CASE Publish(p) \/ Harden(p) \/ Settle(p) \/ Commit(p) \/ Condemn(p)
  BY <1>11 DEF Publish, Harden, Settle, Commit, Condemn, Reject, locks, task
<1> QED BY <1>4, <1>5, <1>6, <1>7, <1>8, <1>9, <1>10, <1>11 DEF Step

-----------------------------------------------------------------------------
(* The invariant: who holds which lock, who relies on the entry.           *)

LocksOK ==
    /\ readers # {} => writer = Nobody
    /\ \A p \in Processes :
           /\ pc[p] \in Exclusive => writer = p
           /\ pc[p] \in Shared => p \in readers /\ held[p] \in Entry
           /\ lease[p] # NoPublication =>
                  p \in readers /\ lease[p] \in Entry /\ pc[p] = "idle"

UnderBuildLock == {"prepare", "repair", "sweep", "undeny", "temps", "produce", "publish",
                   "discard", "harden", "settle", "commit", "condemn"}

\* A build owns the build lock; from the move to its own rename no entry is there.
BuildsOK ==
    /\ \A b, c \in Entry : b = c
    /\ \A p \in Processes :
           /\ \/ call[p] \in {"recheck", "final", "cleanup"}
              \/ duty[p] \in {"prepare", "cleanup", "publish", "failed"}
              \/ pc[p] \in UnderBuildLock
              => builder = p
           /\ pc[p] \in {"sync", "clear", "sweep", "temps", "produce", "publish"} => Entry = {}
           /\ pc[p] = "undeny" /\ duty[p] # "publish" => Entry = {}
           /\ pc[p] \in {"mark", "replace", "harden", "settle", "commit", "condemn"}
              => held[p] \in Entry
           /\ pc[p] = "undeny" /\ duty[p] = "publish" => held[p] \in Entry
           /\ pc[p] \in {"harden", "settle"} => duty[p] = "publish"

StoreInv == TypeInv /\ LocksOK /\ BuildsOK

LEMMA StoreInit == Init => StoreInv
<1> SUFFICES ASSUME Init PROVE StoreInv
  OBVIOUS
<1>1. LocksOK
  BY DEF Init, LocksOK, Exclusive, Shared
<1>2. BuildsOK
  BY DEF Init, BuildsOK, UnderBuildLock, Entry
<1> QED BY <1>1, <1>2, TypeInit DEF StoreInv

\* A lock is taken when it is free and given up by its holder.
LEMMA LockStep ==
    ASSUME StoreInv, NEW p \in Processes, Step(p) \/ Crash(p)
    PROVE  /\ \/ writer' = writer
              \/ Free /\ writer' = p /\ readers' = readers
              \/ writer = p /\ writer' = Nobody
           /\ \/ builder' = builder
              \/ builder = Nobody /\ builder' = p
              \/ builder = p /\ builder' = Nobody
           /\ \/ readers' \subseteq readers
              \/ readers' = readers \cup {p} /\ writer = Nobody /\ writer' = Nobody
<1> DEFINE Fair == /\ \/ writer' = writer
                      \/ Free /\ writer' = p /\ readers' = readers
                      \/ writer = p /\ writer' = Nobody
                   /\ \/ builder' = builder
                      \/ builder = Nobody /\ builder' = p
                      \/ builder = p /\ builder' = Nobody
                   /\ \/ readers' \subseteq readers
                      \/ readers' = readers \cup {p} /\ writer = Nobody /\ writer' = Nobody
<1> USE DEF Free
<1>1. ASSUME Return(p) PROVE Fair
  BY <1>1 DEF Return, Stop, Unlocked
<1>2. ASSUME Missed(p) PROVE Fair
  BY <1>1, <1>2 DEF Missed
<1>4. CASE Crash(p)
  BY <1>4 DEF Crash, Stop, Unlocked
<1>5. CASE Start(p) \/ Release(p) \/ TimeOut(p) \/ Lookup(p) \/ Open(p) \/ ReadError(p)
  BY <1>1, <1>2, <1>5 DEF Start, Release, TimeOut, Lookup, Open, ReadError, locks
<1>6. CASE Check(p)
  BY <1>2, <1>6 DEF Check, Unlocked
<1>7. CASE Deny(p) \/ DenySync(p) \/ Exclude(p) \/ Lockout(p)
  BY <1>1, <1>2, <1>7 DEF Deny, DenySync, Exclude, Lockout, locks
<1>9. CASE Cleanup(p) \/ Build(p) \/ Prepare(p) \/ Repair(p) \/ Sweep(p) \/ Undeny(p)
  BY <1>1, <1>9 DEF Cleanup, Build, Recheck, Prepare, Repair, Sweep, Undeny, locks
<1>10. CASE Produce(p) \/ Discard(p)
  BY <1>1, <1>10 DEF Produce, Discard, locks
<1>8. ASSUME Fail(p), pc[p] \in Exclusive PROVE Fair
  BY <1>1, <1>8 DEF Fail, StoreInv, LocksOK
<1>11. CASE Mark(p) \/ Replace(p) \/ Sync(p) \/ Clear(p)
  BY <1>8, <1>11 DEF Mark, Replace, Sync, Clear, locks, At, Exclusive
<1>12. CASE Temps(p) \/ Commit(p)
  BY <1>1, <1>12 DEF Temps, Commit, Reject, locks, At, Exclusive, StoreInv, LocksOK
<1>13. CASE Publish(p) \/ Harden(p) \/ Settle(p) \/ Condemn(p)
  BY <1>13 DEF Publish, Harden, Settle, Condemn, Reject, locks
<1> QED BY <1>4, <1>5, <1>6, <1>7, <1>9, <1>10, <1>11, <1>12, <1>13 DEF Step

\* Only a publication brings an entry, only a move takes it away.
LEMMA EntryStep ==
    ASSUME StoreInv, NEW p \in Processes, Step(p)
    PROVE  \/ Entry' = Entry
           \/ Publish(p) /\ Entry' = {held[p]}
           \/ Replace(p) /\ Entry' = {}
<1> USE DEF Entry
<1>1. CASE place' = place
  BY <1>1
<1>2. CASE Replace(p)
  <2>1. held[p] \in Entry /\ \A b \in Entry : b = held[p]
    BY <1>2 DEF Replace, At, StoreInv, BuildsOK
  <2>2. CASE Rename(held[p], Destination(p))
    BY <1>2, <2>1, <2>2 DEF Rename, Destination, StoreInv, TypeInv, NamesOK
  <2> QED BY <1>1, <1>2, <2>2 DEF Replace, names
<1>3. CASE Publish(p)
  <2>1. Entry = {} /\ held[p] \in Publications
    BY <1>3 DEF Publish, At, StoreInv, BuildsOK, TypeInv, HoldsOne, Publishing
  <2>2. CASE Rename(held[p], "artifacts")
    BY <1>3, <2>1, <2>2 DEF Rename, StoreInv, TypeInv, NamesOK
  <2> QED BY <1>1, <1>3, <2>2 DEF Publish, names
<1>4. CASE Sweep(p) \/ Temps(p)
  BY <1>1, <1>4 DEF Sweep, Temps, Removed, names, StoreInv, TypeInv, NamesOK
<1>5. CASE Produce(p)
  <2>1. Entry = {}
    BY <1>5 DEF Produce, At, StoreInv, BuildsOK
  <2>2. place' = place \/ \E b : place' = [place EXCEPT ![b] = "tmp"]
    BY <1>5 DEF Produce, names
  <2> QED BY <1>1, <2>1, <2>2 DEF StoreInv, TypeInv, NamesOK
<1>6. CASE Discard(p)
  BY <1>1, <1>6 DEF Discard, names, StoreInv, TypeInv, NamesOK
<1>7. CASE ~(Replace(p) \/ Publish(p) \/ Sweep(p) \/ Temps(p) \/ Produce(p) \/ Discard(p))
  <2> place' = place
    BY <1>7 DEF Step, Start, Release, TimeOut, Lookup, Open, Check, ReadError, Deny, DenySync,
                Exclude, Lockout, Mark, Sync, Clear, Cleanup, Build, Prepare, Repair, Undeny,
                Harden, Settle, Commit, Condemn, names
  <2> QED BY <1>1
<1> QED BY <1>2, <1>3, <1>4, <1>5, <1>6, <1>7

LEMMA OwnLocks ==
    ASSUME StoreInv, NEW p \in Processes, Step(p)
    PROVE  /\ pc'[p] \in Exclusive => writer' = p
           /\ pc'[p] \in Shared => p \in readers' /\ held'[p] \in Entry'
           /\ lease'[p] # NoPublication =>
                  p \in readers' /\ lease'[p] \in Entry' /\ pc'[p] = "idle"
<1> DEFINE Own == /\ pc'[p] \in Exclusive => writer' = p
                  /\ pc'[p] \in Shared => p \in readers' /\ held'[p] \in Entry'
                  /\ lease'[p] # NoPublication =>
                         p \in readers' /\ lease'[p] \in Entry' /\ pc'[p] = "idle"
<1>0. /\ pc[p] \in Pcs /\ pc \in [Processes -> Pcs] /\ lease \in [Processes -> Publications \cup {NoPublication}]
      /\ held \in [Processes -> Publications \cup {NoPublication}]
      /\ pc[p] \in Exclusive => writer = p
      /\ pc[p] \in Shared => p \in readers /\ held[p] \in Entry
      /\ lease[p] # NoPublication => p \in readers /\ lease[p] \in Entry /\ pc[p] = "idle"
  BY DEF StoreInv, LocksOK, TypeInv, TasksOK
<1> USE <1>0 DEF At, Go
<1>1. ASSUME Return(p), pc[p] # "idle" PROVE Own
  <2>1. pc'[p] = "idle" /\ lease'[p] = NoPublication
    BY <1>1 DEF Return, Stop, Forget
  <2> QED BY <2>1 DEF Exclusive, Shared
<1>2. ASSUME Missed(p), pc[p] # "idle" PROVE Own
  <2>1. CASE Return(p)
    BY <1>1, <1>2, <2>1
  <2>2. CASE ~Return(p)
    <3> pc'[p] \in {"build", "prepare"} /\ lease'[p] = NoPublication
      BY <1>2, <2>2 DEF Missed
    <3> QED BY DEF Exclusive, Shared
  <2> QED BY <2>1, <2>2
<1>3. ASSUME Fail(p), pc[p] # "idle" PROVE Own
  <2>1. CASE Return(p)
    BY <1>1, <1>3, <2>1
  <2>2. CASE ~Return(p)
    <3> pc'[p] = "discard" /\ lease'[p] = NoPublication
      BY <1>3, <2>2 DEF Fail
    <3> QED BY DEF Exclusive, Shared
  <2> QED BY <2>1, <2>2
<1>4. CASE Start(p) \/ Release(p)
  BY <1>4 DEF Start, Release, Exclusive, Shared, locks, names, Entry
<1>5. CASE TimeOut(p) \/ ReadError(p) \/ Discard(p)
  BY <1>1, <1>5 DEF TimeOut, ReadError, Discard
<1>6. CASE Lookup(p)
  BY <1>2, <1>6 DEF Lookup, Exclusive, names, Entry
<1>7. CASE Open(p)
  BY <1>7 DEF Open, Exclusive, Shared, locks, task, names, Entry
<1>8. CASE Check(p)
  <2>1. ASSUME ~Missed(p)
        PROVE  /\ pc'[p] = "idle" /\ lease'[p] = held[p] /\ readers' = readers /\ place' = place
               /\ pc[p] \in Shared
    BY <1>8, <2>1 DEF Check, Forget, names, Shared
  <2>2. CASE ~Missed(p)
    BY <2>1, <2>2 DEF Exclusive, Shared, Entry
  <2> QED BY <1>2, <1>8, <2>2 DEF Check
<1>9. CASE Deny(p) \/ DenySync(p)
  BY <1>2, <1>9 DEF Deny, DenySync, Exclusive, Shared, locks, task, names, Entry
<1>10. CASE Exclude(p)
  BY <1>1, <1>10 DEF Exclude, Exclusive, Shared, task, names, Entry
<1>11. CASE Lockout(p)
  BY <1>1, <1>11 DEF Lockout, Exclusive, Shared
<1>12. CASE Mark(p) \/ Replace(p) \/ Sync(p) \/ Clear(p)
  BY <1>3, <1>12 DEF Mark, Replace, Sync, Clear, locks, task, Exclusive, Shared
<1>13. CASE Cleanup(p) \/ Build(p) \/ Prepare(p)
  BY <1>13 DEF Cleanup, Build, Recheck, Prepare, Exclusive, Shared
<1>14. CASE Repair(p) \/ Sweep(p) \/ Undeny(p) \/ Temps(p)
  BY <1>1, <1>14 DEF Repair, Sweep, Undeny, Temps, locks, task, Exclusive, Shared
<1>15. CASE Produce(p)
  <2>1. CASE ~Return(p)
    <3> pc'[p] \in {"publish", "discard"} /\ lease'[p] = NoPublication
      BY <1>15, <2>1 DEF Produce
    <3> QED BY DEF Exclusive, Shared
  <2> QED BY <1>1, <1>15, <2>1 DEF Produce
<1>16. CASE Publish(p) \/ Harden(p) \/ Settle(p) \/ Commit(p) \/ Condemn(p)
  BY <1>16 DEF Publish, Harden, Settle, Commit, Condemn, Reject, locks, task, Exclusive, Shared
<1> QED BY <1>4, <1>5, <1>6, <1>7, <1>8, <1>9, <1>10, <1>11, <1>12, <1>13, <1>14, <1>15,
           <1>16 DEF Step

LEMMA LocksStep ==
    ASSUME StoreInv, NEW p \in Processes, Step(p)
    PROVE  LocksOK'
<1>1. readers' # {} => writer' = Nobody
  BY LockStep DEF StoreInv, LocksOK, Free
<1>2. ASSUME NEW q \in Processes, q # p
      PROVE  /\ pc'[q] \in Exclusive => writer' = q
             /\ pc'[q] \in Shared => q \in readers' /\ held'[q] \in Entry'
             /\ lease'[q] # NoPublication =>
                    q \in readers' /\ lease'[q] \in Entry' /\ pc'[q] = "idle"
  <2>1. /\ pc'[q] = pc[q] /\ held'[q] = held[q] /\ lease'[q] = lease[q]
        /\ q \in readers' <=> q \in readers
    BY <1>2, OtherTasks DEF StoreInv
  <2>2. q # Nobody /\ p # Nobody
    BY StoreAssumption DEF StoreAssumption
  <2>3. writer = q => writer' = q
    BY <1>2, <2>2, LockStep DEF Free
  <2>4. ASSUME NEW b \in Entry, q \in readers PROVE b \in Entry'
    <3>1. writer = Nobody
      BY <2>4 DEF StoreInv, LocksOK
    <3>2. ~Replace(p)
      BY <2>2, <3>1 DEF Replace, At, StoreInv, LocksOK, Exclusive
    <3>3. ~Publish(p)
      BY <2>4 DEF Publish, Free
    <3> QED BY <2>4, <3>2, <3>3, EntryStep
  <2> QED BY <2>1, <2>3, <2>4 DEF StoreInv, LocksOK
<1> QED BY <1>1, <1>2, OwnLocks DEF LocksOK

LEMMA OwnBuild ==
    ASSUME StoreInv, NEW p \in Processes, Step(p)
    PROVE  \/ call'[p] \in {"recheck", "final", "cleanup"}
           \/ duty'[p] \in {"prepare", "cleanup", "publish", "failed"}
           \/ pc'[p] \in UnderBuildLock
           => builder' = p
<1> DEFINE Own == \/ call'[p] \in {"recheck", "final", "cleanup"}
                  \/ duty'[p] \in {"prepare", "cleanup", "publish", "failed"}
                  \/ pc'[p] \in UnderBuildLock
                  => builder' = p
<1>0. /\ \/ call[p] \in {"recheck", "final", "cleanup"}
         \/ duty[p] \in {"prepare", "cleanup", "publish", "failed"}
         \/ pc[p] \in UnderBuildLock
         => builder = p
      /\ pc \in [Processes -> Pcs] /\ call \in [Processes -> Calls]
      /\ duty \in [Processes -> Duties]
      /\ pc[p] \in {"harden", "settle"} => duty[p] = "publish"
  BY DEF StoreInv, BuildsOK, TypeInv, TasksOK
<1> USE <1>0 DEF At, Go
<1>1. ASSUME Return(p) PROVE Own
  BY <1>1 DEF Return, Stop, Forget, UnderBuildLock
<1>2. ASSUME Missed(p) PROVE Own
  BY <1>1, <1>2 DEF Missed, UnderBuildLock
<1>3. ASSUME Fail(p) PROVE Own
  BY <1>1, <1>3 DEF Fail, task
<1>4. CASE Start(p) \/ Release(p) \/ TimeOut(p) \/ ReadError(p) \/ Discard(p)
  BY <1>1, <1>4 DEF Start, Release, TimeOut, ReadError, Discard, locks, task, UnderBuildLock
<1>5. CASE Lookup(p) \/ Open(p)
  BY <1>2, <1>5 DEF Lookup, Open, locks, task, UnderBuildLock
<1>6. CASE Check(p)
  BY <1>2, <1>6 DEF Check, Forget, UnderBuildLock
<1>7. CASE Deny(p) \/ DenySync(p) \/ Exclude(p)
  BY <1>1, <1>2, <1>7 DEF Deny, DenySync, Exclude, locks, task, UnderBuildLock
<1>8. CASE Lockout(p)
  <2>1. CASE ~Return(p)
    <3>1. /\ pc'[p] = "mark" /\ duty'[p] = "contain" /\ UNCHANGED <<builder, call>>
      BY <1>8, <2>1 DEF Lockout
    <3> QED BY <3>1 DEF UnderBuildLock
  <2> QED BY <1>1, <2>1
<1>9. CASE Mark(p) \/ Replace(p) \/ Sync(p) \/ Clear(p)
  BY <1>3, <1>9 DEF Mark, Replace, Sync, Clear, locks, task, UnderBuildLock
<1>10. CASE Cleanup(p) \/ Build(p) \/ Prepare(p)
  BY <1>10 DEF Cleanup, Build, Recheck, Prepare, UnderBuildLock
<1>11. CASE Repair(p) \/ Sweep(p) \/ Undeny(p) \/ Temps(p)
  BY <1>1, <1>11 DEF Repair, Sweep, Undeny, Temps, locks, task, UnderBuildLock
<1>12. CASE Produce(p) \/ Publish(p) \/ Harden(p) \/ Settle(p) \/ Commit(p) \/ Condemn(p)
  BY <1>1, <1>12 DEF Produce, Publish, Harden, Settle, Commit, Condemn, Reject, locks, task,
                     UnderBuildLock
<1> QED BY <1>4, <1>5, <1>6, <1>7, <1>8, <1>9, <1>10, <1>11, <1>12 DEF Step

\* What the pc of process p promises about the entry.
Promised(p) ==
    /\ pc[p] \in {"sync", "clear", "sweep", "temps", "produce", "publish"} => Entry = {}
    /\ pc[p] = "undeny" /\ duty[p] # "publish" => Entry = {}
    /\ pc[p] \in {"mark", "replace", "harden", "settle", "commit", "condemn"}
       => held[p] \in Entry
    /\ pc[p] = "undeny" /\ duty[p] = "publish" => held[p] \in Entry
    /\ pc[p] \in {"harden", "settle"} => duty[p] = "publish"

LEMMA OwnPromise ==
    ASSUME StoreInv, NEW p \in Processes, Step(p)
    PROVE  Promised(p)'
<1>0. /\ Promised(p) /\ pc \in [Processes -> Pcs] /\ pc[p] \in Pcs /\ duty \in [Processes -> Duties]
      /\ held \in [Processes -> Publications \cup {NoPublication}]
      /\ pc[p] = "sweep" => duty[p] # "publish"
      /\ pc[p] = "publish" => held[p] \in Publications
  BY DEF StoreInv, BuildsOK, TypeInv, TasksOK, HoldsOne, Promised, Publishing
<1> USE <1>0 DEF At, Go
<1>1. ASSUME pc'[p] \in {"idle", "lookup", "build", "prepare", "lockout", "discard", "repair",
                          "open", "check", "deny", "denysync", "exclude"}
      PROVE  Promised(p)'
  BY <1>1 DEF Promised
<1>2. ASSUME Return(p) PROVE Promised(p)'
  BY <1>1, <1>2 DEF Return, Stop, Forget
<1>3. ASSUME Missed(p) PROVE Promised(p)'
  BY <1>1, <1>2, <1>3 DEF Missed
<1>4. ASSUME Fail(p) PROVE Promised(p)'
  BY <1>1, <1>2, <1>4 DEF Fail
<1>5. CASE Start(p) \/ Release(p) \/ TimeOut(p) \/ ReadError(p) \/ Discard(p) \/ Lookup(p)
           \/ Open(p) \/ Deny(p) \/ DenySync(p) \/ Exclude(p) \/ Cleanup(p) \/ Build(p)
           \/ Prepare(p)
  <2>1. CASE Release(p)
    BY <2>1 DEF Release, Promised, Entry, names, task
  <2> QED BY <1>1, <1>2, <1>3, <1>5, <2>1
          DEF Start, TimeOut, ReadError, Discard, Lookup, Open, Deny, DenySync, Exclude, Cleanup,
              Build, Recheck, Prepare
<1>6. CASE Check(p)
  BY <1>1, <1>3, <1>6 DEF Check, Forget
<1>7. CASE Lockout(p)
  <2>1. CASE ~Return(p)
    <3> /\ pc'[p] = "mark" /\ held'[p] \in Entry /\ Entry' = Entry
      BY <1>7, <2>1 DEF Lockout, names, Entry
    <3> QED BY DEF Promised
  <2> QED BY <1>2, <2>1
<1>8. CASE Mark(p) \/ Replace(p) \/ Sync(p) \/ Clear(p)
  <2> SUFFICES ASSUME ~Fail(p) PROVE Promised(p)'
    BY <1>4
  <2>1. CASE Mark(p)
    <3> /\ pc'[p] = "replace" /\ held'[p] = held[p] /\ Entry' = Entry
      BY <2>1 DEF Mark, names, Entry
    <3> QED BY <2>1 DEF Promised, Mark
  <2>2. CASE Replace(p)
    <3>1. pc'[p] = "sync" /\ Rename(held[p], Destination(p)) /\ held[p] \in Entry
      BY <2>2 DEF Replace, Promised
    <3>2. place'[held[p]] # "artifacts"
      BY <3>1 DEF Rename, Destination, Entry, StoreInv, TypeInv, NamesOK
    <3>3. held[p] \notin Entry'
      BY <3>2 DEF Entry
    <3>4. Entry' = {}
      BY <2>2, <3>1, <3>3, EntryStep DEF Replace, Publish
    <3> QED BY <3>1, <3>4 DEF Promised
  <2>3. CASE Sync(p) \/ Clear(p)
    <3>1. /\ pc'[p] \in {"clear", "sweep"} /\ Entry' = Entry /\ Entry = {}
      BY <2>3 DEF Sync, Clear, names, Entry, Promised
    <3> QED BY <3>1 DEF Promised
  <2> QED BY <1>8, <2>1, <2>2, <2>3
<1>9. CASE Repair(p) \/ Sweep(p) \/ Undeny(p) \/ Temps(p)
  <2> SUFFICES ASSUME ~Return(p) PROVE Promised(p)'
    BY <1>2
  <2>0. Entry' = Entry
    BY <1>9, EntryStep DEF Repair, Sweep, Undeny, Temps, Publish, Replace
  <2>1. CASE Repair(p)
    <3> \/ pc'[p] = "sweep" /\ Entry = {}
        \/ pc'[p] = "mark" /\ held'[p] \in Entry
      BY <2>1 DEF Repair
    <3> QED BY <2>0 DEF Promised
  <2>2. CASE Sweep(p)
    <3> pc'[p] = "undeny" /\ Entry = {} /\ duty'[p] # "publish"
      BY <2>2 DEF Sweep, task, Promised
    <3> QED BY <2>0 DEF Promised
  <2>3. CASE Undeny(p)
    <3>1. \/ pc'[p] = "temps" /\ duty[p] = "prepare"
          \/ pc'[p] \in {"commit", "condemn"} /\ duty[p] = "publish"
      BY <2>3 DEF Undeny
    <3>2. held'[p] = held[p]
      BY <2>3 DEF Undeny, task
    <3>3. pc[p] = "undeny"
      BY <2>3 DEF Undeny
    <3> QED BY <2>0, <3>1, <3>2, <3>3 DEF Promised
  <2>4. CASE Temps(p)
    <3> pc'[p] = "produce" /\ Entry = {}
      BY <2>4 DEF Temps, Promised
    <3> QED BY <2>0 DEF Promised
  <2> QED BY <1>9, <2>1, <2>2, <2>3, <2>4
<1>10. CASE Produce(p)
  <2>1. CASE pc'[p] = "publish"
    <3> Entry' = {}
      BY <1>10, EntryStep DEF Produce, Publish, Replace, Promised
    <3> QED BY <2>1 DEF Promised
  <2> QED BY <1>1, <1>2, <1>10, <2>1 DEF Produce
<1>11. CASE Publish(p)
  <2>1. CASE Rename(held[p], "artifacts") /\ pc'[p] = "harden"
    <3>1. held'[p] = held[p] /\ duty'[p] = "publish"
      BY <1>11, <2>1 DEF Publish
    <3>2. held[p] \in Publications
      BY <1>11 DEF Publish
    <3>3. place'[held[p]] = "artifacts"
      BY <2>1, <3>2 DEF Rename, StoreInv, TypeInv, NamesOK
    <3>4. held'[p] \in Entry'
      BY <3>1, <3>2, <3>3 DEF Entry
    <3> QED BY <2>1, <3>1, <3>4 DEF Promised
  <2> QED BY <1>1, <1>11, <2>1 DEF Publish
<1>12. CASE Harden(p) \/ Settle(p) \/ Condemn(p)
  <2>1. Entry' = Entry /\ held' = held /\ held[p] \in Entry
    BY <1>12 DEF Harden, Settle, Condemn, Reject, names, Entry, task, Promised
  <2>2. \/ pc'[p] \in {"condemn", "mark"}
        \/ pc'[p] \in {"settle", "undeny"} /\ duty'[p] = "publish"
    BY <1>12 DEF Harden, Settle, Condemn, Reject, task, Promised
  <2> QED BY <2>1, <2>2 DEF Promised
<1>13. CASE Commit(p)
  <2>1. CASE pc'[p] = "condemn"
    <3> Entry' = Entry /\ held'[p] = held[p] /\ held[p] \in Entry
      BY <1>13, <2>1 DEF Commit, Reject, Entry, Promised
    <3> QED BY <2>1 DEF Promised
  <2> QED BY <1>1, <1>13, <2>1 DEF Commit, Reject
<1> QED BY <1>5, <1>6, <1>7, <1>8, <1>9, <1>10, <1>11, <1>12, <1>13 DEF Step

LEMMA BuildsStep ==
    ASSUME StoreInv, NEW p \in Processes, Step(p)
    PROVE  BuildsOK'
<1>0. p # Nobody
  BY StoreAssumption DEF StoreAssumption
<1>1. \A b, c \in Entry' : b = c
  BY EntryStep DEF StoreInv, BuildsOK
<1>2. ASSUME NEW q \in Processes, q # p
      PROVE  /\ \/ call'[q] \in {"recheck", "final", "cleanup"}
                \/ duty'[q] \in {"prepare", "cleanup", "publish", "failed"}
                \/ pc'[q] \in UnderBuildLock
                => builder' = q
             /\ Promised(q)'
  <2>1. /\ pc'[q] = pc[q] /\ call'[q] = call[q] /\ duty'[q] = duty[q] /\ held'[q] = held[q]
    BY <1>2, OtherTasks DEF StoreInv
  <2>2. q # Nobody
    BY StoreAssumption DEF StoreAssumption
  <2>3. builder = q => builder' = q
    BY <1>2, <2>2, LockStep
  <2>4. Promised(q)
    BY DEF StoreInv, BuildsOK, Promised
  <2>5. Publish(p) => Free /\ builder = p
    BY DEF Publish, At, StoreInv, BuildsOK, UnderBuildLock
  <2>6. Replace(p) => writer = p
    BY DEF Replace, At, StoreInv, LocksOK, Exclusive
  <2>7. /\ pc[q] \in Exclusive => writer = q
        /\ pc[q] \in UnderBuildLock => builder = q
    BY DEF StoreInv, LocksOK, BuildsOK
  <2>8. pc[q] \in Exclusive => Entry' = Entry
    BY <1>2, <2>2, <2>5, <2>6, <2>7, EntryStep DEF Free
  <2>9. pc[q] \in {"produce", "publish"} => Entry' = Entry \/ Entry' = {}
    BY <1>2, <2>5, <2>7, EntryStep DEF UnderBuildLock
  <2>10. Promised(q)'
    BY <2>1, <2>4, <2>8, <2>9 DEF Promised, Exclusive
  <2> QED BY <2>1, <2>3, <2>10 DEF StoreInv, BuildsOK
<1> QED BY <1>1, <1>2, OwnBuild, OwnPromise DEF BuildsOK, Promised

-----------------------------------------------------------------------------
(* The invariant holds, and what follows from it.                          *)

LEMMA OutsideStores ==
    ASSUME StoreInv, TypeInv', Rot \/ PowerLoss \/ \E p \in Processes : Crash(p)
    PROVE  StoreInv'
<1>1. CASE Rot
  <2> Entry' = Entry
    BY <1>1 DEF Rot, names, Entry
  <2> QED BY <1>1 DEF Rot, locks, task, StoreInv, LocksOK, BuildsOK
<1>2. CASE PowerLoss
  <2>1. /\ readers' = {}
        /\ \A p \in Processes : /\ pc'[p] = "idle" /\ call'[p] = "none" /\ duty'[p] = "none"
                                /\ lease'[p] = NoPublication
    BY <1>2 DEF PowerLoss, Stop, Forget, StoreInv, TypeInv, TasksOK
  <2>2. LocksOK'
    BY <2>1 DEF LocksOK, Exclusive, Shared
  <2>3. ASSUME NEW b \in Entry', NEW c \in Entry', b # c PROVE FALSE
    <3>1. IsFiniteSet(Entry') /\ Cardinality(Entry') <= 1
      <4>1. IsFiniteSet(Publications)
        BY FS_Interval, StoreAssumption DEF Publications, StoreAssumption
      <4>2. Entry' \subseteq Publications
        BY DEF Entry
      <4> QED BY <1>2, <4>1, <4>2, FS_Subset DEF PowerLoss
    <3>2. Cardinality({b, c}) = 2
      <4>1. IsFiniteSet({c}) /\ Cardinality({c}) = 1
        BY FS_Singleton
      <4>2. {b, c} = {c} \cup {b} /\ b \notin {c}
        BY <2>3
      <4> QED BY <4>1, <4>2, FS_AddElement
    <3>3. Cardinality({b, c}) <= Cardinality(Entry')
      <4>1. {b, c} \subseteq Entry'
        BY <2>3
      <4> QED BY <3>1, <4>1, FS_Subset
    <3>4. Cardinality(Entry') \in Nat
      BY <3>1, FS_CardinalityType
    <3> QED BY <3>1, <3>2, <3>3, <3>4
  <2>4. BuildsOK'
    BY <2>1, <2>3 DEF BuildsOK, UnderBuildLock
  <2> QED BY <2>2, <2>4 DEF StoreInv
<1>3. ASSUME NEW p \in Processes, Crash(p) PROVE StoreInv'
  <2>0. p # Nobody
    BY StoreAssumption DEF StoreAssumption
  <2>1. Entry' = Entry
    BY <1>3 DEF Crash, names, Entry
  <2>2. /\ pc'[p] = "idle" /\ call'[p] = "none" /\ duty'[p] = "none" /\ lease'[p] = NoPublication
        /\ readers' = readers \ {p} /\ writer' = Unlocked(writer, {p})
        /\ builder' = Unlocked(builder, {p})
    BY <1>3 DEF Crash, Stop, Forget, StoreInv, TypeInv, TasksOK
  <2>3. ASSUME NEW q \in Processes, q # p
        PROVE  /\ pc'[q] = pc[q] /\ call'[q] = call[q] /\ duty'[q] = duty[q]
               /\ held'[q] = held[q] /\ lease'[q] = lease[q]
               /\ q \in readers' <=> q \in readers
    BY <1>3, <2>3, OtherTasks DEF StoreInv
  <2>4. LocksOK'
    <3>1. readers' # {} => writer' = Nobody
      BY <2>2 DEF Unlocked, StoreInv, LocksOK
    <3>2. ASSUME NEW q \in Processes
          PROVE  /\ pc'[q] \in Exclusive => writer' = q
                 /\ pc'[q] \in Shared => q \in readers' /\ held'[q] \in Entry'
                 /\ lease'[q] # NoPublication =>
                        q \in readers' /\ lease'[q] \in Entry' /\ pc'[q] = "idle"
      <4>1. CASE q = p
        BY <2>2, <4>1 DEF Exclusive, Shared
      <4>2. CASE q # p
        BY <2>1, <2>2, <2>3, <4>2 DEF Unlocked, StoreInv, LocksOK
      <4> QED BY <4>1, <4>2
    <3> QED BY <3>1, <3>2 DEF LocksOK
  <2>5. BuildsOK'
    <3>1. ASSUME NEW q \in Processes
          PROVE  /\ \/ call'[q] \in {"recheck", "final", "cleanup"}
                    \/ duty'[q] \in {"prepare", "cleanup", "publish", "failed"}
                    \/ pc'[q] \in UnderBuildLock
                    => builder' = q
                 /\ Promised(q)'
      <4>1. CASE q = p
        BY <2>2, <4>1 DEF UnderBuildLock, Promised
      <4>2. CASE q # p
        <5>1. Promised(q)'
          BY <2>1, <2>3, <4>2 DEF Promised, StoreInv, BuildsOK
        <5> QED BY <2>2, <2>3, <4>2, <5>1 DEF Unlocked, StoreInv, BuildsOK
      <4> QED BY <4>1, <4>2
    <3> QED BY <2>1, <3>1 DEF Promised, StoreInv, BuildsOK
  <2> QED BY <2>4, <2>5 DEF StoreInv
<1> QED BY <1>1, <1>2, <1>3

LEMMA StoreStep == StoreInv /\ [Next]_vars => StoreInv'
<1> SUFFICES ASSUME StoreInv, [Next]_vars PROVE StoreInv'
  OBVIOUS
<1>0. TypeInv'
  BY TypeStep DEF StoreInv
<1>1. ASSUME NEW p \in Processes, Step(p) PROVE StoreInv'
  BY <1>0, <1>1, LocksStep, BuildsStep DEF StoreInv
<1>2. CASE UNCHANGED vars
  <2> Entry' = Entry
    BY <1>2 DEF vars, names, Entry
  <2> QED BY <1>0, <1>2 DEF vars, locks, task, StoreInv, LocksOK, BuildsOK
<1> QED BY <1>0, <1>1, <1>2, OutsideStores DEF Next

LEMMA StoreInvariant == StoreSpec => []StoreInv
BY StoreInit, StoreStep, PTL DEF StoreSpec

\* While a process has a lease, the artifact it maps stays where it is and no
\* process holds the artifact lock exclusively, whatever the others do, however
\* many fail or die.
THEOREM LeaseStaysBacked == StoreSpec => []LeaseBacked
<1>1. StoreInv => LeaseBacked
  BY DEF StoreInv, LocksOK, LeaseBacked, Entry
<1> QED BY <1>1, StoreInvariant, PTL

\* There is never more than one entry, and a build that reached its rename finds
\* none: the branch of the code for a destination that exists is only for
\* processes that take no locks.
THEOREM BuildsPublishAlone == StoreSpec => []PublishesAlone
<1>1. ASSUME StoreInv PROVE PublishesAlone
  <2>1. Cardinality(Entry) <= 1
    <3>1. CASE Entry = {}
      BY <3>1, FS_EmptySet
    <3>2. CASE Entry # {}
      <4>1. PICK b : Entry = {b}
        BY <1>1, <3>2 DEF StoreInv, BuildsOK
      <4> QED BY <4>1, FS_Singleton
    <3> QED BY <3>1, <3>2
  <2>2. ASSUME NEW p \in Processes, At(p, "publish") PROVE Entry = {} /\ builder = p
    BY <1>1, <2>2 DEF At, StoreInv, BuildsOK, UnderBuildLock
  <2> QED BY <2>1, <2>2 DEF PublishesAlone
<1> QED BY <1>1, StoreInvariant, PTL

-----------------------------------------------------------------------------
(* Durability of a commit.                                                 *)

\* What of the publication of process p is durable so far.
Durable(p) ==
    /\ pc[p] \in {"publish", "harden", "settle"}
       => onDisk[held[p]] \subseteq {"none", "tmp", "artifacts"}
    /\ pc[p] = "settle" => marked[held[p]] = FALSE
    /\ pc[p] = "commit" \/ (pc[p] = "undeny" /\ duty[p] = "publish")
       => markedOnDisk[held[p]] = {FALSE} /\ onDisk[held[p]] \subseteq {"none", "artifacts"}

DurableInv == StoreInv /\ \A p \in Processes : Durable(p)

\* The steps that touch the directories of a publication are steps of the
\* process that holds one of the locks.
LEMMA FilesOfOthers ==
    ASSUME StoreInv, NEW p \in Processes, Step(p), NEW q \in Processes, q # p, builder = q
    PROVE  /\ Entry = {} => \A b \in Publications : onDisk'[b] \subseteq onDisk[b]
           /\ writer = q => UNCHANGED <<onDisk, marks>>
<1>1. /\ builder # p
      /\ pc[p] \notin UnderBuildLock
      /\ pc[p] \in Exclusive => writer = p
      /\ pc[p] \in Shared => p \in readers
      /\ readers # {} => writer = Nobody
      /\ q # Nobody
      /\ pc[p] \in {"mark", "replace"} => Entry # {}
  BY StoreAssumption DEF StoreInv, LocksOK, BuildsOK, StoreAssumption
<1> USE DEF At
<1>2. \/ UNCHANGED <<names, marks>> \/ Exclude(p) \/ Mark(p) \/ Replace(p) \/ Sync(p) \/ Clear(p)
  BY <1>1 DEF Step, Start, Release, TimeOut, Lookup, Open, Check, ReadError, Deny, DenySync,
              Lockout, Cleanup, Build, Prepare, Repair, Sweep, Undeny, Temps, Produce, Publish,
              Harden, Settle, Commit, Condemn, Discard, UnderBuildLock
<1>3. CASE UNCHANGED <<names, marks>>
  BY <1>3 DEF names
<1>4. CASE Exclude(p)
  <2>1. writer = Nobody
    BY <1>1, <1>4 DEF Exclude, Shared
  <2> QED BY <1>1, <1>4, <2>1 DEF Exclude, names
<1>5. CASE Mark(p) \/ Replace(p)
  BY <1>1, <1>5 DEF Mark, Replace, Exclusive
<1>6. CASE Sync(p)
  <2>1. writer # q
    BY <1>1, <1>6 DEF Sync, Exclusive
  <2>2. \A b \in Publications : onDisk'[b] \subseteq onDisk[b]
    BY <1>6 DEF Sync, Synced
  <2> QED BY <2>1, <2>2
<1>7. CASE Clear(p)
  BY <1>1, <1>7 DEF Clear, Exclusive, names
<1> QED BY <1>2, <1>3, <1>4, <1>5, <1>6, <1>7

LEMMA OwnDurable ==
    ASSUME DurableInv, NEW p \in Processes, Step(p)
    PROVE  Durable(p)'
<1>0. /\ Durable(p) /\ pc \in [Processes -> Pcs] /\ pc[p] \in Pcs
      /\ duty \in [Processes -> Duties]
      /\ held \in [Processes -> Publications \cup {NoPublication}]
      /\ pc[p] \in {"sweep", "repair"} => duty[p] # "publish"
      /\ pc[p] = "clear" => Entry = {}
      /\ NamesOK /\ MarksOK
  BY DEF DurableInv, StoreInv, BuildsOK, TypeInv, TasksOK, HoldsOne
<1> USE <1>0 DEF At, Go
<1>1. ASSUME pc'[p] \notin {"publish", "harden", "settle", "undeny", "commit"} PROVE Durable(p)'
  BY <1>1 DEF Durable
<1>2. ASSUME Return(p) PROVE Durable(p)'
  BY <1>1, <1>2 DEF Return, Stop, Forget
<1>3. ASSUME Missed(p) PROVE Durable(p)'
  BY <1>1, <1>2, <1>3 DEF Missed
<1>4. ASSUME Fail(p) PROVE Durable(p)'
  BY <1>1, <1>2, <1>4 DEF Fail
<1>5. CASE Start(p) \/ TimeOut(p) \/ ReadError(p) \/ Discard(p) \/ Lookup(p)
           \/ Open(p) \/ Deny(p) \/ DenySync(p) \/ Exclude(p) \/ Cleanup(p) \/ Build(p)
           \/ Prepare(p) \/ Repair(p) \/ Temps(p) \/ Lockout(p)
  BY <1>1, <1>2, <1>3, <1>5
     DEF Start, TimeOut, ReadError, Discard, Lookup, Open, Deny, DenySync, Exclude, Cleanup,
         Build, Recheck, Prepare, Repair, Temps, Lockout
<1>6. CASE Release(p)
  BY <1>6 DEF Release, Durable, names, marks, task
<1>7. CASE Check(p)
  BY <1>1, <1>3, <1>7 DEF Check, Forget
<1>8. CASE Mark(p) \/ Replace(p) \/ Sync(p) \/ Clear(p)
  BY <1>1, <1>4, <1>8 DEF Mark, Replace, Sync, Clear
<1>9. CASE Sweep(p)
  BY <1>2, <1>9 DEF Sweep, Durable, task
<1>10. CASE Undeny(p)
  <2>1. CASE pc'[p] = "commit"
    <3> /\ duty[p] = "publish" /\ held'[p] = held[p] /\ UNCHANGED <<onDisk, markedOnDisk>>
      BY <1>10, <2>1 DEF Undeny, Return, Stop, Forget, task, names, marks
    <3> QED BY <1>10, <2>1 DEF Durable, Undeny
  <2> QED BY <1>1, <1>2, <1>10, <2>1 DEF Undeny
<1>11. CASE Produce(p)
  <2>1. CASE pc'[p] = "publish"
    <3>1. PICK b : onDisk' = [onDisk EXCEPT ![b] = {"none", "tmp"}] /\ held' = [held EXCEPT ![p] = b]
      BY <1>11, <2>1 DEF Produce, Return, Stop, Forget
    <3>2. held'[p] = b /\ b \in Publications
      BY <1>11, <3>1, TasksStep, <2>1 DEF DurableInv, StoreInv, HoldsOne, Publishing
    <3>3. onDisk'[b] = {"none", "tmp"}
      BY <3>1, <3>2 DEF NamesOK
    <3> QED BY <2>1, <3>2, <3>3 DEF Durable
  <2> QED BY <1>1, <1>2, <1>11, <2>1 DEF Produce
<1>12. CASE Publish(p)
  <2>1. CASE pc'[p] = "harden"
    <3>1. Rename(held[p], "artifacts") /\ held'[p] = held[p] /\ held[p] \in Publications
      BY <1>12, <2>1 DEF Publish, DurableInv, StoreInv, TypeInv, HoldsOne, Publishing
    <3>2. onDisk'[held[p]] = onDisk[held[p]] \cup {"artifacts"}
      BY <3>1 DEF Rename, NamesOK
    <3> QED BY <1>12, <2>1, <3>1, <3>2 DEF Durable, Publish
  <2> QED BY <1>1, <1>12, <2>1 DEF Publish
<1>13. CASE Harden(p)
  <2>1. CASE pc'[p] = "settle"
    <3>1. /\ marked' = [marked EXCEPT ![held[p]] = FALSE] /\ held'[p] = held[p]
          /\ onDisk' = onDisk
      BY <1>13, <2>1 DEF Harden, Reject, task, names
    <3>2. held[p] \in Publications
      BY <1>13 DEF Harden, DurableInv, StoreInv, TypeInv, HoldsOne, Publishing
    <3>3. marked'[held[p]] = FALSE
      BY <3>1, <3>2 DEF MarksOK
    <3> QED BY <1>13, <2>1, <3>1, <3>3 DEF Durable, Harden
  <2> QED BY <1>1, <1>13, <2>1 DEF Harden, Reject
<1>14. CASE Settle(p)
  <2>1. CASE pc'[p] = "undeny"
    <3>1. /\ markedOnDisk' = [markedOnDisk EXCEPT ![held[p]] = {marked[held[p]]}]
          /\ onDisk' = Synced(onDisk, {"tmp"}) /\ held'[p] = held[p]
      BY <1>14, <2>1 DEF Settle, Reject, task
    <3>2. held[p] \in Publications /\ place[held[p]] = "artifacts"
      BY <1>14 DEF Settle, DurableInv, StoreInv, BuildsOK, Entry
    <3>3. onDisk'[held[p]] = onDisk[held[p]] \ {"tmp"}
      BY <3>1, <3>2 DEF Synced
    <3>4. markedOnDisk'[held[p]] = {FALSE}
      BY <1>14, <3>1, <3>2 DEF MarksOK, Durable, Settle
    <3> QED BY <1>14, <2>1, <3>1, <3>3, <3>4 DEF Durable, Settle
  <2> QED BY <1>1, <1>14, <2>1 DEF Settle, Reject
<1>15. CASE Commit(p) \/ Condemn(p)
  BY <1>1, <1>15 DEF Commit, Condemn, Reject
<1> QED BY <1>5, <1>6, <1>7, <1>8, <1>9, <1>10, <1>11, <1>12, <1>13, <1>14, <1>15 DEF Step

LEMMA DurableStep == DurableInv /\ [Next]_vars => DurableInv'
<1> SUFFICES ASSUME DurableInv, [Next]_vars PROVE DurableInv'
  OBVIOUS
<1>1. StoreInv'
  BY StoreStep DEF DurableInv
<1>2. ASSUME NEW q \in Processes PROVE Durable(q)'
  <2>1. ASSUME NEW p \in Processes, Step(p), p # q PROVE Durable(q)'
    <3>1. pc'[q] = pc[q] /\ duty'[q] = duty[q] /\ held'[q] = held[q]
      BY <2>1, OtherTasks DEF DurableInv, StoreInv
    <3>2. /\ Durable(q)
          /\ pc[q] \in UnderBuildLock => builder = q
          /\ pc[q] \in Exclusive => writer = q
          /\ pc[q] = "publish" => Entry = {} /\ held[q] \in Publications
      BY DEF DurableInv, StoreInv, LocksOK, BuildsOK, TypeInv, HoldsOne, Publishing
    <3>3. pc[q] \in {"harden", "settle", "undeny", "commit"} => UNCHANGED <<onDisk, marks>>
      BY <2>1, <3>2, FilesOfOthers DEF DurableInv, UnderBuildLock, Exclusive
    <3>4. pc[q] = "publish" => onDisk'[held[q]] \subseteq onDisk[held[q]]
      BY <2>1, <3>2, FilesOfOthers DEF DurableInv, UnderBuildLock
    <3> QED BY <3>1, <3>2, <3>3, <3>4 DEF Durable, marks
  <2>2. ASSUME pc'[q] = "idle" PROVE Durable(q)'
    BY <2>2 DEF Durable
  <2>3. ASSUME NEW p \in Processes, Crash(p) PROVE Durable(q)'
    <3>1. CASE p = q
      BY <2>2, <2>3, <3>1 DEF Crash, Stop, Forget
    <3>2. CASE p # q
      <4>1. pc'[q] = pc[q] /\ duty'[q] = duty[q] /\ held'[q] = held[q]
        BY <2>3, <3>2, OtherTasks DEF DurableInv, StoreInv
      <4> QED BY <2>3, <4>1 DEF Crash, names, marks, DurableInv, Durable
    <3> QED BY <3>1, <3>2
  <2>4. CASE Rot
    BY <2>4 DEF Rot, names, marks, task, DurableInv, Durable
  <2>5. CASE PowerLoss
    BY <2>2, <2>5 DEF PowerLoss, Stop, Forget
  <2>6. CASE UNCHANGED vars
    BY <2>6 DEF vars, names, marks, task, DurableInv, Durable
  <2> QED BY <2>1, <2>3, <2>4, <2>5, <2>6, OwnDurable DEF Next
<1> QED BY <1>1, <1>2 DEF DurableInv

\* When a publication commits, no power loss can move the artifact or bring its
\* marker back: the mode, the removal of the old name and the new name are all
\* on disk by then, in this order.
THEOREM CommitsAreDurable == StoreSpec => CommitIsDurable
<1>1. Init => DurableInv
  BY StoreInit DEF Init, DurableInv, Durable
<1>2. ASSUME DurableInv, [Next]_vars, NEW p \in Processes, At(p, "commit"), pc'[p] = "lookup"
      PROVE  \E b \in Entry : onDisk'[b] = {"artifacts"} /\ markedOnDisk'[b] = {FALSE}
  <2>1. Commit(p)
    <3>1. ASSUME NEW q \in Processes, Step(q) \/ Crash(q) PROVE q = p
      BY <1>2, <3>1, OtherTasks DEF At, DurableInv, StoreInv
    <3>2. ~Crash(p) /\ ~Rot /\ ~PowerLoss /\ ~UNCHANGED vars
      BY <1>2 DEF At, Crash, Rot, PowerLoss, vars, Stop, Forget
    <3>3. Step(p)
      BY <1>2, <3>1, <3>2 DEF Next
    <3>4. lease[p] = NoPublication
      BY <1>2 DEF At, DurableInv, StoreInv, LocksOK
    <3>5. pc[p] = "commit"
      BY <1>2 DEF At
    <3> QED BY <3>3, <3>4, <3>5
            DEF At, Step, Start, Release, TimeOut, Lookup, Open, Check, ReadError, Deny,
                DenySync, Exclude, Lockout, Mark, Replace, Sync, Clear, Cleanup, Build, Prepare,
                Repair, Sweep, Undeny, Temps, Produce, Publish, Harden, Settle, Condemn, Discard
  <2>2. onDisk' = Committed /\ markedOnDisk' = markedOnDisk
    <3>1. pc \in [Processes -> Pcs]
      BY <1>2 DEF DurableInv, StoreInv, TypeInv, TasksOK
    <3>2. ~Reject(p)
      BY <1>2, <3>1 DEF Reject, Go
    <3> QED BY <2>1, <3>2 DEF Commit, marks
  <2>3. held[p] \in Entry
    BY <1>2 DEF At, DurableInv, StoreInv, BuildsOK
  <2>4. /\ markedOnDisk[held[p]] = {FALSE} /\ onDisk[held[p]] \subseteq {"none", "artifacts"}
        /\ "artifacts" \in onDisk[held[p]]
    <3>1. pc[p] = "commit" /\ Durable(p)
      BY <1>2 DEF At, DurableInv
    <3>2. markedOnDisk[held[p]] = {FALSE} /\ onDisk[held[p]] \subseteq {"none", "artifacts"}
      BY <3>1 DEF Durable
    <3>3. "artifacts" \in onDisk[held[p]]
      BY <1>2, <2>3 DEF DurableInv, StoreInv, TypeInv, NamesOK, Entry
    <3> QED BY <3>2, <3>3
  <2>5. onDisk'[held[p]] = onDisk[held[p]] \ {"none"}
    BY <2>2, <2>3 DEF Committed, Synced, Entry
  <2> QED BY <2>2, <2>3, <2>4, <2>5
<1>3. DurableInv /\ [Next]_vars
      => [\A p \in Processes : At(p, "commit") /\ pc'[p] = "lookup" =>
             \E b \in Entry : onDisk'[b] = {"artifacts"} /\ markedOnDisk'[b] = {FALSE}]_vars
  BY <1>2
<1> QED BY <1>1, <1>3, DurableStep, PTL DEF StoreSpec, CommitIsDurable

-----------------------------------------------------------------------------
(* Where the publications are, and what the disk has of the mark of one    *)
(* that can be an entry.                                                   *)

\* A publication that was not begun has no directory.
NoneAhead ==
    \A b \in Publications : b > made => place[b] = "none" /\ onDisk[b] = {"none"}

\* A publication comes from tmp/, and what was moved is not there any more.
Placed(p) ==
    /\ pc[p] = "publish" => place[held[p]] = "tmp"
    /\ pc[p] \in {"sync", "clear"} => place[held[p]] \in {"quarantine", "cleanup"}

\* No move is under way that would put back a mode without the mark.
MarkKept == \A p \in Processes : pc[p] = "replace" => was[p]

\* The entry is marked, on disk as well, and not only for a move.
Excluded(b) == markedOnDisk[b] = {TRUE} /\ MarkKept

Faulty(b) == b \in corrupt \/ Excluded(b)

\* A mark on the way into artifacts/ or in it is durable, unless the artifact is
\* bad anyway.
MarksDurable ==
    \A b \in Publications :
        place[b] \in {"tmp", "artifacts"} /\ marked[b] =>
            markedOnDisk[b] = {TRUE} \/ b \in corrupt

\* Who denies or excludes an artifact has found it marked or corrupt.
Found(p) == pc[p] \in {"deny", "denysync", "exclude"} => Faulty(held[p])

PlacesInv == /\ StoreInv /\ NoneAhead /\ MarksDurable
             /\ \A p \in Processes : Placed(p) /\ Found(p)

\* The steps that move a publication.
LEMMA PlaceStep ==
    ASSUME StoreInv, NEW p \in Processes, Step(p), NEW b \in Publications, place'[b] # place[b]
    PROVE  \/ Replace(p) /\ b = held[p] /\ place'[b] = Destination(p)
           \/ Publish(p) /\ b = held[p] /\ place'[b] = "artifacts"
           \/ Sweep(p) /\ place[b] = "cleanup" /\ place'[b] = "none"
           \/ (Temps(p) \/ Discard(p)) /\ place[b] = "tmp" /\ place'[b] = "none"
           \/ Produce(p) /\ b = made + 1 /\ made' = made + 1 /\ place'[b] = "tmp"
<1>0. place \in [Publications -> Places] /\ held[p] \in Publications \cup {NoPublication}
  BY DEF StoreInv, TypeInv, NamesOK, TasksOK
<1> USE <1>0
<1>1. CASE Replace(p)
  BY <1>1 DEF Replace, Rename, names
<1>2. CASE Publish(p)
  BY <1>2 DEF Publish, Rename, names
<1>3. CASE Sweep(p) \/ Temps(p)
  BY <1>3 DEF Sweep, Temps, Removed, names
<1>4. CASE Produce(p)
  BY <1>4 DEF Produce, names
<1>5. CASE Discard(p)
  BY <1>5 DEF Discard, names
<1>6. CASE ~(Replace(p) \/ Publish(p) \/ Sweep(p) \/ Temps(p) \/ Produce(p) \/ Discard(p))
  <2> place' = place
    BY <1>6 DEF Step, Start, Release, TimeOut, Lookup, Open, Check, ReadError, Deny, DenySync,
                Exclude, Lockout, Mark, Sync, Clear, Cleanup, Build, Prepare, Repair, Undeny,
                Harden, Settle, Commit, Condemn, names
  <2> QED OBVIOUS
<1> QED BY <1>1, <1>2, <1>3, <1>4, <1>5, <1>6

\* The disk learns nothing of a directory that does not exist.
LEMMA DiskStep ==
    ASSUME StoreInv, NEW p \in Processes, Step(p), NEW b \in Publications,
           place[b] = "none", place'[b] = "none", onDisk[b] = {"none"}
    PROVE  onDisk'[b] = {"none"}
<1>0. /\ place \in [Publications -> Places] /\ onDisk \in [Publications -> SUBSET Places]
      /\ held[p] \in Publications \cup {NoPublication}
  BY DEF StoreInv, TypeInv, NamesOK, TasksOK
<1> USE <1>0
<1>1. CASE UNCHANGED onDisk
  BY <1>1
<1>2. ASSUME NEW c, NEW to \in Places \ {"none"}, Rename(c, to) PROVE onDisk'[b] = {"none"}
  <2>1. c # b
    BY <1>2 DEF Rename
  <2> QED BY <1>2, <2>1 DEF Rename
<1>3. CASE Replace(p) \/ Publish(p)
  BY <1>1, <1>2, <1>3 DEF Replace, Publish, Destination, names, Places
<1>4. CASE Sync(p) \/ Repair(p) \/ Settle(p) \/ Commit(p)
  <2>1. \/ onDisk' = onDisk
        \/ onDisk' = Synced(onDisk, {"artifacts"})
        \/ onDisk' = Synced(onDisk, {"quarantine", "cleanup"})
        \/ onDisk' = Synced(onDisk, {"tmp"})
        \/ onDisk' = Synced(Synced(onDisk, {"artifacts"}), {"quarantine", "cleanup"})
    BY <1>4 DEF Sync, Repair, Settle, Commit, Committed
  <2> QED BY <2>1 DEF Synced
<1>5. CASE Sweep(p) \/ Temps(p)
  BY <1>1, <1>5 DEF Sweep, Temps, Removed, names
<1>6. CASE Produce(p)
  <2> SUFFICES ASSUME ~UNCHANGED onDisk PROVE onDisk'[b] = {"none"}
    BY <1>1
  <2>1. PICK c : /\ place' = [place EXCEPT ![c] = "tmp"]
                 /\ onDisk' = [onDisk EXCEPT ![c] = {"none", "tmp"}]
    BY <1>6 DEF Produce, names
  <2> QED BY <2>1
<1>7. CASE Discard(p)
  BY <1>7 DEF Discard, names
<1>8. CASE ~(Replace(p) \/ Publish(p) \/ Sync(p) \/ Repair(p) \/ Settle(p) \/ Commit(p)
             \/ Sweep(p) \/ Temps(p) \/ Produce(p) \/ Discard(p))
  <2> UNCHANGED onDisk
    BY <1>8 DEF Step, Start, Release, TimeOut, Lookup, Open, Check, ReadError, Deny, DenySync,
                Exclude, Lockout, Mark, Clear, Cleanup, Build, Prepare, Undeny, Harden, Condemn,
                names
  <2> QED BY <1>1
<1> QED BY <1>3, <1>4, <1>5, <1>6, <1>7, <1>8

LEMMA NoneAheadStep ==
    ASSUME PlacesInv, NEW p \in Processes, Step(p)
    PROVE  NoneAhead'
<1> SUFFICES ASSUME NEW b \in Publications, b > made'
             PROVE  place'[b] = "none" /\ onDisk'[b] = {"none"}
  BY DEF NoneAhead
<1>1. made \in 0 .. MaxPublications /\ b \in Nat /\ MaxPublications \in Nat
  BY StoreAssumption DEF PlacesInv, StoreInv, TypeInv, CountsOK, Publications, StoreAssumption
<1>2. made' = made \/ made' = made + 1
  BY DEF Step, Start, Release, TimeOut, Lookup, Open, Check, ReadError, Deny, DenySync, Exclude,
         Lockout, Mark, Replace, Sync, Clear, Cleanup, Build, Prepare, Repair, Sweep, Undeny,
         Temps, Produce, Publish, Harden, Settle, Commit, Condemn, Discard, rest
<1>3. b > made
  BY <1>1, <1>2
<1>4. place[b] = "none" /\ onDisk[b] = {"none"}
  BY <1>3 DEF PlacesInv, NoneAhead
<1>5. place'[b] = "none"
  <2>1. Replace(p) => place[held[p]] = "artifacts"
    BY DEF Replace, At, PlacesInv, StoreInv, BuildsOK, Entry
  <2>2. Publish(p) => place[held[p]] = "tmp"
    BY DEF Publish, At, PlacesInv, Placed
  <2>3. ~(b = made + 1 /\ made' = made + 1)
    BY <1>1
  <2> QED BY <1>4, <2>1, <2>2, <2>3, PlaceStep DEF PlacesInv
<1> QED BY <1>4, <1>5, DiskStep DEF PlacesInv

LEMMA OwnPlaced ==
    ASSUME PlacesInv, NEW p \in Processes, Step(p)
    PROVE  Placed(p)'
<1>00. /\ StoreInv /\ Placed(p) /\ pc \in [Processes -> Pcs] /\ pc[p] \in Pcs
       /\ place \in [Publications -> Places]
       /\ held \in [Processes -> Publications \cup {NoPublication}]
  BY DEF PlacesInv, StoreInv, TypeInv, NamesOK, TasksOK
<1> USE <1>00 DEF At, Go
<1>0. (pc'[p] \notin {"publish", "sync", "clear"} => Placed(p)')
  BY DEF Placed
<1>1. ASSUME Return(p) PROVE Placed(p)'
  BY <1>0, <1>1 DEF Return, Stop, Forget
<1>2. ASSUME Missed(p) PROVE Placed(p)'
  BY <1>0, <1>1, <1>2 DEF Missed
<1>3. ASSUME Fail(p) PROVE Placed(p)'
  BY <1>0, <1>1, <1>3 DEF Fail
<1>4. CASE Release(p)
  BY <1>4 DEF Release, Placed, names, task
<1>5. CASE Start(p) \/ TimeOut(p) \/ ReadError(p) \/ Discard(p) \/ Lookup(p) \/ Open(p)
           \/ Deny(p) \/ DenySync(p) \/ Exclude(p) \/ Lockout(p) \/ Cleanup(p) \/ Build(p)
           \/ Prepare(p)
  BY <1>0, <1>1, <1>2, <1>5
     DEF Start, TimeOut, ReadError, Discard, Lookup, Open, Deny, DenySync, Exclude, Lockout,
         Cleanup, Build, Recheck, Prepare
<1>6. CASE Check(p)
  BY <1>0, <1>2, <1>6 DEF Check, Forget
<1>7. CASE Mark(p) \/ Clear(p)
  BY <1>0, <1>3, <1>7 DEF Mark, Clear
<1>8. CASE Replace(p)
  <2>1. CASE ~Fail(p)
    <3>1. Rename(held[p], Destination(p)) /\ held' = held /\ pc'[p] = "sync"
      BY <1>8, <2>1 DEF Replace, task
    <3>2. held[p] \in Publications
      BY <1>8 DEF Replace, StoreInv, TypeInv, HoldsOne, Moving
    <3> QED BY <3>1, <3>2 DEF Rename, Destination, Placed
  <2> QED BY <1>3, <2>1
<1>9. CASE Sync(p)
  <2>1. CASE ~Fail(p)
    BY <1>9, <2>1 DEF Sync, task, Placed
  <2> QED BY <1>3, <2>1
<1>10. CASE Repair(p) \/ Sweep(p) \/ Undeny(p) \/ Temps(p)
  BY <1>0, <1>1, <1>10 DEF Repair, Sweep, Undeny, Temps
<1>11. CASE Produce(p)
  <2>1. CASE pc'[p] = "publish"
    <3>1. /\ place' = [place EXCEPT ![made + 1] = "tmp"] /\ held' = [held EXCEPT ![p] = made + 1]
      BY <1>11, <2>1 DEF Produce, Return, Stop, Forget
    <3>2. held'[p] = made + 1 /\ held'[p] \in Publications
      BY <1>11, <2>1, <3>1, TasksStep DEF HoldsOne, Publishing, StoreInv
    <3> QED BY <2>1, <3>1, <3>2 DEF Placed
  <2> QED BY <1>0, <1>1, <1>11, <2>1 DEF Produce
<1>12. CASE Publish(p) \/ Harden(p) \/ Settle(p) \/ Commit(p) \/ Condemn(p)
  BY <1>0, <1>12 DEF Publish, Harden, Settle, Commit, Condemn, Reject
<1> QED BY <1>4, <1>5, <1>6, <1>7, <1>8, <1>9, <1>10, <1>11, <1>12 DEF Step

LEMMA PlacedStep ==
    ASSUME PlacesInv, NEW p \in Processes, Step(p), NEW q \in Processes
    PROVE  Placed(q)'
<1>0. /\ StoreInv /\ Placed(q) /\ p # Nobody /\ q # Nobody
      /\ pc \in [Processes -> Pcs] /\ place \in [Publications -> Places]
      /\ held \in [Processes -> Publications \cup {NoPublication}]
      /\ pc[q] \in {"publish", "sync", "clear"} => held[q] \in Publications
      /\ pc[q] = "publish" => builder = q
      /\ pc[q] \in {"sync", "clear"} => writer = q
  BY StoreAssumption
     DEF PlacesInv, StoreInv, LocksOK, BuildsOK, TypeInv, NamesOK, TasksOK, HoldsOne, Publishing,
         Moving, Exclusive, UnderBuildLock, StoreAssumption
<1> USE <1>0 DEF At, Go
<1>1. CASE q # p
  <2>1. pc'[q] = pc[q] /\ held'[q] = held[q]
    BY <1>1, OtherTasks DEF StoreInv
  <2>2. CASE pc[q] = "publish"
    <3>1. Replace(p) => held[p] \in Entry
      BY DEF Replace, StoreInv, BuildsOK
    <3>2. ~(Publish(p) \/ Sweep(p) \/ Temps(p) \/ Discard(p) \/ Produce(p))
      BY <1>1, <2>2 DEF Publish, Sweep, Temps, Discard, Produce, StoreInv, BuildsOK,
                        UnderBuildLock
    <3>3. place[held[q]] = "tmp"
      BY <2>2 DEF Placed
    <3>4. place'[held[q]] = place[held[q]]
      BY <2>2, <3>1, <3>2, <3>3, PlaceStep DEF Entry
    <3> QED BY <2>1, <2>2, <3>3, <3>4 DEF Placed
  <2>3. CASE pc[q] \in {"sync", "clear"}
    <3>1. ~(Replace(p) \/ Publish(p) \/ Sweep(p))
      BY <1>1, <2>3 DEF Replace, Publish, Sweep, StoreInv, LocksOK, Exclusive, Free
    <3>2. place[held[q]] \in {"quarantine", "cleanup"}
      BY <2>3 DEF Placed
    <3>3. Produce(p) => place'[held[q]] = place[held[q]]
      <4>1. held[q] # made + 1
        <5>1. made \in Nat
          BY DEF StoreInv, TypeInv, CountsOK
        <5>2. ~(held[q] > made)
          BY <2>3, <3>2 DEF PlacesInv, NoneAhead
        <5> QED BY <5>1, <5>2
      <4> QED BY <2>3, <4>1 DEF Produce, names
    <3>4. place'[held[q]] = place[held[q]]
      BY <2>3, <3>1, <3>2, <3>3, PlaceStep
    <3> QED BY <2>1, <2>3, <3>2, <3>4 DEF Placed
  <2> QED BY <2>1, <2>2, <2>3 DEF Placed
<1>2. CASE q = p
  BY <1>2, OwnPlaced
<1> QED BY <1>1, <1>2

\* A step of a process corrupts nothing.
LEMMA StepKeepsCorrupt ==
    ASSUME NEW p \in Processes, Step(p)
    PROVE  corrupt' = corrupt
BY DEF Step, Start, Release, TimeOut, Lookup, Open, Check, ReadError, Deny, DenySync, Exclude,
       Lockout, Mark, Replace, Sync, Clear, Cleanup, Build, Prepare, Repair, Sweep, Undeny,
       Temps, Produce, Publish, Harden, Settle, Commit, Condemn, Discard, rest

\* A mark stays while the publication is the entry, unless it is being published.
LEMMA ExcludedStays ==
    ASSUME StoreInv, NEW p \in Processes, Step(p), ~Harden(p),
           NEW b \in Entry, b \in Entry', Excluded(b)
    PROVE  Excluded(b)'
<1>0. /\ StoreInv /\ b \in Publications /\ place[b] = "artifacts" /\ place'[b] = "artifacts"
      /\ marked \in [Publications -> BOOLEAN]
      /\ markedOnDisk \in [Publications -> SUBSET BOOLEAN] /\ markedOnDisk[b] = {TRUE}
      /\ marked[b] \in markedOnDisk[b] /\ MarkKept
      /\ pc \in [Processes -> Pcs] /\ was \in [Processes -> BOOLEAN]
      /\ held \in [Processes -> Publications \cup {NoPublication}]
      /\ \A c \in Entry : c = b
  BY DEF StoreInv, BuildsOK, TypeInv, MarksOK, TasksOK, Entry, Excluded
<1> USE <1>0 DEF At, Go
<1>1. ASSUME pc'[p] = "replace" => was'[p] PROVE MarkKept'
  <2> SUFFICES ASSUME NEW q \in Processes, pc'[q] = "replace" PROVE was'[q]
    BY DEF MarkKept
  <2>1. CASE q = p
    BY <1>1, <2>1
  <2>2. CASE q # p
    BY <2>2, OtherTasks DEF MarkKept, StoreInv
  <2> QED BY <2>1, <2>2
<1>2. ASSUME NEW mark, mark = TRUE, SetMark(b, mark) PROVE markedOnDisk'[b] = {TRUE}
  BY <1>2 DEF SetMark
<1>3. MarkKept'
  <2>1. CASE Mark(p)
    <3>1. held[p] = b
      BY <2>1 DEF Mark, StoreInv, BuildsOK
    <3>2. CASE Fail(p)
      BY <1>1, <3>2 DEF Fail, Return, Stop, Forget
    <3>3. CASE ~Fail(p)
      <4>1. was' = [was EXCEPT ![p] = marked[b]]
        BY <2>1, <3>1, <3>3 DEF Mark
      <4>2. was'[p]
        BY <4>1
      <4> QED BY <1>1, <4>2
    <3> QED BY <3>2, <3>3
  <2>2. CASE ~Mark(p)
    <3>1. ASSUME Return(p) PROVE pc'[p] # "replace"
      BY <3>1 DEF Return, Stop, Forget
    <3>2. ASSUME Missed(p) PROVE pc'[p] # "replace"
      BY <3>1, <3>2 DEF Missed
    <3>3. ASSUME Fail(p) PROVE pc'[p] # "replace"
      BY <3>1, <3>3 DEF Fail
    <3>4. CASE Release(p)
      BY <1>1, <3>4 DEF Release, task, MarkKept
    <3>5. CASE Start(p) \/ TimeOut(p) \/ ReadError(p) \/ Discard(p) \/ Lookup(p) \/ Open(p)
               \/ Deny(p) \/ DenySync(p) \/ Exclude(p) \/ Lockout(p) \/ Cleanup(p) \/ Build(p)
               \/ Prepare(p)
      BY <1>1, <3>1, <3>2, <3>5
         DEF Start, TimeOut, ReadError, Discard, Lookup, Open, Deny, DenySync, Exclude, Lockout,
             Cleanup, Build, Recheck, Prepare
    <3>6. CASE Check(p)
      BY <1>1, <3>2, <3>6 DEF Check, Forget
    <3>7. CASE Replace(p) \/ Sync(p) \/ Clear(p)
      BY <1>1, <3>3, <3>7 DEF Replace, Sync, Clear
    <3>8. CASE Repair(p) \/ Sweep(p) \/ Undeny(p) \/ Temps(p) \/ Produce(p)
      BY <1>1, <3>1, <3>8 DEF Repair, Sweep, Undeny, Temps, Produce
    <3>9. CASE Publish(p) \/ Harden(p) \/ Settle(p) \/ Commit(p) \/ Condemn(p)
      BY <1>1, <3>9 DEF Publish, Harden, Settle, Commit, Condemn, Reject
    <3> QED BY <2>2, <3>4, <3>5, <3>6, <3>7, <3>8, <3>9 DEF Step
  <2> QED BY <2>1, <2>2
<1>4. markedOnDisk'[b] = {TRUE}
  <2>1. CASE UNCHANGED marks
    BY <2>1 DEF marks
  <2>2. CASE Exclude(p) \/ Mark(p) \/ Condemn(p)
    <3>1. held[p] = b
      BY <2>2 DEF Exclude, Mark, Condemn, StoreInv, LocksOK, BuildsOK, Shared
    <3>2. CASE markedOnDisk' = [markedOnDisk EXCEPT ![b] = @ \cup {TRUE}]
      BY <3>2
    <3> QED BY <1>2, <2>1, <2>2, <3>1, <3>2 DEF Exclude, Mark, Condemn
  <2>3. CASE Replace(p)
    <3>1. held[p] = b /\ was[p] = TRUE
      <4>1. pc[p] = "replace"
        BY <2>3 DEF Replace
      <4>2. held[p] = b
        BY <4>1 DEF StoreInv, BuildsOK
      <4>3. was[p] \in BOOLEAN /\ was[p]
        BY <4>1 DEF MarkKept
      <4> QED BY <4>2, <4>3
    <3> QED BY <1>2, <2>1, <2>3, <3>1 DEF Replace
  <2>4. CASE Clear(p) \/ Produce(p)
    BY <2>4 DEF Clear, Produce, StoreInv, BuildsOK
  <2>5. CASE Repair(p)
    <3>1. b \notin Interrupted
      BY DEF Interrupted
    <3>2. CASE markedOnDisk' = [c \in Publications |->
                                   IF c \in Interrupted THEN {FALSE} ELSE markedOnDisk[c]]
      BY <3>1, <3>2
    <3>3. ASSUME NEW S \in SUBSET Interrupted,
                 markedOnDisk' = [c \in Publications |->
                                     markedOnDisk[c] \cup (IF c \in S THEN {FALSE} ELSE {})]
          PROVE  markedOnDisk'[b] = markedOnDisk[b]
      BY <3>1, <3>3
    <3> QED BY <2>5, <3>2, <3>3 DEF Repair
  <2>6. CASE Settle(p)
    <3>1. held[p] = b /\ marked[b] = TRUE
      BY <2>6 DEF Settle, StoreInv, BuildsOK
    <3>2. \/ markedOnDisk' = markedOnDisk
          \/ markedOnDisk' = [markedOnDisk EXCEPT ![b] = {TRUE}]
      BY <2>6, <3>1 DEF Settle
    <3> QED BY <3>2
  <2>7. CASE ~(Exclude(p) \/ Mark(p) \/ Condemn(p) \/ Replace(p) \/ Clear(p) \/ Repair(p)
               \/ Produce(p) \/ Settle(p))
    <3> UNCHANGED marks
      BY <2>7 DEF Step, Start, Release, TimeOut, Lookup, Open, Check, ReadError, Deny, DenySync,
                Lockout, Sync, Cleanup, Build, Prepare, Sweep, Undeny, Temps, Publish, Commit,
                Discard
    <3> QED BY <2>1
  <2> QED BY <2>2, <2>3, <2>4, <2>5, <2>6, <2>7
<1> QED BY <1>3, <1>4 DEF Excluded

LEMMA FaultyStays ==
    ASSUME StoreInv, NEW p \in Processes, Step(p), ~Harden(p),
           NEW b \in Entry, b \in Entry', Faulty(b)
    PROVE  Faulty(b)'
<1>1. corrupt' = corrupt
  BY StepKeepsCorrupt
<1> QED BY <1>1, ExcludedStays DEF Faulty

LEMMA MarksDurableStep ==
    ASSUME PlacesInv, NEW p \in Processes, Step(p)
    PROVE  MarksDurable'
<1> SUFFICES ASSUME NEW b \in Publications, place'[b] \in {"tmp", "artifacts"}, marked'[b],
                    b \notin corrupt
             PROVE  markedOnDisk'[b] = {TRUE}
  BY StepKeepsCorrupt DEF MarksDurable
<1>0. /\ StoreInv /\ marked \in [Publications -> BOOLEAN]
      /\ markedOnDisk \in [Publications -> SUBSET BOOLEAN]
      /\ held \in [Processes -> Publications \cup {NoPublication}]
      /\ place[b] \in {"tmp", "artifacts"} /\ marked[b] => markedOnDisk[b] = {TRUE}
  BY DEF PlacesInv, MarksDurable, StoreInv, TypeInv, MarksOK, TasksOK
<1> USE <1>0 DEF At
<1>1. place[b] \in {"tmp", "artifacts"} \/ (Produce(p) /\ b = made + 1 /\ made' = made + 1)
  <2>1. Publish(p) => place[held[p]] = "tmp"
    BY DEF Publish, PlacesInv, Placed
  <2>2. CASE place'[b] = place[b]
    BY <2>2
  <2>3. CASE place'[b] # place[b]
    <3>1. Destination(p) \notin {"tmp", "artifacts"}
      BY DEF Destination
    <3> QED BY <2>1, <2>3, <3>1, PlaceStep
  <2> QED BY <2>2, <2>3
<1>2. CASE UNCHANGED marks
  <2>1. CASE Produce(p) /\ made' = made + 1
    <3> made + 1 # made
      BY DEF StoreInv, TypeInv, CountsOK
    <3> SetMark(made + 1, TRUE)
      BY <2>1 DEF Produce
    <3> QED BY <1>1, <1>2, <2>1 DEF SetMark, marks
  <2> QED BY <1>1, <1>2, <2>1 DEF marks
<1>3. ASSUME NEW c, NEW mark \in BOOLEAN, SetMark(c, mark), ~Produce(p)
      PROVE  markedOnDisk'[b] = {TRUE}
  <2>1. CASE c = b
    BY <1>3, <2>1 DEF SetMark
  <2>2. CASE c # b
    BY <1>1, <1>3, <2>2 DEF SetMark
  <2> QED BY <2>1, <2>2
<1>4. CASE Produce(p)
  <2> SUFFICES ASSUME ~UNCHANGED marks PROVE markedOnDisk'[b] = {TRUE}
    BY <1>2
  <2>1. SetMark(made + 1, TRUE)
    BY <1>4 DEF Produce
  <2>2. CASE b = made + 1
    BY <2>1, <2>2 DEF SetMark
  <2>3. CASE b # made + 1
    BY <1>1, <2>1, <2>3 DEF SetMark
  <2> QED BY <2>2, <2>3
<1>5. CASE Exclude(p) \/ Mark(p) \/ Condemn(p)
  <2>1. ASSUME Exclude(p), marked' = [marked EXCEPT ![held[p]] = TRUE],
               markedOnDisk' = [markedOnDisk EXCEPT ![held[p]] = @ \cup {TRUE}]
        PROVE  markedOnDisk'[b] = {TRUE}
    <3>1. ~Produce(p) /\ Faulty(held[p])
      BY <2>1 DEF Exclude, Produce, PlacesInv, Found
    <3>2. CASE b = held[p]
      BY <2>1, <3>1, <3>2 DEF Faulty, Excluded
    <3>3. CASE b # held[p]
      BY <1>1, <2>1, <3>1, <3>3
    <3> QED BY <3>2, <3>3
  <2> QED BY <1>2, <1>3, <1>5, <2>1 DEF Exclude, Mark, Condemn, Produce
<1>6. CASE Replace(p)
  <2>1. was[p] \in BOOLEAN
    BY DEF StoreInv, TypeInv, TasksOK
  <2>2. ~Produce(p)
    BY <1>6 DEF Replace, Produce
  <2> QED BY <1>2, <1>3, <1>6, <2>1, <2>2 DEF Replace
<1>7. CASE Clear(p)
  <2>1. place[held[p]] \in {"quarantine", "cleanup"}
    BY <1>7 DEF Clear, PlacesInv, Placed
  <2>2. ~Produce(p) /\ b # held[p]
    BY <1>1, <1>7, <2>1 DEF Clear, Produce
  <2>3. CASE ~SetMark(held[p], FALSE)
    BY <1>1, <1>7, <2>2, <2>3 DEF Clear
  <2> QED BY <1>3, <2>2, <2>3
<1>8. CASE Repair(p)
  <2>1. ~Produce(p) /\ b \notin Interrupted
    BY <1>1, <1>8 DEF Repair, Produce, Interrupted
  <2>2. marked'[b] = marked[b] /\ markedOnDisk'[b] = markedOnDisk[b]
    <3>1. CASE markedOnDisk' = [c \in Publications |->
                                   IF c \in Interrupted THEN {FALSE} ELSE markedOnDisk[c]]
      BY <1>8, <2>1, <3>1 DEF Repair
    <3>2. ASSUME NEW S \in SUBSET Interrupted,
                 markedOnDisk' = [c \in Publications |->
                                     markedOnDisk[c] \cup (IF c \in S THEN {FALSE} ELSE {})]
          PROVE  markedOnDisk'[b] = markedOnDisk[b]
      BY <2>1, <3>2
    <3>3. marked'[b] = marked[b]
      BY <1>8, <2>1 DEF Repair
    <3> QED BY <1>8, <3>1, <3>2, <3>3 DEF Repair
  <2> QED BY <1>1, <2>1, <2>2
<1>9. CASE Harden(p)
  <2>1. CASE b = held[p]
    BY <1>1, <1>2, <1>9, <2>1 DEF Harden, Produce
  <2>2. CASE b # held[p]
    BY <1>1, <1>2, <1>9, <2>2 DEF Harden, Produce
  <2> QED BY <2>1, <2>2
<1>10. CASE Settle(p)
  <2>1. marked' = marked /\ ~Produce(p)
    BY <1>10 DEF Settle, Produce
  <2>2. \/ markedOnDisk' = markedOnDisk
        \/ markedOnDisk' = [markedOnDisk EXCEPT ![held[p]] = {marked[held[p]]}]
    BY <1>10 DEF Settle
  <2>3. CASE b = held[p]
    BY <1>1, <2>1, <2>2, <2>3
  <2>4. CASE b # held[p]
    BY <1>1, <2>1, <2>2, <2>4
  <2> QED BY <2>3, <2>4
<1>11. CASE ~(Exclude(p) \/ Mark(p) \/ Condemn(p) \/ Replace(p) \/ Clear(p) \/ Repair(p)
              \/ Produce(p) \/ Harden(p) \/ Settle(p))
  <2> UNCHANGED marks
    BY <1>11 DEF Step, Start, Release, TimeOut, Lookup, Open, Check, ReadError, Deny, DenySync,
                Lockout, Sync, Cleanup, Build, Prepare, Sweep, Undeny, Temps, Publish, Commit,
                Discard
  <2> QED BY <1>2
<1> QED BY <1>4, <1>5, <1>6, <1>7, <1>8, <1>9, <1>10, <1>11

\* The mark that a reader sees on the entry is no passing one.
LEMMA MarkSeen ==
    ASSUME PlacesInv, NEW p \in Processes, pc[p] \in Shared, marked[held[p]]
    PROVE  Faulty(held[p])
<1>1. p \in readers /\ held[p] \in Entry
  BY DEF PlacesInv, StoreInv, LocksOK
<1>2. MarkKept
  <2>1. writer = Nobody
    BY <1>1 DEF PlacesInv, StoreInv, LocksOK
  <2>2. \A q \in Processes : pc[q] # "replace"
    BY <2>1, StoreAssumption DEF PlacesInv, StoreInv, LocksOK, Exclusive, StoreAssumption
  <2> QED BY <2>2 DEF MarkKept
<1>3. held[p] \in corrupt \/ markedOnDisk[held[p]] = {TRUE}
  BY <1>1 DEF PlacesInv, MarksDurable, Entry
<1> QED BY <1>2, <1>3 DEF Faulty, Excluded

LEMMA FoundStep ==
    ASSUME PlacesInv, NEW p \in Processes, Step(p), NEW q \in Processes
    PROVE  Found(q)'
<1> SUFFICES ASSUME pc'[q] \in {"deny", "denysync", "exclude"} PROVE Faulty(held[q])'
  BY DEF Found
<1>0. /\ StoreInv /\ Found(q) /\ pc \in [Processes -> Pcs]
      /\ held \in [Processes -> Publications \cup {NoPublication}]
      /\ pc[q] \in Shared => q \in readers /\ held[q] \in Entry
  BY DEF PlacesInv, StoreInv, LocksOK, TypeInv, TasksOK
<1> USE <1>0 DEF At, Go
<1>1. ASSUME pc[q] \in Shared, Faulty(held[q]), held'[q] = held[q], held[q] \in Entry', ~Harden(p)
      PROVE  Faulty(held[q])'
  <2> DEFINE b == held[q]
  <2>1. b \in Entry /\ b \in Entry' /\ Faulty(b) /\ b' = b
    BY <1>1
  <2> HIDE DEF b
  <2>2. Faulty(b)'
    BY <1>1, <2>1, FaultyStays DEF Faulty, Excluded
  <2> QED BY <2>1, <2>2 DEF b
<1>2. CASE q # p
  <2>1. pc'[q] = pc[q] /\ held'[q] = held[q]
    BY <1>2, OtherTasks DEF StoreInv
  <2>2. StoreInv'
    BY StoreStep DEF Next
  <2>3. held[q] \in Entry'
    BY <2>1, <2>2 DEF StoreInv, LocksOK, Shared
  <2>4. ~Harden(p)
    BY <2>1, StoreAssumption DEF Harden, StoreInv, LocksOK, Exclusive, Shared, StoreAssumption
  <2> QED BY <1>1, <2>1, <2>3, <2>4 DEF Found, Shared
<1>3. CASE q = p
  <2>1. ~Return(p) /\ ~Missed(p) /\ ~Fail(p)
    BY <1>3 DEF Return, Stop, Forget, Missed, Fail
  <2>2. Open(p) \/ Deny(p) \/ DenySync(p)
    BY <1>3, <2>1 DEF Step, Start, Release, TimeOut, Lookup, Check, ReadError, Exclude, Lockout,
       Mark, Replace, Sync, Clear, Cleanup, Build, Recheck, Prepare, Repair, Sweep, Undeny,
       Temps, Produce, Publish, Harden, Settle, Commit, Condemn, Reject, Discard, Forget,
       StoreInv, LocksOK
  <2>3. /\ pc[p] \in Shared /\ held' = held /\ UNCHANGED names /\ ~Harden(p)
    BY <2>1, <2>2 DEF Open, Deny, DenySync, Shared, task, Harden
  <2>4. Faulty(held[p])
    <3>1. CASE Open(p)
      <4> marked[held[p]] \/ held[p] \in corrupt
        BY <1>3, <3>1 DEF Open
      <4> QED BY <2>3, MarkSeen DEF Faulty
    <3>2. CASE Deny(p) \/ DenySync(p)
      BY <1>3, <3>2 DEF Deny, DenySync, Found
    <3> QED BY <2>2, <3>1, <3>2
  <2>5. held[p] \in Entry'
    BY <1>3, <2>3 DEF names, Entry
  <2> QED BY <1>1, <1>3, <2>3, <2>4, <2>5
<1> QED BY <1>2, <1>3

LEMMA CrashKeepsMoves ==
    ASSUME StoreInv, NEW p \in Processes, Crash(p), MarkKept
    PROVE  MarkKept'
<1> SUFFICES ASSUME NEW r \in Processes, pc'[r] = "replace" PROVE was'[r]
  BY DEF MarkKept
<1>1. r # p
  BY DEF Crash, Stop, Forget
<1> QED BY <1>1, OtherTasks DEF StoreInv, MarkKept

LEMMA CrashKeepsFaulty ==
    ASSUME StoreInv, NEW p \in Processes, Crash(p)
    PROVE  \A b : Faulty(b) => Faulty(b)'
<1>1. UNCHANGED <<marks, rest>>
  BY DEF Crash
<1> QED BY <1>1, CrashKeepsMoves DEF Faulty, Excluded, marks, rest

LEMMA PlacesInit == Init => PlacesInv
<1> SUFFICES ASSUME Init PROVE PlacesInv
  OBVIOUS
<1>1. NoneAhead /\ MarksDurable
  BY DEF Init, NoneAhead, MarksDurable
<1>2. \A p \in Processes : Placed(p) /\ Found(p)
  BY DEF Init, Placed, Found
<1> QED BY <1>1, <1>2, StoreInit DEF PlacesInv

LEMMA PlacesNext == PlacesInv /\ [Next]_vars => PlacesInv'
<1> SUFFICES ASSUME PlacesInv, [Next]_vars PROVE PlacesInv'
  OBVIOUS
<1>1. StoreInv'
  BY StoreStep DEF PlacesInv
<1>2. ASSUME NEW p \in Processes, Step(p) PROVE PlacesInv'
  BY <1>1, <1>2, NoneAheadStep, PlacedStep, MarksDurableStep, FoundStep DEF PlacesInv
<1>3. ASSUME NEW p \in Processes, Crash(p) PROVE PlacesInv'
  <2>1. UNCHANGED <<names, marks, made>>
    BY <1>3 DEF Crash, rest
  <2>2. ASSUME NEW q \in Processes PROVE Placed(q)'
    <3>1. CASE q = p
      BY <1>3, <3>1 DEF Crash, Stop, Forget, Placed
    <3>2. CASE q # p
      <4>1. pc'[q] = pc[q] /\ held'[q] = held[q]
        BY <1>3, <3>2, OtherTasks DEF PlacesInv, StoreInv
      <4> QED BY <2>1, <4>1 DEF names, PlacesInv, Placed
    <3> QED BY <3>1, <3>2
  <2>3. ASSUME NEW q \in Processes PROVE Found(q)'
    <3>1. CASE q = p
      BY <1>3, <3>1 DEF Crash, Stop, Forget, Found
    <3>2. CASE q # p
      <4>1. pc'[q] = pc[q] /\ held'[q] = held[q] /\ Found(q)
        BY <1>3, <3>2, OtherTasks DEF PlacesInv, StoreInv
      <4>2. \A b : Faulty(b) => Faulty(b)'
        BY <1>3, CrashKeepsFaulty DEF PlacesInv
      <4>3. Faulty(held[q]) => Faulty(held[q])'
        BY <4>1, <4>2 DEF Faulty, Excluded
      <4> QED BY <4>1, <4>3 DEF Found
    <3> QED BY <3>1, <3>2
  <2>4. corrupt' = corrupt
    BY <1>3 DEF Crash, rest
  <2> QED BY <1>1, <2>1, <2>2, <2>3, <2>4 DEF names, marks, PlacesInv, NoneAhead, MarksDurable
<1>4. CASE PowerLoss
  <2>1. \A p \in Processes : Placed(p)' /\ Found(p)'
    BY <1>4 DEF PowerLoss, Stop, Forget, Placed, Found
  <2>2. NoneAhead'
    BY <1>4 DEF PowerLoss, rest, PlacesInv, NoneAhead
  <2>3. MarksDurable'
    BY <1>4 DEF PowerLoss, MarksDurable
  <2> QED BY <1>1, <2>1, <2>2, <2>3 DEF PlacesInv
<1>5. CASE Rot \/ UNCHANGED vars
  <2>1. /\ UNCHANGED <<names, marks, made, pc, task>> /\ corrupt \subseteq corrupt'
    BY <1>5 DEF Rot, vars, rest
  <2>2. ASSUME NEW q \in Processes PROVE Placed(q)' /\ Found(q)'
    BY <2>1 DEF names, marks, task, PlacesInv, Placed, Found, Faulty, Excluded, MarkKept
  <2> QED BY <1>1, <2>1, <2>2 DEF names, marks, PlacesInv, NoneAhead, MarksDurable
<1> QED BY <1>2, <1>3, <1>4, <1>5 DEF Next

LEMMA PlacesInvariant == StoreSpec => []PlacesInv
BY PlacesInit, PlacesNext, PTL DEF StoreSpec

-----------------------------------------------------------------------------
(* What a build may take away.                                             *)

\* A build that found no artifact to use, up to its move of the entry.
Preparing(p) ==
    \/ pc[p] = "prepare" /\ call[p] = "recheck"
    \/ pc[p] \in {"repair", "mark"} /\ duty[p] = "prepare"

\* What a build takes away is denied, marked or corrupt.
RemovalDue == deny \/ \A b \in Entry : Faulty(b)

Due(p) ==
    /\ pc[p] = "denysync" => deny
    /\ pc[p] = "prepare" => call[p] \in {"recheck", "cleanup"}
    /\ pc[p] = "condemn" => duty[p] = "failed"
    /\ Preparing(p) => RemovalDue

DueInv == PlacesInv /\ \A p \in Processes : Due(p)

\* A removal that is due stays so while nothing else is published or undenied.
LEMMA RemovalStaysDue ==
    ASSUME PlacesInv, RemovalDue, NEW p \in Processes, Step(p), ~Harden(p), ~Publish(p),
           deny' \in BOOLEAN, deny => deny'
    PROVE  RemovalDue'
<1>1. \A b \in Entry' : b \in Entry
  BY EntryStep DEF PlacesInv
<1>2. StoreInv
  BY DEF PlacesInv
<1>3. CASE deny
  BY <1>3 DEF RemovalDue
<1>4. CASE \A b \in Entry : Faulty(b)
  <2> SUFFICES ASSUME NEW b \in Entry' PROVE Faulty(b)'
    BY DEF RemovalDue
  <2> QED BY <1>1, <1>2, <1>4, FaultyStays
<1> QED BY <1>3, <1>4 DEF RemovalDue

LEMMA OwnDue ==
    ASSUME DueInv, NEW p \in Processes, Step(p)
    PROVE  Due(p)'
<1>0. /\ PlacesInv /\ StoreInv /\ Due(p) /\ pc \in [Processes -> Pcs] /\ pc[p] \in Pcs
      /\ call \in [Processes -> Calls] /\ duty \in [Processes -> Duties] /\ deny \in BOOLEAN
  BY DEF DueInv, PlacesInv, StoreInv, TypeInv, CountsOK, TasksOK
<1> USE <1>0 DEF At, Go
<1>1. ASSUME \/ pc'[p] \notin {"denysync", "prepare", "condemn", "repair", "mark"}
             \/ pc'[p] = "mark" /\ duty'[p] # "prepare"
      PROVE  Due(p)'
  BY <1>1 DEF Due, Preparing
<1>2. ASSUME Return(p) PROVE Due(p)'
  BY <1>1, <1>2 DEF Return, Stop, Forget
<1>3. ASSUME Missed(p), RemovalDue' PROVE Due(p)'
  BY <1>1, <1>2, <1>3 DEF Missed, Due, Preparing
<1>4. ASSUME Fail(p) PROVE Due(p)'
  BY <1>1, <1>2, <1>4 DEF Fail
<1>5. CASE Release(p)
  <2>1. pc[p] = "idle" /\ pc' = pc
    BY <1>5 DEF Release, StoreInv, LocksOK
  <2> QED BY <1>1, <2>1
<1>6. CASE Lookup(p)
  <2>1. CASE Missed(p) /\ (Entry = {} \/ deny)
    <3> RemovalDue'
      BY <1>6, <2>1 DEF Lookup, RemovalDue, Entry, names, denial
    <3> QED BY <1>3, <2>1
  <2> QED BY <1>1, <1>6, <2>1 DEF Lookup
<1>7. CASE Check(p)
  <2>1. CASE Missed(p)
    <3>1. CASE deny
      <4> RemovalDue'
        BY <1>7, <3>1 DEF Check, RemovalDue, denial
      <4> QED BY <1>3, <2>1
    <3>2. CASE ~deny /\ DeniedMeanwhile(p)
      <4>1. Faulty(held[p])
        BY <1>7, <3>2, MarkSeen DEF Check, DeniedMeanwhile, Shared, Faulty
      <4>2. RemovalDue
        BY <1>7, <4>1 DEF Check, RemovalDue, StoreInv, LocksOK, BuildsOK, Shared
      <4>3. ~Harden(p) /\ ~Publish(p) /\ deny' = deny
        BY <1>7 DEF Check, Harden, Publish, denial
      <4> QED BY <1>3, <2>1, <4>2, <4>3, RemovalStaysDue
    <3>3. CASE ~deny /\ ~DeniedMeanwhile(p)
      <4> pc'[p] = "idle"
        BY <1>7, <3>3 DEF Check, Forget
      <4> QED BY <1>1
    <3> QED BY <3>1, <3>2, <3>3
  <2> QED BY <1>1, <1>7, <2>1 DEF Check, Forget
<1>8. CASE Deny(p)
  <2>1. CASE deny
    <3> Missed(p) /\ RemovalDue'
      BY <1>8, <2>1 DEF Deny, RemovalDue, denial
    <3> QED BY <1>3
  <2>2. CASE ~deny
    <3>1. (deny' /\ pc'[p] = "denysync") \/ pc'[p] = "exclude"
      BY <1>8, <2>2 DEF Deny
    <3> QED BY <1>1, <3>1 DEF Due, Preparing
  <2> QED BY <2>1, <2>2
<1>9. CASE DenySync(p)
  <2>1. RemovalDue'
    BY <1>9 DEF DenySync, Due, RemovalDue
  <2> QED BY <1>1, <1>3, <1>9, <2>1 DEF DenySync
<1>10. CASE Start(p) \/ TimeOut(p) \/ ReadError(p) \/ Discard(p) \/ Open(p) \/ Exclude(p)
            \/ Build(p) \/ Sweep(p) \/ Temps(p) \/ Produce(p)
  BY <1>1, <1>2, <1>10 DEF Start, TimeOut, ReadError, Discard, Open, Exclude, Build, Recheck,
                          Sweep, Temps, Produce
<1>11. CASE Lockout(p)
  <2>1. CASE ~Return(p)
    <3> pc'[p] = "mark" /\ duty'[p] = "contain"
      BY <1>11, <2>1 DEF Lockout
    <3> QED BY <1>1
  <2> QED BY <1>2, <2>1
<1>12. CASE Mark(p) \/ Replace(p) \/ Sync(p) \/ Clear(p)
  BY <1>1, <1>4, <1>12 DEF Mark, Replace, Sync, Clear
<1>13. CASE Cleanup(p)
  BY <1>13 DEF Cleanup, Due, Preparing
<1>14. CASE Prepare(p)
  <2>1. /\ pc'[p] = "repair" /\ pc[p] = "prepare"
        /\ duty'[p] = IF call[p] = "cleanup" THEN "cleanup" ELSE "prepare"
    BY <1>14 DEF Prepare
  <2>2. ~Harden(p) /\ ~Publish(p) /\ deny' = deny
    BY <1>14 DEF Prepare, Harden, Publish, denial
  <2>3. call[p] = "recheck" => RemovalDue'
    BY <2>1, <2>2, RemovalStaysDue DEF Due, Preparing
  <2> QED BY <2>1, <2>3 DEF Due, Preparing
<1>15. CASE Repair(p)
  <2>1. CASE pc'[p] = "mark"
    <3>1. pc[p] = "repair" /\ duty'[p] = duty[p]
      BY <1>15, <2>1 DEF Repair, Return, Stop, Forget
    <3>2. ~Harden(p) /\ ~Publish(p) /\ deny' = deny
      BY <1>15 DEF Repair, Harden, Publish, denial
    <3>3. duty[p] = "prepare" => RemovalDue'
      BY <3>1, <3>2, RemovalStaysDue DEF Due, Preparing
    <3> QED BY <2>1, <3>1, <3>3 DEF Due, Preparing
  <2> QED BY <1>1, <1>2, <1>15, <2>1 DEF Repair
<1>16. CASE Undeny(p)
  <2>1. CASE pc'[p] = "condemn"
    BY <1>16, <2>1 DEF Undeny, Return, Stop, Forget, Due, Preparing
  <2> QED BY <1>1, <1>2, <1>16, <2>1 DEF Undeny
<1>17. CASE Publish(p) \/ Harden(p) \/ Settle(p) \/ Commit(p)
  <2>1. CASE Reject(p)
    BY <2>1 DEF Reject, Due, Preparing
  <2> QED BY <1>1, <1>17, <2>1 DEF Publish, Harden, Settle, Commit
<1>18. CASE Condemn(p)
  BY <1>1, <1>18 DEF Condemn, task, Due
<1> QED BY <1>5, <1>6, <1>7, <1>8, <1>9, <1>10, <1>11, <1>12, <1>13, <1>14, <1>15, <1>16,
           <1>17, <1>18 DEF Step

\* A denial is removed by Undeny only, and written by Deny only.
LEMMA DenialStep ==
    ASSUME StoreInv, NEW p \in Processes, Step(p)
    PROVE  /\ deny' # deny => (Undeny(p) /\ ~deny') \/ (Deny(p) /\ deny')
           /\ denyOnDisk' # denyOnDisk =>
                  \/ Undeny(p)
                  \/ Deny(p) /\ ~deny
                  \/ DenySync(p) /\ denyOnDisk' = {deny}
<1>1. CASE Undeny(p) \/ Deny(p) \/ DenySync(p)
  <2>1. deny \in BOOLEAN /\ deny' \in BOOLEAN
    BY TypeStep DEF Next, StoreInv, TypeInv, CountsOK
  <2> QED BY <1>1, <2>1 DEF Undeny, Deny, DenySync, denial, At
<1>2. CASE ~(Undeny(p) \/ Deny(p) \/ DenySync(p))
  <2> UNCHANGED denial
    BY <1>2 DEF Step, Start, Release, TimeOut, Lookup, Open, Check, ReadError, Exclude,
         Lockout, Mark, Replace, Sync, Clear, Cleanup, Build, Prepare, Repair, Sweep, Temps,
         Produce, Publish, Harden, Settle, Commit, Condemn, Discard
  <2> QED BY DEF denial
<1> QED BY <1>1, <1>2

LEMMA DueInit == Init => DueInv
<1> SUFFICES ASSUME Init PROVE DueInv
  OBVIOUS
<1> \A p \in Processes : Due(p)
  BY DEF Init, Due, Preparing
<1> QED BY PlacesInit DEF DueInv

LEMMA DueNext == DueInv /\ [Next]_vars => DueInv'
<1> SUFFICES ASSUME DueInv, [Next]_vars PROVE DueInv'
  OBVIOUS
<1>0. PlacesInv' /\ StoreInv
  BY PlacesNext DEF DueInv, PlacesInv
<1>1. ASSUME NEW q \in Processes, pc'[q] = "idle" PROVE Due(q)'
  BY <1>1 DEF Due, Preparing
<1>2. ASSUME NEW p \in Processes, Step(p), NEW q \in Processes, q # p PROVE Due(q)'
  <2>1. pc'[q] = pc[q] /\ call'[q] = call[q] /\ duty'[q] = duty[q]
    BY <1>0, <1>2, OtherTasks DEF StoreInv
  <2>2. Due(q) /\ deny \in BOOLEAN /\ deny' \in BOOLEAN
    BY <1>0 DEF DueInv, PlacesInv, StoreInv, TypeInv, CountsOK
  <2>3. /\ Undeny(p) \/ Harden(p) \/ Publish(p) => builder = p
        /\ Undeny(p) => writer = p /\ readers = {}
    BY <1>0, StoreAssumption DEF Undeny, Harden, Publish, At, StoreInv, LocksOK, BuildsOK,
             UnderBuildLock, Exclusive, StoreAssumption
  <2>4. pc[q] = "denysync" => deny'
    <3>1. pc[q] = "denysync" => q \in readers /\ deny
      BY <1>0, <2>2 DEF StoreInv, LocksOK, Shared, Due
    <3> QED BY <1>0, <1>2, <2>2, <2>3, <3>1, DenialStep
  <2>5. ASSUME Preparing(q) PROVE RemovalDue'
    <3>1. builder = q
      BY <1>0, <2>5 DEF Preparing, StoreInv, BuildsOK, UnderBuildLock
    <3>2. ~Undeny(p) /\ ~Harden(p) /\ ~Publish(p)
      BY <1>2, <2>3, <3>1
    <3>3. deny => deny'
      BY <1>0, <1>2, <2>2, <3>2, DenialStep
    <3>4. RemovalDue
      BY <2>2, <2>5 DEF Due
    <3> QED BY <1>2, <2>2, <3>2, <3>3, <3>4, RemovalStaysDue DEF DueInv
  <2> QED BY <2>1, <2>2, <2>4, <2>5 DEF Due, Preparing
<1>3. ASSUME NEW p \in Processes, Crash(p), NEW q \in Processes PROVE Due(q)'
  <2>1. CASE q = p
    BY <1>1, <1>3, <2>1 DEF Crash, Stop, Forget
  <2>2. CASE q # p
    <3>1. pc'[q] = pc[q] /\ call'[q] = call[q] /\ duty'[q] = duty[q]
      BY <1>0, <1>3, <2>2, OtherTasks DEF StoreInv
    <3>2. UNCHANGED <<names, marks, denial, rest>>
      BY <1>3 DEF Crash
    <3>3. MarkKept => MarkKept'
      BY <1>0, <1>3, CrashKeepsMoves
    <3>4. RemovalDue => RemovalDue'
      BY <3>2, <3>3 DEF RemovalDue, Faulty, Excluded, Entry, names, marks, denial, rest
    <3> QED BY <3>1, <3>2, <3>4 DEF DueInv, Due, Preparing, denial
  <2> QED BY <2>1, <2>2
<1>4. ASSUME PowerLoss, NEW q \in Processes PROVE Due(q)'
  BY <1>1, <1>4 DEF PowerLoss, Stop, Forget
<1>5. ASSUME Rot \/ UNCHANGED vars, NEW q \in Processes PROVE Due(q)'
  <2>1. /\ UNCHANGED <<names, marks, denial, pc, task>>
        /\ corrupt \subseteq corrupt'
    BY <1>5 DEF Rot, vars, rest
  <2>2. RemovalDue => RemovalDue'
    BY <2>1 DEF RemovalDue, Faulty, Excluded, MarkKept, Entry, names, marks, denial, task
  <2> QED BY <2>1, <2>2 DEF DueInv, Due, Preparing, denial, task
<1>6. \A q \in Processes : Due(q)'
  BY <1>2, <1>3, <1>4, <1>5, OwnDue DEF Next
<1> QED BY <1>0, <1>6 DEF DueInv

\* Whatever fails, dies or is lost: a build that takes the entry away found it
\* corrupt or marked, or found a denial.
THEOREM RemovalsAreDue ==
    StoreSpec => [](\A p \in Processes : At(p, "mark") /\ duty[p] = "prepare" =>
                        deny \/ held[p] \in corrupt \/ marked[held[p]])
<1>1. ASSUME DueInv, NEW p \in Processes, At(p, "mark"), duty[p] = "prepare"
      PROVE  deny \/ held[p] \in corrupt \/ marked[held[p]]
  <2>1. held[p] \in Entry /\ RemovalDue
    BY <1>1 DEF At, DueInv, PlacesInv, StoreInv, BuildsOK, Due, Preparing
  <2>2. marked[held[p]] \in markedOnDisk[held[p]]
    BY <1>1, <2>1 DEF DueInv, PlacesInv, StoreInv, TypeInv, MarksOK, Entry
  <2>3. CASE markedOnDisk[held[p]] = {TRUE}
    <3> marked[held[p]] = TRUE
      BY <2>2, <2>3
    <3> QED OBVIOUS
  <2>4. CASE deny \/ held[p] \in corrupt
    BY <2>4
  <2> QED BY <2>1, <2>3, <2>4 DEF RemovalDue, Faulty, Excluded
<1>2. DueInv => \A p \in Processes : At(p, "mark") /\ duty[p] = "prepare" =>
                    deny \/ held[p] \in corrupt \/ marked[held[p]]
  BY <1>1
<1> QED BY <1>2, DueInit, DueNext, PTL DEF StoreSpec

-----------------------------------------------------------------------------
(* Healthy artifacts stay.  Two things may happen in a power loss that     *)
(* break this: a denial whose removal was not durable comes back, and a    *)
(* rename is rolled back whose mark was cleared too early.                 *)

\* A denial is about the entry.
DenialDeserved == deny => \A b \in Entry : Faulty(b)

Judged(p) ==
    pc[p] \in {"temps", "produce", "publish", "harden"} => ~deny

HealthInv == DueInv /\ DenialDeserved /\ \A p \in Processes : Judged(p)

\* What a power loss leaves of a mark, when it exposes nothing without one.
LEMMA MarksAfterLoss ==
    ASSUME PlacesInv, PowerLoss, RollbackIsMarked, NEW b \in Entry', b \in Entry => Excluded(b)
    PROVE  Excluded(b)'
<1>0. /\ b \in Publications /\ place'[b] = "artifacts" /\ place'[b] \in onDisk[b]
      /\ marked'[b] \in markedOnDisk[b] /\ marked'[b] \in BOOLEAN
      /\ markedOnDisk'[b] = {marked'[b]}
  BY DEF PowerLoss, Entry
<1>1. FALSE \notin markedOnDisk[b]
  <2>1. CASE b \in Entry
    BY <2>1 DEF Excluded
  <2>2. CASE b \notin Entry
    BY <1>0, <2>2 DEF RollbackIsMarked, Entry
  <2> QED BY <2>1, <2>2
<1>2. markedOnDisk'[b] = {TRUE}
  <2>1. marked'[b] = TRUE
    BY <1>0, <1>1
  <2> QED BY <1>0, <2>1
<1>3. MarkKept'
  BY DEF PowerLoss, Stop, Forget, MarkKept
<1> QED BY <1>2, <1>3 DEF Excluded

LEMMA OwnJudged ==
    ASSUME HealthInv, NEW p \in Processes, Step(p)
    PROVE  Judged(p)'
<1>0. /\ PlacesInv /\ StoreInv /\ Judged(p) /\ pc \in [Processes -> Pcs] /\ pc[p] \in Pcs
  BY DEF HealthInv, DueInv, PlacesInv, StoreInv, LocksOK, TypeInv, TasksOK
<1> USE <1>0 DEF At, Go
<1>1. ASSUME pc'[p] \notin {"temps", "produce", "publish", "harden"}
      PROVE  Judged(p)'
  BY <1>1 DEF Judged
<1>2. ASSUME Return(p) PROVE Judged(p)'
  BY <1>1, <1>2 DEF Return, Stop, Forget
<1>3. ASSUME Missed(p) PROVE Judged(p)'
  BY <1>1, <1>2, <1>3 DEF Missed
<1>4. ASSUME Fail(p) PROVE Judged(p)'
  BY <1>1, <1>2, <1>4 DEF Fail
<1>5. CASE Release(p)
  <2>1. pc[p] = "idle" /\ pc' = pc
    BY <1>5 DEF Release, StoreInv, LocksOK
  <2> QED BY <1>1, <2>1
<1>6. CASE Start(p) \/ TimeOut(p) \/ ReadError(p) \/ Discard(p) \/ Lookup(p) \/ Lockout(p)
           \/ Cleanup(p) \/ Build(p) \/ Prepare(p) \/ Repair(p) \/ Sweep(p) \/ Exclude(p)
           \/ Open(p) \/ Deny(p) \/ DenySync(p)
  BY <1>1, <1>2, <1>3, <1>6 DEF Start, TimeOut, ReadError, Discard, Lookup, Lockout, Cleanup,
     Build, Recheck, Prepare, Repair, Sweep, Exclude, Open, Deny, DenySync
<1>7. CASE Check(p)
  BY <1>1, <1>3, <1>7 DEF Check, Forget
<1>8. CASE Mark(p) \/ Replace(p) \/ Sync(p) \/ Clear(p)
  BY <1>1, <1>4, <1>8 DEF Mark, Replace, Sync, Clear
<1>9. CASE Undeny(p)
  <2>1. CASE pc'[p] = "temps"
    <3> ~deny'
      BY <1>9, <2>1 DEF Undeny, Return, Stop, Forget
    <3> QED BY <2>1 DEF Judged
  <2> QED BY <1>1, <1>2, <1>9, <2>1 DEF Undeny
<1>10. CASE Temps(p) \/ Produce(p)
  <2>1. CASE ~Return(p)
    <3> pc'[p] \in {"produce", "publish", "discard"} /\ ~deny /\ deny' = deny
      BY <1>10, <2>1 DEF Temps, Produce, denial, Judged
    <3> QED BY DEF Judged
  <2> QED BY <1>2, <2>1
<1>11. CASE Publish(p)
  <2> pc'[p] \in {"harden", "discard"} /\ ~deny /\ deny' = deny
    BY <1>11 DEF Publish, denial, Judged
  <2> QED BY DEF Judged
<1>12. CASE Harden(p) \/ Settle(p) \/ Commit(p) \/ Condemn(p)
  BY <1>1, <1>12 DEF Harden, Settle, Commit, Condemn, Reject
<1> QED BY <1>5, <1>6, <1>7, <1>8, <1>9, <1>10, <1>11, <1>12 DEF Step

LEMMA DeservedStep ==
    ASSUME HealthInv, NEW p \in Processes, Step(p)
    PROVE  DenialDeserved'
<1> SUFFICES ASSUME deny', NEW b \in Entry' PROVE Faulty(b)'
  BY DEF DenialDeserved
<1>0. /\ PlacesInv /\ StoreInv /\ deny \in BOOLEAN
      /\ \A c, d \in Entry : c = d
      /\ pc[p] \in Shared => held[p] \in Entry
      /\ Judged(p)
  BY DEF HealthInv, DueInv, PlacesInv, StoreInv, LocksOK, BuildsOK, TypeInv, CountsOK
<1>1. CASE deny
  <2>1. ~Publish(p) /\ ~Harden(p)
    BY <1>0, <1>1 DEF Publish, Harden, At, Judged
  <2>2. b \in Entry
    BY <1>0, <2>1, EntryStep
  <2> QED BY <1>0, <1>1, <2>1, <2>2, FaultyStays DEF HealthInv, DenialDeserved
<1>2. CASE ~deny
  <2>1. Deny(p)
    BY <1>0, <1>2, DenialStep
  <2>2. held[p] \in Entry /\ Faulty(held[p]) /\ Entry' = Entry /\ ~Harden(p)
    BY <1>0, <2>1 DEF Deny, At, Shared, PlacesInv, Found, names, Entry, Harden
  <2>3. b \in Entry /\ Faulty(b)
    BY <1>0, <2>2
  <2> QED BY <1>0, <2>2, <2>3, FaultyStays
<1> QED BY <1>0, <1>1, <1>2

LEMMA HealthInit == Init => HealthInv
<1> SUFFICES ASSUME Init PROVE HealthInv
  OBVIOUS
<1>1. DenialDeserved
  BY DEF Init, DenialDeserved
<1>2. \A p \in Processes : Judged(p)
  BY DEF Init, Judged
<1> QED BY <1>1, <1>2, DueInit DEF HealthInv

\* A power loss that exposes nothing unmarked and brings no denial back.
HarmlessLoss == PowerLoss => RollbackIsMarked /\ (deny' => deny)

LEMMA HealthNext == HealthInv /\ [Next]_vars /\ [HarmlessLoss]_vars => HealthInv'
<1> SUFFICES ASSUME HealthInv, [Next]_vars, [HarmlessLoss]_vars PROVE HealthInv'
  OBVIOUS
<1>0. DueInv' /\ PlacesInv /\ StoreInv /\ StoreInv'
  BY DueNext, StoreStep DEF HealthInv, DueInv, PlacesInv
<1>1. ASSUME NEW q \in Processes, pc'[q] = "idle" PROVE Judged(q)'
  BY <1>1 DEF Judged
<1>2. ASSUME NEW p \in Processes, Step(p), NEW q \in Processes, q # p PROVE Judged(q)'
  <2>1. pc'[q] = pc[q] /\ held'[q] = held[q] /\ Judged(q)
    BY <1>0, <1>2, OtherTasks DEF StoreInv, HealthInv
  <2>2. CASE pc[q] \in {"temps", "produce", "publish", "harden"}
    <3>1. ~Deny(p)
      <4>1. Deny(p) => p \in readers /\ held[p] \in Entry
        BY <1>0 DEF Deny, At, StoreInv, LocksOK, Shared
      <4>2. writer = q \/ Entry = {}
        BY <1>0, <2>2 DEF StoreInv, LocksOK, BuildsOK, Exclusive
      <4> QED BY <1>0, <4>1, <4>2, StoreAssumption DEF StoreInv, LocksOK, StoreAssumption
    <3>2. ~deny'
      <4>1. deny \in BOOLEAN /\ deny' \in BOOLEAN /\ ~deny
        BY <1>0, <2>1, <2>2 DEF StoreInv, TypeInv, CountsOK, Judged
      <4> QED BY <1>0, <1>2, <3>1, <4>1, DenialStep
    <3> QED BY <2>1, <2>2, <3>2 DEF Judged
  <2> QED BY <2>1, <2>2 DEF Judged
<1>3. ASSUME NEW p \in Processes, Step(p) PROVE HealthInv'
  BY <1>0, <1>2, <1>3, OwnJudged, DeservedStep DEF HealthInv
<1>4. ASSUME NEW p \in Processes, Crash(p) PROVE HealthInv'
  <2>1. UNCHANGED <<names, marks, denial, rest>>
    BY <1>4 DEF Crash
  <2>2. \A b : Faulty(b) => Faulty(b)'
    BY <1>0, <1>4, CrashKeepsFaulty
  <2>3. DenialDeserved'
    BY <2>1, <2>2 DEF HealthInv, DenialDeserved, Entry, names, denial
  <2>4. ASSUME NEW q \in Processes PROVE Judged(q)'
    <3>1. CASE q = p
      BY <1>1, <1>4, <3>1 DEF Crash, Stop, Forget
    <3>2. CASE q # p
      <4>1. pc'[q] = pc[q] /\ held'[q] = held[q] /\ Judged(q)
        BY <1>0, <1>4, <3>2, OtherTasks DEF StoreInv, HealthInv
      <4> QED BY <2>1, <4>1 DEF Judged, denial
    <3> QED BY <3>1, <3>2
  <2> QED BY <1>0, <2>3, <2>4 DEF HealthInv
<1>5. CASE PowerLoss
  <2>1. \A q \in Processes : Judged(q)'
    BY <1>1, <1>5 DEF PowerLoss, Stop, Forget
  <2>2. RollbackIsMarked /\ (deny' => deny)
    <3>1. PowerLoss /\ strain' # strain
      <4> strain \in Nat
        BY <1>0 DEF StoreInv, TypeInv, CountsOK
      <4> QED BY <1>5 DEF PowerLoss, Trouble
    <3> QED BY <3>1 DEF HarmlessLoss, vars
  <2>3. DenialDeserved'
    <3> SUFFICES ASSUME deny', NEW b \in Entry' PROVE Faulty(b)'
      BY DEF DenialDeserved
    <3>1. corrupt' = corrupt
      BY <1>5 DEF PowerLoss, rest
    <3>2. b \in Entry => Faulty(b)
      BY <2>2 DEF HealthInv, DenialDeserved
    <3> QED BY <1>0, <1>5, <2>2, <3>1, <3>2, MarksAfterLoss DEF Faulty
  <2> QED BY <1>0, <2>1, <2>3 DEF HealthInv
<1>6. CASE Rot \/ UNCHANGED vars
  <2>1. UNCHANGED <<names, marks, denial, pc, task>> /\ corrupt \subseteq corrupt'
    BY <1>6 DEF Rot, vars, rest
  <2>2. \A q \in Processes : Judged(q)'
    BY <2>1 DEF HealthInv, Judged, Faulty, Excluded, MarkKept, names, marks, denial, task
  <2>3. DenialDeserved'
    BY <2>1 DEF HealthInv, DenialDeserved, Faulty, Excluded, MarkKept, Entry, names, marks,
                denial, task
  <2> QED BY <1>0, <2>2, <2>3 DEF HealthInv
<1> QED BY <1>3, <1>4, <1>5, <1>6 DEF Next

\* A build never takes away an artifact that is neither corrupt nor marked: not
\* the one another process published meanwhile, not one whose denial is stale.
\* The only exceptions start with a power loss, one that brings a removed denial
\* back or one that exposes a rename that was rolled back without its mark.
THEOREM HealthyArtifactsStay == StoreSpec /\ [][HarmlessLoss]_vars => []HealthyStays
<1>1. ASSUME HealthInv, NEW p \in Processes, At(p, "mark"), duty[p] = "prepare"
      PROVE  held[p] \in corrupt \/ marked[held[p]]
  <2>1. held[p] \in Entry /\ RemovalDue
    BY <1>1 DEF At, HealthInv, DueInv, PlacesInv, StoreInv, BuildsOK, Due, Preparing
  <2>2. Faulty(held[p])
    BY <1>1, <2>1 DEF RemovalDue, HealthInv, DenialDeserved
  <2>3. marked[held[p]] \in markedOnDisk[held[p]]
    BY <1>1, <2>1 DEF HealthInv, DueInv, PlacesInv, StoreInv, TypeInv, MarksOK, Entry
  <2>4. CASE markedOnDisk[held[p]] = {TRUE}
    <3> marked[held[p]] = TRUE
      BY <2>3, <2>4
    <3> QED OBVIOUS
  <2> QED BY <2>2, <2>4 DEF Faulty, Excluded
<1>2. HealthInv => HealthyStays
  BY <1>1 DEF HealthyStays
<1> QED BY <1>2, HealthInit, HealthNext, PTL DEF StoreSpec

-----------------------------------------------------------------------------
(* What was condemned is not served.  A condemned publication that is the  *)
(* entry is denied or marked, durably; one that is not comes back only in  *)
(* a power loss.                                                           *)

CondemnedOut ==
    /\ \A b \in condemned \cap Entry : denyOnDisk = {TRUE} \/ Excluded(b)
    /\ \A b \in condemned : b <= made

\* What a build publishes was never condemned.
FreshOK(p) ==
    \/ pc[p] \in {"publish", "harden", "settle", "commit"}
    \/ pc[p] = "undeny" /\ duty[p] = "publish"
    => held[p] \notin condemned

CondemnedInv == DueInv /\ CondemnedOut /\ \A p \in Processes : FreshOK(p)

\* The steps that condemn a publication, and where it is.
LEMMA CondemnStep ==
    ASSUME StoreInv, NEW p \in Processes, Step(p), condemned' # condemned
    PROVE  /\ condemned' = condemned \cup {held[p]} /\ held[p] \in Publications
           /\ \/ DenySync(p) /\ denyOnDisk' = {deny}
              \/ Exclude(p) /\ SetMark(held[p], TRUE)
              \/ Condemn(p) /\ SetMark(held[p], TRUE)
              \/ Clear(p)
              \/ Publish(p) /\ UNCHANGED names
<1>1. condemned' = condemned \cup {held[p]}
  BY DEF Step, Start, Release, TimeOut, Lookup, Open, Check, ReadError, Deny, DenySync, Exclude,
         Lockout, Mark, Replace, Sync, Clear, Cleanup, Build, Prepare, Repair, Sweep, Undeny,
         Temps, Produce, Publish, Harden, Settle, Commit, Condemn, Discard, rest
<1>2. \/ DenySync(p) /\ denyOnDisk' = {deny}
      \/ Exclude(p) /\ SetMark(held[p], TRUE)
      \/ Condemn(p) /\ SetMark(held[p], TRUE)
      \/ Clear(p)
      \/ Publish(p) /\ UNCHANGED names
  <2>1. DenySync(p) \/ Exclude(p) \/ Condemn(p) \/ Clear(p) \/ Publish(p)
    BY DEF Step, Start, Release, TimeOut, Lookup, Open, Check, ReadError, Deny, Lockout, Mark,
           Replace, Sync, Cleanup, Build, Prepare, Repair, Sweep, Undeny, Temps, Produce, Harden,
           Settle, Commit, Discard, rest
  <2> QED BY <2>1 DEF DenySync, Exclude, Condemn, Publish
<1>3. held[p] \in Publications
  BY <1>2 DEF DenySync, Exclude, Condemn, Clear, Publish, At, StoreInv, TypeInv, HoldsOne, Shared,
              Moving, Publishing
<1> QED BY <1>1, <1>2, <1>3

LEMMA CondemnedOutStep ==
    ASSUME CondemnedInv, NEW p \in Processes, Step(p)
    PROVE  CondemnedOut'
<1>0. /\ PlacesInv /\ StoreInv /\ deny \in BOOLEAN /\ deny \in denyOnDisk
      /\ \A c, d \in Entry : c = d
      /\ held[p] \in Publications \cup {NoPublication}
      /\ made \in Nat /\ condemned \subseteq Publications
      /\ FreshOK(p) /\ Due(p)
      /\ marked \in [Publications -> BOOLEAN]
      /\ markedOnDisk \in [Publications -> SUBSET BOOLEAN]
      /\ pc[p] \in Shared => held[p] \in Entry /\ p \in readers
  BY DEF CondemnedInv, DueInv, PlacesInv, StoreInv, LocksOK, BuildsOK, TypeInv, CountsOK, TasksOK,
         MarksOK
<1> USE <1>0 DEF At
<1>1. ASSUME NEW b \in condemned' PROVE b <= made'
  <2>1. made <= made' /\ made' \in Nat
    <3> made' = made \/ made' = made + 1
      BY DEF Step, Start, Release, TimeOut, Lookup, Open, Check, ReadError, Deny, DenySync, Exclude,
         Lockout, Mark, Replace, Sync, Clear, Cleanup, Build, Prepare, Repair, Sweep, Undeny,
         Temps, Produce, Publish, Harden, Settle, Commit, Condemn, Discard, rest
    <3> QED OBVIOUS
  <2>2. b <= made
    <3>1. CASE b \in condemned
      BY <3>1 DEF CondemnedInv, CondemnedOut
    <3>2. CASE b \notin condemned
      <4>1. b = held[p] /\ b \in Publications
        BY <1>1, <3>2, CondemnStep
      <4>2. place[b] # "none"
        BY <1>1, <3>2, <4>1, CondemnStep
           DEF DenySync, Exclude, Condemn, Clear, Publish, Shared, Entry, PlacesInv, Placed,
               StoreInv, BuildsOK
      <4>3. ~(b > made)
        BY <4>1, <4>2 DEF PlacesInv, NoneAhead
      <4> QED BY <4>1, <4>3 DEF Publications
    <3> QED BY <3>1, <3>2
  <2>3. b \in Nat
    <3> b \in Publications
      BY <1>1, CondemnStep
    <3> QED BY DEF Publications
  <2> QED BY <2>1, <2>2, <2>3
<1>2. ASSUME NEW b \in condemned' \cap Entry' PROVE denyOnDisk' = {TRUE} \/ Excluded(b)'
  <2>1. CASE b \in condemned
    <3>1. b \in Entry
      BY <1>2, <2>1, EntryStep DEF Publish, FreshOK
    <3>2. ~Harden(p)
      BY <2>1, <3>1 DEF Harden, StoreInv, BuildsOK, FreshOK
    <3>3. CASE Excluded(b)
      BY <1>2, <3>1, <3>2, <3>3, ExcludedStays
    <3>4. CASE denyOnDisk = {TRUE}
      <4>1. deny = TRUE
        BY <3>4
      <4>2. ~Undeny(p)
        BY <2>1, <3>1 DEF Undeny, StoreInv, BuildsOK, FreshOK
      <4> QED BY <3>4, <4>1, <4>2, DenialStep
    <3> QED BY <2>1, <3>1, <3>3, <3>4 DEF CondemnedInv, CondemnedOut
  <2>2. CASE b \notin condemned
    <3>1. /\ b = held[p] /\ b \in Publications
          /\ \/ DenySync(p) /\ denyOnDisk' = {deny}
             \/ (Exclude(p) \/ Condemn(p)) /\ SetMark(b, TRUE)
             \/ Clear(p)
             \/ Publish(p) /\ UNCHANGED names
      BY <1>2, <2>2, CondemnStep
    <3>2. CASE DenySync(p) /\ denyOnDisk' = {deny}
      BY <3>2 DEF DenySync, Due
    <3>3. CASE (Exclude(p) \/ Condemn(p)) /\ SetMark(b, TRUE)
      <4>1. markedOnDisk'[b] = {TRUE}
        BY <3>1, <3>3 DEF SetMark
      <4>2. MarkKept'
        <5> SUFFICES ASSUME NEW q \in Processes, pc'[q] = "replace" PROVE FALSE
          BY DEF MarkKept
        <5>1. q # p
          BY <3>3 DEF Exclude, Condemn, Go, Return, Stop, Forget, StoreInv, TypeInv, TasksOK
        <5>2. writer = q
          BY <5>1, OtherTasks DEF StoreInv, LocksOK, Exclusive
        <5>3. writer # q
          BY <3>3, <5>1, StoreAssumption
             DEF Exclude, Condemn, Shared, Exclusive, StoreInv, LocksOK, StoreAssumption
        <5> QED BY <5>2, <5>3
      <4> QED BY <4>1, <4>2 DEF Excluded
    <3>4. CASE Clear(p)
      BY <1>2, <3>4 DEF Clear, names, Entry, StoreInv, BuildsOK
    <3>5. CASE Publish(p) /\ UNCHANGED names
      BY <1>2, <3>5 DEF Publish, names, Entry, StoreInv, BuildsOK
    <3> QED BY <3>1, <3>2, <3>3, <3>4, <3>5
  <2> QED BY <2>1, <2>2
<1> QED BY <1>1, <1>2 DEF CondemnedOut

LEMMA OwnFresh ==
    ASSUME CondemnedInv, NEW p \in Processes, Step(p)
    PROVE  FreshOK(p)'
<1>0. /\ StoreInv /\ FreshOK(p) /\ pc \in [Processes -> Pcs] /\ pc[p] \in Pcs
      /\ held \in [Processes -> Publications \cup {NoPublication}]
      /\ duty \in [Processes -> Duties] /\ made \in Nat
      /\ pc[p] \in {"sweep", "repair"} => duty[p] # "publish"
      /\ pc[p] \in {"harden", "settle"} => duty[p] = "publish"
      /\ \A b \in condemned : b <= made
  BY DEF CondemnedInv, CondemnedOut, DueInv, PlacesInv, StoreInv, BuildsOK, TypeInv, CountsOK,
         TasksOK, HoldsOne
<1> USE <1>0 DEF At, Go
<1>1. ASSUME \/ pc'[p] \notin {"publish", "harden", "settle", "commit", "undeny"}
             \/ pc'[p] = "undeny" /\ duty'[p] # "publish"
      PROVE  FreshOK(p)'
  BY <1>1 DEF FreshOK
<1>2. ASSUME Return(p) PROVE FreshOK(p)'
  BY <1>1, <1>2 DEF Return, Stop, Forget
<1>3. ASSUME Missed(p) PROVE FreshOK(p)'
  BY <1>1, <1>2, <1>3 DEF Missed
<1>4. ASSUME Fail(p) PROVE FreshOK(p)'
  BY <1>1, <1>2, <1>4 DEF Fail
<1>5. CASE Release(p)
  <2>1. pc[p] = "idle" /\ pc' = pc
    BY <1>5 DEF Release, StoreInv, LocksOK
  <2> QED BY <1>1, <2>1
<1>6. CASE Start(p) \/ TimeOut(p) \/ ReadError(p) \/ Discard(p) \/ Lookup(p) \/ Lockout(p)
           \/ Cleanup(p) \/ Build(p) \/ Prepare(p) \/ Repair(p) \/ Exclude(p) \/ Open(p)
           \/ Deny(p) \/ DenySync(p) \/ Temps(p)
  BY <1>1, <1>2, <1>3, <1>6 DEF Start, TimeOut, ReadError, Discard, Lookup, Lockout, Cleanup,
     Build, Recheck, Prepare, Repair, Exclude, Open, Deny, DenySync, Temps
<1>7. CASE Check(p)
  BY <1>1, <1>3, <1>7 DEF Check, Forget
<1>8. CASE Mark(p) \/ Replace(p) \/ Sync(p) \/ Clear(p)
  BY <1>1, <1>4, <1>8 DEF Mark, Replace, Sync, Clear
<1>9. CASE Sweep(p)
  BY <1>1, <1>2, <1>9 DEF Sweep, task
<1>10. CASE Undeny(p)
  <2>1. CASE pc'[p] = "commit"
    <3> duty[p] = "publish" /\ held' = held /\ condemned' = condemned
      BY <1>10, <2>1 DEF Undeny, Return, Stop, Forget, task, rest
    <3> QED BY <1>10 DEF Undeny, FreshOK
  <2> QED BY <1>1, <1>2, <1>10, <2>1 DEF Undeny
<1>11. CASE Produce(p)
  <2>1. CASE pc'[p] = "publish"
    <3>1. held' = [held EXCEPT ![p] = made + 1] /\ condemned' = condemned
      BY <1>11, <2>1 DEF Produce, Return, Stop, Forget
    <3>2. held'[p] = made + 1
      BY <3>1
    <3>3. made + 1 \notin condemned
      <4> SUFFICES ASSUME made + 1 \in condemned PROVE FALSE
        OBVIOUS
      <4>1. made + 1 <= made
        BY <1>0
      <4> QED BY <4>1
    <3> QED BY <3>1, <3>2, <3>3 DEF FreshOK
  <2> QED BY <1>1, <1>2, <1>11, <2>1 DEF Produce
<1>12. CASE Publish(p)
  <2>1. CASE pc'[p] = "harden"
    <3> held' = held /\ condemned' = condemned
      BY <1>12, <2>1 DEF Publish
    <3> QED BY <1>12 DEF Publish, FreshOK
  <2> QED BY <1>1, <1>12, <2>1 DEF Publish
<1>13. CASE Harden(p) \/ Settle(p)
  <2>1. CASE ~Reject(p)
    <3> held' = held /\ condemned' = condemned /\ pc[p] \in {"harden", "settle"}
      BY <1>13, <2>1 DEF Harden, Settle, task, rest
    <3> QED BY DEF FreshOK
  <2> QED BY <1>1, <2>1 DEF Reject
<1>14. CASE Commit(p) \/ Condemn(p)
  BY <1>1, <1>14 DEF Commit, Condemn, Reject
<1> QED BY <1>5, <1>6, <1>7, <1>8, <1>9, <1>10, <1>11, <1>12, <1>13, <1>14 DEF Step

LEMMA OthersFresh ==
    ASSUME CondemnedInv, NEW p \in Processes, Step(p), NEW q \in Processes, q # p
    PROVE  FreshOK(q)'
<1>0. /\ StoreInv /\ FreshOK(q) /\ p # Nobody /\ q # Nobody /\ Placed(p) /\ Placed(q)
      /\ pc'[q] = pc[q] /\ duty'[q] = duty[q] /\ held'[q] = held[q]
  BY OtherTasks, StoreAssumption DEF CondemnedInv, DueInv, PlacesInv, StoreInv, StoreAssumption
<1>1. CASE condemned' = condemned
  BY <1>0, <1>1 DEF FreshOK
<1>2. CASE condemned' # condemned
  <2>1. condemned' = condemned \cup {held[p]}
    BY <1>0, <1>2, CondemnStep
  <2>2. DenySync(p) \/ Exclude(p) \/ Condemn(p) \/ Clear(p) \/ Publish(p)
    BY <1>0, <1>2, CondemnStep
  <2>3. \/ p \in readers /\ writer = Nobody /\ held[p] \in Entry
        \/ writer = p /\ builder = p
        \/ writer = p /\ place[held[p]] \in {"quarantine", "cleanup"}
        \/ writer = Nobody /\ builder = p
    BY <1>0, <2>2 DEF DenySync, Exclude, Condemn, Clear, Publish, Free, At, Placed, StoreInv,
       LocksOK, BuildsOK, Shared, Exclusive, UnderBuildLock
  <2>4. CASE pc[q] = "publish"
    <3>1. builder = q /\ Entry = {} /\ place[held[q]] = "tmp"
      BY <1>0, <2>4 DEF StoreInv, BuildsOK, UnderBuildLock, Placed
    <3>2. held[p] # held[q]
      BY <1>0, <2>3, <3>1
    <3> QED BY <1>0, <2>1, <2>4, <3>2 DEF FreshOK
  <2>5. CASE pc[q] \in {"harden", "settle", "commit", "undeny"}
    <3> writer = q
      BY <1>0, <2>5 DEF StoreInv, LocksOK, Exclusive
    <3> QED BY <1>0, <2>3
  <2> QED BY <1>0, <2>4, <2>5 DEF FreshOK
<1> QED BY <1>1, <1>2

LEMMA CondemnedInit == Init => CondemnedInv
<1> SUFFICES ASSUME Init PROVE CondemnedInv
  OBVIOUS
<1>1. CondemnedOut
  BY DEF Init, CondemnedOut
<1>2. \A p \in Processes : FreshOK(p)
  BY DEF Init, FreshOK
<1> QED BY <1>1, <1>2, DueInit DEF CondemnedInv

\* A power loss that exposes nothing unmarked.
MarkedLoss == PowerLoss => RollbackIsMarked

LEMMA CondemnedNext == CondemnedInv /\ [Next]_vars /\ [MarkedLoss]_vars => CondemnedInv'
<1> SUFFICES ASSUME CondemnedInv, [Next]_vars, [MarkedLoss]_vars PROVE CondemnedInv'
  OBVIOUS
<1>0. DueInv' /\ PlacesInv /\ StoreInv
  BY DueNext DEF CondemnedInv, DueInv, PlacesInv
<1>1. ASSUME NEW q \in Processes, pc'[q] = "idle" PROVE FreshOK(q)'
  BY <1>1 DEF FreshOK
<1>2. ASSUME NEW p \in Processes, Step(p) PROVE CondemnedInv'
  BY <1>0, <1>2, CondemnedOutStep, OwnFresh, OthersFresh DEF CondemnedInv
<1>3. ASSUME NEW p \in Processes, Crash(p) PROVE CondemnedInv'
  <2>1. UNCHANGED <<names, marks, denial, rest>>
    BY <1>3 DEF Crash
  <2>2. MarkKept => MarkKept'
    <3> SUFFICES ASSUME MarkKept, NEW r \in Processes, pc'[r] = "replace" PROVE was'[r]
      BY DEF MarkKept
    <3>1. r # p
      BY <1>3 DEF Crash, Stop, Forget
    <3> QED BY <1>0, <1>3, <3>1, OtherTasks DEF StoreInv, MarkKept
  <2>3. CondemnedOut'
    BY <2>1, <2>2 DEF CondemnedInv, CondemnedOut, Excluded, Entry, names, marks, denial, rest
  <2>4. ASSUME NEW q \in Processes PROVE FreshOK(q)'
    <3>1. CASE q = p
      BY <1>1, <1>3, <3>1 DEF Crash, Stop, Forget
    <3>2. CASE q # p
      <4>1. pc'[q] = pc[q] /\ duty'[q] = duty[q] /\ held'[q] = held[q] /\ FreshOK(q)
        BY <1>0, <1>3, <3>2, OtherTasks DEF StoreInv, CondemnedInv
      <4> QED BY <2>1, <4>1 DEF FreshOK, rest
    <3> QED BY <3>1, <3>2
  <2> QED BY <1>0, <2>3, <2>4 DEF CondemnedInv
<1>4. CASE PowerLoss
  <2>1. \A q \in Processes : FreshOK(q)'
    BY <1>1, <1>4 DEF PowerLoss, Stop, Forget
  <2>2. RollbackIsMarked
    <3>1. strain' # strain
      <4> strain \in Nat
        BY <1>0 DEF StoreInv, TypeInv, CountsOK
      <4> QED BY <1>4 DEF PowerLoss, Trouble
    <3> QED BY <1>4, <3>1 DEF MarkedLoss, vars
  <2>3. condemned' = condemned /\ made' = made
    BY <1>4 DEF PowerLoss, rest
  <2>4. ASSUME NEW b \in condemned \cap Entry' PROVE denyOnDisk' = {TRUE} \/ Excluded(b)'
    <3>1. CASE denyOnDisk = {TRUE}
      BY <1>4, <3>1 DEF PowerLoss
    <3>2. CASE denyOnDisk # {TRUE}
      <4>1. b \in Entry => Excluded(b)
        BY <2>4, <3>2 DEF CondemnedInv, CondemnedOut
      <4> QED BY <1>0, <1>4, <2>2, <2>4, <4>1, MarksAfterLoss
    <3> QED BY <3>1, <3>2
  <2>5. CondemnedOut'
    BY <2>3, <2>4 DEF CondemnedInv, CondemnedOut
  <2> QED BY <1>0, <2>1, <2>5 DEF CondemnedInv
<1>5. CASE Rot \/ UNCHANGED vars
  <2>1. UNCHANGED <<names, marks, denial, pc, task, condemned, made>>
    BY <1>5 DEF Rot, vars, rest
  <2>2. \A q \in Processes : FreshOK(q)'
    BY <2>1 DEF CondemnedInv, FreshOK, task
  <2>3. CondemnedOut'
    BY <2>1 DEF CondemnedInv, CondemnedOut, Excluded, MarkKept, Entry, names, marks, denial, task
  <2> QED BY <1>0, <2>2, <2>3 DEF CondemnedInv
<1> QED BY <1>2, <1>3, <1>4, <1>5 DEF Next

\* Only Check gives out a lease.
LEMMA LeaseStep ==
    ASSUME StoreInv, [Next]_vars, NEW p \in Processes, lease'[p] # lease[p]
    PROVE  lease'[p] = NoPublication \/ (Check(p) /\ ~DeniedMeanwhile(p) /\ lease'[p] = held[p])
<1>0. lease \in [Processes -> Publications \cup {NoPublication}]
  BY DEF StoreInv, TypeInv, TasksOK
<1>1. CASE PowerLoss \/ Rot \/ UNCHANGED vars
  BY <1>1 DEF PowerLoss, Rot, vars
<1>2. ASSUME NEW q \in Processes, Crash(q)
      PROVE  lease'[p] = NoPublication
  BY <1>0, <1>2 DEF Crash
<1>3. ASSUME NEW q \in Processes, Step(q)
      PROVE  lease'[p] = NoPublication \/ (Check(p) /\ ~DeniedMeanwhile(p) /\ lease'[p] = held[p])
  <2>1. q = p
    BY <1>3, OtherTasks DEF StoreInv
  <2>2. CASE Release(p)
    BY <1>0, <2>2 DEF Release
  <2>3. CASE Check(p)
    <3>1. ~Missed(p)
      BY DEF Missed, Return
    <3>2. ~DeniedMeanwhile(p) /\ lease' = [lease EXCEPT ![p] = held[p]]
      BY <2>3, <3>1 DEF Check
    <3> QED BY <1>0, <2>3, <3>2
  <2>4. CASE ~(Release(p) \/ Check(p))
    <3> lease' = lease
      BY <1>3, <2>1, <2>4 DEF Step, Start, TimeOut, Lookup, Open, ReadError, Deny, DenySync, Exclude,
         Lockout, Mark, Replace, Sync, Clear, Cleanup, Build, Prepare, Repair, Sweep, Undeny,
         Temps, Produce, Publish, Harden, Settle, Commit, Condemn, Discard, Missed, Fail, Reject,
         Return
    <3> QED OBVIOUS
  <2> QED BY <2>2, <2>3, <2>4
<1> QED BY <1>1, <1>2, <1>3 DEF Next

\* What was excluded durably is never leased again, if every power loss finds
\* the mark of whatever it rolls back: the one way in which a condemned artifact
\* is served is the rollback that RollbackIsMarked is about.
THEOREM CondemnedStaysOut == StoreSpec /\ [][MarkedLoss]_vars => CondemnedNotServed
<1>1. ASSUME CondemnedInv, [Next]_vars, NEW p \in Processes, lease'[p] # lease[p]
      PROVE  lease'[p] \notin condemned
  <2>0. /\ StoreInv /\ deny \in denyOnDisk /\ condemned \subseteq Publications
        /\ \A b \in Publications : marked[b] \in markedOnDisk[b]
    BY <1>1 DEF CondemnedInv, DueInv, PlacesInv, StoreInv, TypeInv, CountsOK, MarksOK
  <2>1. CASE lease'[p] = NoPublication
    BY <2>0, <2>1 DEF NoPublication, Publications
  <2>2. CASE Check(p) /\ ~DeniedMeanwhile(p) /\ lease'[p] = held[p]
    <3>1. held[p] \in Entry /\ held[p] \in Publications
      BY <2>0, <2>2 DEF Check, At, StoreInv, LocksOK, Shared, Entry
    <3>2. ~deny /\ ~marked[held[p]]
      BY <2>2 DEF DeniedMeanwhile
    <3>3. ASSUME denyOnDisk = {TRUE} PROVE FALSE
      <4> deny = TRUE
        BY <2>0, <3>3
      <4> QED BY <3>2
    <3>4. markedOnDisk[held[p]] # {TRUE}
      BY <2>0, <3>1, <3>2
    <3> QED BY <1>1, <2>2, <3>1, <3>3, <3>4 DEF CondemnedInv, CondemnedOut, Excluded
  <2> QED BY <1>1, <2>0, <2>1, <2>2, LeaseStep
<1>2. CondemnedInv /\ [Next]_vars
      => [\A p \in Processes : lease'[p] # lease[p] => lease'[p] \notin condemned]_vars
  BY <1>1
<1> QED BY <1>2, CondemnedInit, CondemnedNext, PTL DEF StoreSpec, CondemnedNotServed

\* As long as the node keeps its power, no failing call, no death of a process
\* and no rot makes a build take a good artifact away or a lookup lease one
\* that was excluded durably.
THEOREM PoweredStore == StoreSpec /\ [][~PowerLoss]_vars => []HealthyStays /\ CondemnedNotServed
<1>1. [~PowerLoss]_vars => [HarmlessLoss]_vars /\ [MarkedLoss]_vars
  BY DEF HarmlessLoss, MarkedLoss
<1> QED BY <1>1, HealthyArtifactsStay, CondemnedStaysOut, PTL
=============================================================================
