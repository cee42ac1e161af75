--------------------------- MODULE HostWeightStore ---------------------------
(***************************************************************************)
(* The node-local store of prepared weights: FilesystemHostWeightStore of  *)
(* vllm_omni/host_weight_runtime/filesystem/store.py, for one artifact     *)
(* key.  Processes share a directory tree and coordinate by two flocks per *)
(* key, the build lock and the artifact lock (shared by lookups and by the *)
(* leases they return, exclusive for changes).  There is no server: any    *)
(* process may die between two system calls, a call may fail, and the node *)
(* may lose power.                                                         *)
(*                                                                         *)
(* A publication is one directory (an inode) with one build's files.  It   *)
(* is staged in tmp/, renamed to artifacts/<key>, and moved to quarantine/ *)
(* when it is condemned or cleaned up.  What a power loss may find of its  *)
(* name is onDisk: a rename may be rolled back until the directory of the  *)
(* old name is synced, and the new name may be missing until its own is.   *)
(*                                                                         *)
(* Two marks exclude an artifact: the file deny/<key>, and the sticky bit  *)
(* of its directory (marked).                                              *)
(*                                                                         *)
(* A "variant" definition is a plausible mistake, see DiffusionScheduler.  *)
(***************************************************************************)
EXTENDS Integers, FiniteSets

CONSTANTS
    Processes, Nobody,
    MaxPublications,    \* bound: builds that get as far as a staging directory
    MaxStrain           \* bound: a failing call and a crash count 1, a power loss 2

ASSUME StoreAssumption ==
    Nobody \notin Processes /\ MaxPublications \in Nat /\ MaxStrain \in Nat

Publications == 1 .. MaxPublications
NoPublication == 0
\* The directories; quarantine/<key>.cleanup.* are the tombstones of cleanup.
Places == {"none", "tmp", "artifacts", "quarantine", "cleanup"}

VARIABLES
    place, onDisk,          \* the directory of a publication, now and after a power loss
    marked, markedOnDisk,   \* its sticky bit, now and after a power loss
    corrupt,                \* publications whose payload rotted
    deny, denyOnDisk,       \* deny/<key>, now and after a power loss
    made,                   \* publications begun
    readers, writer,        \* the artifact lock
    builder,                \* the build lock
    pc, call, full,         \* where a process is, in which call, with which validation
    duty,                   \* what an exclusive section is for
    held,                   \* the publication it handles
    was,                    \* original_mode: the marker before the move
    lease,                  \* the publication it has a lease on
    condemned,              \* publications durably excluded: never to be leased again
    strain

names == <<place, onDisk>>
marks == <<marked, markedOnDisk>>
denial == <<deny, denyOnDisk>>
locks == <<readers, writer, builder>>
task == <<call, full, duty, held, was>>
rest == <<corrupt, made, condemned>>
vars == <<names, marks, denial, locks, pc, task, lease, rest, strain>>

Init ==
    /\ place = [b \in Publications |-> "none"] /\ onDisk = [b \in Publications |-> {"none"}]
    /\ marked = [b \in Publications |-> FALSE] /\ markedOnDisk = [b \in Publications |-> {FALSE}]
    /\ corrupt = {} /\ deny = FALSE /\ denyOnDisk = {FALSE} /\ made = 0
    /\ readers = {} /\ writer = Nobody /\ builder = Nobody
    /\ pc = [p \in Processes |-> "idle"] /\ call = [p \in Processes |-> "none"]
    /\ full = [p \in Processes |-> FALSE] /\ duty = [p \in Processes |-> "none"]
    /\ held = [p \in Processes |-> NoPublication] /\ was = [p \in Processes |-> FALSE]
    /\ lease = [p \in Processes |-> NoPublication]
    /\ condemned = {} /\ strain = 0

-----------------------------------------------------------------------------
\* The file system.

Entry == {b \in Publications : place[b] = "artifacts"}

Rename(b, to) == /\ place' = [place EXCEPT ![b] = to]
                 /\ onDisk' = [onDisk EXCEPT ![b] = @ \cup {to}]

\* What is left to chance after the directories that hold places D were synced.
Synced(disk, D) ==
    [b \in Publications |-> IF place[b] \in D THEN disk[b] \ {"none"} ELSE disk[b] \ D]
\* The trees in place d are removed and the directory is synced.
Removed(d) ==
    /\ place' = [b \in Publications |-> IF place[b] = d THEN "none" ELSE place[b]]
    /\ onDisk' = [b \in Publications |->
                     (IF place[b] = d THEN onDisk[b] \cup {"none"} ELSE onDisk[b]) \ {d}]

\* variant: synced, then changed.
SyncedFirst(b, mark) == /\ marked' = [marked EXCEPT ![b] = mark]
                        /\ markedOnDisk' = [markedOnDisk EXCEPT ![b] = {marked[b]}]

\* The mode of directory b is changed and synced.
SetMark(b, mark) == /\ marked' = [marked EXCEPT ![b] = mark]
                    /\ markedOnDisk' = [markedOnDisk EXCEPT ![b] = {mark}]

-----------------------------------------------------------------------------
\* A process.

At(p, where) == pc[p] = where
Go(p, where) == pc' = [pc EXCEPT ![p] = where]

\* The call returns; its locks go, but the shared lock stays with a lease.
Forget(P) ==
    /\ call' = [p \in Processes |-> IF p \in P THEN "none" ELSE call[p]]
    /\ full' = [p \in Processes |-> IF p \in P THEN FALSE ELSE full[p]]
    /\ duty' = [p \in Processes |-> IF p \in P THEN "none" ELSE duty[p]]
    /\ held' = [p \in Processes |-> IF p \in P THEN NoPublication ELSE held[p]]
    /\ was' = [p \in Processes |-> IF p \in P THEN FALSE ELSE was[p]]
    /\ pc' = [p \in Processes |-> IF p \in P THEN "idle" ELSE pc[p]]
Unlocked(holder, P) == IF holder \in P THEN Nobody ELSE holder
Stop(P) == /\ Forget(P)
           /\ readers' = readers \ P
           /\ writer' = Unlocked(writer, P) /\ builder' = Unlocked(builder, P)
Return(p) == Stop({p}) /\ UNCHANGED lease

\* An operation fails with an OSError.
Trouble(n) == strain + n <= MaxStrain /\ strain' = strain + n

Start(p) ==
    /\ At(p, "idle") /\ lease[p] = NoPublication
    /\ \E c \in {"lookup", "initial"}, level \in BOOLEAN :
           call' = [call EXCEPT ![p] = c] /\ full' = [full EXCEPT ![p] = level]
    /\ Go(p, "lookup")
    /\ UNCHANGED <<names, marks, denial, locks, duty, held, was, lease, rest, strain>>

\* lease.close
Release(p) ==
    /\ lease[p] # NoPublication
    /\ lease' = [lease EXCEPT ![p] = NoPublication]
    /\ readers' = readers \ {p}
    /\ UNCHANGED <<names, marks, denial, writer, builder, pc, task, rest, strain>>

\* A lock is not free before the deadline (or at all, when it is only tried).
TimeOut(p) ==
    /\ \/ At(p, "lookup") /\ writer # Nobody
       \/ At(p, "build") /\ builder # Nobody
       \/ (At(p, "prepare") \/ At(p, "lockout")) /\ (writer # Nobody \/ readers # {})
    /\ Return(p)
    /\ UNCHANGED <<names, marks, denial, rest, strain>>

-----------------------------------------------------------------------------
\* lookup: alone, or as a step of get_or_build.

\* MISS or INVALID; the shared lock goes.
Missed(p) ==
    \/ /\ call[p] \in {"lookup", "final"}
       /\ Return(p)
    \/ /\ call[p] \in {"initial", "recheck"}
       /\ Go(p, IF call[p] = "initial" THEN "build" ELSE "prepare")
       /\ readers' = readers \ {p}
       /\ held' = [held EXCEPT ![p] = NoPublication]
       /\ UNCHANGED <<writer, builder, call, full, duty, was, lease>>

Lookup(p) ==
    /\ At(p, "lookup") /\ writer = Nobody
    /\ \/ (Entry = {} \/ deny) /\ Missed(p)
       \/ \E b \in Entry :
              /\ ~deny
              /\ readers' = readers \cup {p} /\ held' = [held EXCEPT ![p] = b]
              /\ Go(p, "open")
              /\ UNCHANGED <<writer, builder, call, full, duty, was, lease>>
    /\ UNCHANGED <<names, marks, denial, rest, strain>>

\* _open_lease: the payload is read only by a full validation.
Open(p) ==
    /\ At(p, "open")
    /\ Go(p, IF marked[held[p]] \/ (full[p] /\ held[p] \in corrupt) THEN "deny" ELSE "check")
    /\ UNCHANGED <<names, marks, denial, locks, task, lease, rest, strain>>

\* variant: the marks are not looked at again once the lease is open.
Untested(p) == FALSE

DeniedMeanwhile(p) == deny \/ marked[held[p]]

\* HIT, JOINED or BUILT: the shared lock goes to the lease, the build lock is
\* released.
Check(p) ==
    /\ At(p, "check")
    /\ \/ DeniedMeanwhile(p) /\ Missed(p)
       \/ /\ ~DeniedMeanwhile(p)
          /\ lease' = [lease EXCEPT ![p] = held[p]]
          /\ Forget({p})
          /\ builder' = Unlocked(builder, {p})
          /\ UNCHANGED <<readers, writer>>
    /\ UNCHANGED <<names, marks, denial, rest, strain>>

\* A probe or a read fails: FAILED, nothing is denied.
ReadError(p) ==
    /\ pc[p] \in {"lookup", "open", "check"} /\ writer = Nobody
    /\ Trouble(1) /\ Return(p)
    /\ UNCHANGED <<names, marks, denial, rest>>

\* _write_deny, first half; an existing file is enough.
Deny(p) ==
    /\ At(p, "deny")
    /\ \/ deny /\ Missed(p) /\ UNCHANGED <<denial, strain>>
       \/ /\ ~deny
          /\ \/ Go(p, "denysync") /\ UNCHANGED strain
             \/ Go(p, "exclude") /\ Trouble(1)
          /\ deny' = TRUE /\ denyOnDisk' = {FALSE, TRUE}
          /\ UNCHANGED <<locks, task, lease>>
       \/ /\ ~deny
          /\ Go(p, "exclude") /\ Trouble(1)
          /\ UNCHANGED <<denial, locks, task, lease>>
    /\ UNCHANGED <<names, marks, rest>>

\* The denial is durable before the shared lock is released.
DenySync(p) ==
    /\ At(p, "denysync")
    /\ \/ /\ denyOnDisk' = {deny}
          /\ condemned' = condemned \cup {held[p]}
          /\ Missed(p) /\ UNCHANGED strain
       \/ /\ Go(p, "exclude") /\ Trouble(1)
          /\ UNCHANGED <<denyOnDisk, condemned, locks, task, lease>>
    /\ UNCHANGED <<names, marks, deny, corrupt, made>>

\* _contain_invalid_after_deny_failure: the directory is marked, then the
\* shared lock is given up for the exclusive one.  If the directory could not
\* even be opened, it is left where it is.
Exclude(p) ==
    /\ At(p, "exclude")
    /\ \/ /\ \/ /\ SetMark(held[p], TRUE) /\ condemned' = condemned \cup {held[p]}
                /\ UNCHANGED strain
             \/ Trouble(1) /\ UNCHANGED <<marks, condemned>>
             \/ /\ Trouble(1) /\ UNCHANGED condemned
                /\ marked' = [marked EXCEPT ![held[p]] = TRUE]
                /\ markedOnDisk' = [markedOnDisk EXCEPT ![held[p]] = @ \cup {TRUE}]
          /\ readers' = readers \ {p}
          /\ Go(p, "lockout")
          /\ UNCHANGED <<writer, builder, task, lease>>
       \/ Trouble(1) /\ Return(p) /\ UNCHANGED <<marks, condemned>>
    /\ UNCHANGED <<names, denial, corrupt, made>>

\* variant: others may still hold the lock shared.
NoWriter == writer = Nobody

\* The artifact lock can be had exclusively.
Free == writer = Nobody /\ readers = {}

\* Another build may have replaced the inode while no lock was held.
Lockout(p) ==
    /\ At(p, "lockout") /\ Free
    /\ \/ /\ held[p] \in Entry
          /\ writer' = p /\ duty' = [duty EXCEPT ![p] = "contain"] /\ Go(p, "mark")
          /\ UNCHANGED <<readers, builder, call, full, held, was, lease>>
       \/ held[p] \notin Entry /\ Return(p)
    /\ UNCHANGED <<names, marks, denial, rest, strain>>

-----------------------------------------------------------------------------
\* _move_artifact_locked: the entry goes to quarantine/.

Destination(p) == IF duty[p] = "cleanup" THEN "cleanup" ELSE "quarantine"

\* An OSError ends the call, but for a failed publication, which was reported
\* with the attempt to contain it; its staging directory is discarded.
Fail(p) ==
    \/ duty[p] # "failed" /\ Return(p)
    \/ /\ duty[p] = "failed"
       /\ writer' = Nobody /\ Go(p, "discard")
       /\ UNCHANGED <<readers, builder, task, lease>>

\* If the sync of the new mode fails, the old mode is put back, which is taken
\* to succeed.
Mark(p) ==
    /\ At(p, "mark")
    /\ \/ /\ SetMark(held[p], TRUE) /\ was' = [was EXCEPT ![p] = marked[held[p]]]
          /\ Go(p, "replace")
          /\ UNCHANGED <<locks, call, full, duty, held, lease, strain>>
       \/ /\ Trouble(1) /\ Fail(p) /\ UNCHANGED marks
    /\ UNCHANGED <<names, denial, rest>>

\* A rename that fails puts the old mode back; that may fail as well.
Replace(p) ==
    /\ At(p, "replace")
    /\ \/ /\ Rename(held[p], Destination(p)) /\ Go(p, "sync")
          /\ UNCHANGED <<marks, locks, task, lease, strain>>
       \/ /\ Trouble(1) /\ Fail(p) /\ SetMark(held[p], was[p]) /\ UNCHANGED names
       \/ /\ Trouble(2) /\ Fail(p) /\ UNCHANGED <<names, marks>>
    /\ UNCHANGED <<denial, rest>>

\* The directory that lost the entry is synced, then the one that got it.
Sync(p) ==
    /\ At(p, "sync")
    /\ LET left == Synced(onDisk, {"artifacts"}) IN
       \/ /\ onDisk' = Synced(left, {"quarantine", "cleanup"}) /\ Go(p, "clear")
          /\ UNCHANGED <<locks, task, lease, strain>>
       \/ /\ onDisk' \in {onDisk, left}
          /\ Trouble(1) /\ Fail(p)
    /\ UNCHANGED <<place, marks, denial, rest>>

\* Only then does the marker go.
Clear(p) ==
    /\ At(p, "clear")
    /\ \/ /\ SetMark(held[p], FALSE)
          /\ condemned' = IF duty[p] \in {"contain", "failed"}
                          THEN condemned \cup {held[p]} ELSE condemned
          /\ \/ /\ duty[p] \in {"prepare", "cleanup"} /\ Go(p, "sweep")
                /\ UNCHANGED <<locks, task, lease>>
             \/ duty[p] \in {"contain", "failed"} /\ Fail(p)
          /\ UNCHANGED strain
       \/ /\ Trouble(1) /\ Fail(p)
          /\ markedOnDisk' = [markedOnDisk EXCEPT ![held[p]] = @ \cup {FALSE}]
          /\ marked' \in {marked, [marked EXCEPT ![held[p]] = FALSE]}
          /\ UNCHANGED condemned
    /\ UNCHANGED <<names, denial, corrupt, made>>

-----------------------------------------------------------------------------
\* Before a build, and cleanup: both locks are held.

\* cleanup tries the build lock only.
Cleanup(p) ==
    /\ At(p, "idle") /\ lease[p] = NoPublication /\ builder = Nobody
    /\ builder' = p /\ call' = [call EXCEPT ![p] = "cleanup"]
    /\ Go(p, "prepare")
    /\ UNCHANGED <<names, marks, denial, readers, writer, full, duty, held, was, lease, rest, strain>>

\* variant: the artifact is not looked up again under the build lock.
NoRecheck(p) == Go(p, "prepare")

Recheck(p) == Go(p, "lookup")

\* variant: builders do not exclude each other.
BuildTogether(p) ==
    /\ At(p, "build")
    /\ builder' = p /\ call' = [call EXCEPT ![p] = "recheck"]
    /\ Recheck(p)
    /\ UNCHANGED <<names, marks, denial, readers, writer, full, duty, held, was, lease, rest, strain>>

Build(p) ==
    /\ At(p, "build") /\ builder = Nobody
    /\ builder' = p /\ call' = [call EXCEPT ![p] = "recheck"]
    /\ Recheck(p)
    /\ UNCHANGED <<names, marks, denial, readers, writer, full, duty, held, was, lease, rest, strain>>

Prepare(p) ==
    /\ At(p, "prepare") /\ Free
    /\ writer' = p
    /\ duty' = [duty EXCEPT ![p] = IF call[p] = "cleanup" THEN "cleanup" ELSE "prepare"]
    /\ Go(p, "repair")
    /\ UNCHANGED <<names, marks, denial, readers, builder, call, full, held, was, lease, rest, strain>>

\* Moves that were interrupted after the rename.
Interrupted == {b \in Publications : place[b] \in {"quarantine", "cleanup"} /\ marked[b]}

\* _repair_quarantine_transitions_locked clears their markers and syncs
\* quarantine/; then the entry is moved, if there is one.
Repair(p) ==
    /\ At(p, "repair")
    /\ \/ /\ marked' = [b \in Publications |-> marked[b] /\ b \notin Interrupted]
          /\ markedOnDisk' = [b \in Publications |->
                                 IF b \in Interrupted THEN {FALSE} ELSE markedOnDisk[b]]
          /\ onDisk' = IF Interrupted = {} THEN onDisk
                       ELSE Synced(onDisk, {"quarantine", "cleanup"})
          /\ \/ Entry = {} /\ Go(p, "sweep") /\ UNCHANGED held
             \/ \E b \in Entry : Go(p, "mark") /\ held' = [held EXCEPT ![p] = b]
          /\ UNCHANGED <<locks, call, full, duty, was, lease, strain>>
       \/ /\ \E S \in SUBSET Interrupted :
                 /\ marked' = [b \in Publications |-> marked[b] /\ b \notin S]
                 /\ markedOnDisk' = [b \in Publications |->
                                        markedOnDisk[b] \cup (IF b \in S THEN {FALSE} ELSE {})]
          /\ Interrupted # {} /\ Trouble(1) /\ Return(p)
          /\ UNCHANGED onDisk
    /\ UNCHANGED <<place, denial, rest>>

\* _remove_cleanup_tombstones_locked.  The name of a tree that was removed may
\* still come back; with its files at worst.
Sweep(p) ==
    /\ At(p, "sweep")
    /\ \/ /\ Removed("cleanup") /\ Go(p, "undeny")
          /\ UNCHANGED <<locks, task, lease, strain>>
       \/ Trouble(1) /\ Return(p) /\ UNCHANGED names
    /\ UNCHANGED <<marks, denial, rest>>

\* _remove_deny_locked, before a build, in a cleanup and in a publication.
Undeny(p) ==
    /\ At(p, "undeny")
    /\ \/ /\ deny' = FALSE
          /\ denyOnDisk' = IF deny THEN {FALSE} ELSE denyOnDisk
          /\ UNCHANGED strain
          /\ \/ duty[p] = "cleanup" /\ Return(p)
             \/ /\ duty[p] \in {"prepare", "publish"}
                /\ Go(p, IF duty[p] = "prepare" THEN "temps" ELSE "commit")
                /\ UNCHANGED <<locks, task, lease>>
       \/ /\ deny /\ Trouble(1)
          /\ \/ UNCHANGED denial
             \/ deny' = FALSE /\ denyOnDisk' = denyOnDisk \cup {FALSE}
          /\ \/ duty[p] # "publish" /\ Return(p)
             \/ /\ duty[p] = "publish"
                /\ Go(p, "condemn") /\ duty' = [duty EXCEPT ![p] = "failed"]
                /\ UNCHANGED <<locks, call, full, held, was, lease>>
    /\ UNCHANGED <<names, marks, rest>>

\* _remove_stale_temps_locked
Temps(p) ==
    /\ At(p, "temps")
    /\ \/ /\ Removed("tmp") /\ writer' = Nobody /\ Go(p, "produce")
          /\ UNCHANGED <<readers, builder, task, lease, strain>>
       \/ Trouble(1) /\ Return(p) /\ UNCHANGED names
    /\ UNCHANGED <<marks, denial, rest>>

-----------------------------------------------------------------------------
\* Building and publishing.

\* The producer writes a staging directory, which is marked and synced, or it
\* fails and leaves one that is discarded.
Produce(p) ==
    /\ At(p, "produce")
    /\ \/ /\ made < MaxPublications
          /\ made' = made + 1
          /\ place' = [place EXCEPT ![made + 1] = "tmp"]
          /\ onDisk' = [onDisk EXCEPT ![made + 1] = {"none", "tmp"}]
          /\ SetMark(made + 1, TRUE)
          /\ held' = [held EXCEPT ![p] = made + 1]
          /\ Go(p, "publish") \/ Go(p, "discard")
          /\ UNCHANGED <<locks, call, full, duty, was, lease>>
       \/ /\ made = MaxPublications /\ Return(p)
          /\ UNCHANGED <<names, marks, made>>
    /\ UNCHANGED <<denial, corrupt, condemned, strain>>

\* The artifact lock is waited for without a deadline; then the rename.  The
\* branch for an entry of somebody else is only for processes that take no locks
\* (PublishesAlone).
Publish(p) ==
    /\ At(p, "publish") /\ Free
    /\ \/ /\ Rename(held[p], "artifacts") /\ writer' = p
          /\ duty' = [duty EXCEPT ![p] = "publish"] /\ Go(p, "harden")
          /\ UNCHANGED <<condemned, strain>>
       \/ /\ Trouble(1) /\ Go(p, "discard")
          /\ condemned' = condemned \cup {held[p]}
          /\ UNCHANGED <<names, writer, duty>>
    /\ UNCHANGED <<marks, denial, readers, builder, call, full, held, was, lease, corrupt, made>>

\* A publication that fails after the rename has to be contained.
Reject(p) == /\ Trouble(1)
             /\ Go(p, "condemn") /\ duty' = [duty EXCEPT ![p] = "failed"]
             /\ UNCHANGED <<locks, call, full, held, was, lease>>

\* From here on a lookup returns it.
Harden(p) ==
    /\ At(p, "harden")
    /\ \/ /\ marked' = [marked EXCEPT ![held[p]] = FALSE]
          /\ markedOnDisk' = [markedOnDisk EXCEPT ![held[p]] = @ \cup {FALSE}]
          /\ Go(p, "settle")
          /\ UNCHANGED <<locks, task, lease, strain>>
       \/ Reject(p) /\ UNCHANGED marks
    /\ UNCHANGED <<names, denial, rest>>

\* The mode, then the removal from tmp/.
Settle(p) ==
    /\ At(p, "settle")
    /\ \/ /\ markedOnDisk' = [markedOnDisk EXCEPT ![held[p]] = {marked[held[p]]}]
          /\ \/ /\ onDisk' = Synced(onDisk, {"tmp"}) /\ Go(p, "undeny")
                /\ UNCHANGED <<locks, task, lease, strain>>
             \/ Reject(p) /\ UNCHANGED onDisk
       \/ Reject(p) /\ UNCHANGED <<markedOnDisk, onDisk>>
    /\ UNCHANGED <<place, marked, denial, rest>>

\* variant: the directory of the new name is not synced.
Uncommitted == onDisk

Committed == Synced(onDisk, {"artifacts"})

Commit(p) ==
    /\ At(p, "commit")
    /\ \/ /\ onDisk' = Committed
          /\ writer' = Nobody /\ call' = [call EXCEPT ![p] = "final"]
          /\ duty' = [duty EXCEPT ![p] = "none"] /\ held' = [held EXCEPT ![p] = NoPublication]
          /\ Go(p, "lookup")
          /\ UNCHANGED <<readers, builder, full, was, lease, strain>>
       \/ Reject(p) /\ UNCHANGED onDisk
    /\ UNCHANGED <<place, marks, denial, rest>>

\* _contain_failed_publication_locked: mark, then move.
Condemn(p) ==
    /\ At(p, "condemn")
    /\ \/ /\ SetMark(held[p], TRUE) /\ condemned' = condemned \cup {held[p]}
          /\ UNCHANGED strain
       \/ Trouble(1) /\ UNCHANGED <<marks, condemned>>
    /\ Go(p, "mark")
    /\ UNCHANGED <<names, denial, locks, task, lease, corrupt, made>>

\* _discard_temp; errors are ignored.
Discard(p) ==
    /\ At(p, "discard") /\ Free
    /\ \/ /\ \/ /\ place[held[p]] = "tmp"
                /\ place' = [place EXCEPT ![held[p]] = "none"]
                /\ onDisk' = [onDisk EXCEPT ![held[p]] = {"none"}]
             \/ place[held[p]] # "tmp" /\ UNCHANGED names
          /\ UNCHANGED strain
       \/ Trouble(1) /\ UNCHANGED names
    /\ Return(p)
    /\ UNCHANGED <<marks, denial, rest>>

-----------------------------------------------------------------------------
\* Outside: bit rot, the death of a process, a power loss.

Rot == /\ \E b \in Entry \ corrupt : corrupt' = corrupt \cup {b}
       /\ UNCHANGED <<names, marks, denial, locks, pc, task, lease, made, condemned, strain>>

Crash(p) ==
    /\ ~At(p, "idle") \/ lease[p] # NoPublication
    /\ Trouble(1) /\ Stop({p})
    /\ lease' = [lease EXCEPT ![p] = NoPublication]
    /\ UNCHANGED <<names, marks, denial, rest>>

PowerLoss ==
    /\ Trouble(2) /\ Stop(Processes)
    /\ lease' = [p \in Processes |-> NoPublication]
    /\ place' \in [Publications -> Places] /\ marked' \in [Publications -> BOOLEAN]
    /\ \A b \in Publications : place'[b] \in onDisk[b] /\ marked'[b] \in markedOnDisk[b]
    /\ Cardinality(Entry') <= 1 /\ deny' \in denyOnDisk
    /\ onDisk' = [b \in Publications |-> {place'[b]}]
    /\ markedOnDisk' = [b \in Publications |-> {marked'[b]}]
    /\ denyOnDisk' = {deny'}
    /\ UNCHANGED rest

Step(p) == \/ Start(p) \/ Release(p) \/ TimeOut(p)
           \/ Lookup(p) \/ Open(p) \/ Check(p) \/ ReadError(p)
           \/ Deny(p) \/ DenySync(p) \/ Exclude(p) \/ Lockout(p)
           \/ Mark(p) \/ Replace(p) \/ Sync(p) \/ Clear(p)
           \/ Cleanup(p) \/ Build(p) \/ Prepare(p) \/ Repair(p) \/ Sweep(p)
           \/ Undeny(p) \/ Temps(p)
           \/ Produce(p) \/ Publish(p) \/ Harden(p) \/ Settle(p) \/ Commit(p)
           \/ Condemn(p) \/ Discard(p)

Next == (\E p \in Processes : Step(p) \/ Crash(p)) \/ Rot \/ PowerLoss

StoreSpec == Init /\ [][Next]_vars

-----------------------------------------------------------------------------
\* Properties.

Shared == {"open", "check", "deny", "denysync", "exclude"}
Exclusive == {"mark", "replace", "sync", "clear", "repair", "sweep", "undeny", "temps",
              "harden", "settle", "commit", "condemn"}
Building == {"produce", "publish", "discard"}
Pcs == Shared \cup Exclusive \cup Building \cup {"idle", "lookup", "lockout", "build", "prepare"}
Calls == {"none", "lookup", "initial", "recheck", "final", "cleanup"}
Duties == {"none", "prepare", "cleanup", "contain", "publish", "failed"}

\* The types of the variables.
StoreTypeOK ==
    /\ place \in [Publications -> Places] /\ onDisk \in [Publications -> SUBSET Places]
    /\ \A b \in Publications : place[b] \in onDisk[b] /\ marked[b] \in markedOnDisk[b]
    /\ marked \in [Publications -> BOOLEAN] /\ markedOnDisk \in [Publications -> SUBSET BOOLEAN]
    /\ corrupt \subseteq Publications /\ condemned \subseteq Publications
    /\ deny \in BOOLEAN /\ deny \in denyOnDisk /\ denyOnDisk \subseteq BOOLEAN
    /\ made \in 0 .. MaxPublications /\ strain \in 0 .. MaxStrain
    /\ readers \subseteq Processes
    /\ writer \in Processes \cup {Nobody} /\ builder \in Processes \cup {Nobody}
    /\ pc \in [Processes -> Pcs] /\ call \in [Processes -> Calls]
    /\ full \in [Processes -> BOOLEAN] /\ duty \in [Processes -> Duties]
    /\ held \in [Processes -> Publications \cup {NoPublication}]
    /\ was \in [Processes -> BOOLEAN]
    /\ lease \in [Processes -> Publications \cup {NoPublication}]

\* What a process maps stays published until it lets go: no cleanup, rebuild or
\* containment takes a leased artifact away.
LeaseBacked ==
    \A p \in Processes : lease[p] # NoPublication =>
        place[lease[p]] = "artifacts" /\ p \in readers /\ writer = Nobody

\* A build never publishes over another entry: the entry it prepared away is
\* gone until its own rename, and no other build gets in between.
PublishesAlone ==
    /\ Cardinality(Entry) <= 1
    /\ \A p \in Processes : At(p, "publish") => Entry = {} /\ builder = p

\* What was excluded durably (a denial that was recorded, a publication that
\* was reported as failed) is never leased again.
CondemnedNotServed ==
    [][\A p \in Processes : lease'[p] # lease[p] => lease'[p] \notin condemned]_vars

\* A build takes an artifact away only if it is corrupt or marked: the one that
\* another process published in the meantime stays.
HealthyStays ==
    \A p \in Processes :
        At(p, "mark") /\ duty[p] = "prepare" => held[p] \in corrupt \/ marked[held[p]]

\* After a publication committed, a power loss finds it where it is, without a
\* mark.  (A denial may come back, when the sync of an earlier removal failed.)
CommitIsDurable ==
    [][\A p \in Processes : At(p, "commit") /\ pc'[p] = "lookup" =>
           \E b \in Entry : onDisk'[b] = {"artifacts"} /\ markedOnDisk'[b] = {FALSE}]_vars

\* The marker of a moved artifact stays durable until the move is: a rename that
\* is rolled back must not expose it unmarked.
RollbackIsMarked ==
    \A b \in Publications :
        place[b] # "artifacts" /\ "artifacts" \in onDisk[b] => FALSE \notin markedOnDisk[b]
=============================================================================
