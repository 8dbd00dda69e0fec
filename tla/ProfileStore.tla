---------------------------- MODULE ProfileStore ----------------------------
(***************************************************************************)
(* The profiles on disk and in memory (local_store.dart, providers.dart):  *)
(* the allocation of ids under _idLock, the batch save with its rollback,  *)
(* the restore of a backup, and the flows of the profile list - create,    *)
(* import, subscription refresh, update, delete, load.  Dart runs one      *)
(* callback at a time, so an action is what happens between two awaits;    *)
(* the files themselves are written by a rename, in one step.              *)
(*                                                                         *)
(* A profile is its group and who wrote its file last: a flow that had the *)
(* id allocated, or "update", "restore", or "old" for those of the start.  *)
(***************************************************************************)
EXTENDS Naturals

CONSTANTS Flows,        \* calls of the notifier that may be in progress
          MaxId,        \* a bound on the ids of profiles and groups
          BatchSizes,   \* how many nodes a subscription may yield
          Stored,       \* the profiles on disk at first: id -> profile or Nil
          Backup,       \* the profiles of the backup that may be restored
          BackupGroups, \* and its groups
          MaxCalls, MaxFaults, MaxCrashes,
          Nil

Ids == 1..MaxId
Gids == 0..MaxId                   \* 0: no group
Writers == Flows \cup {"update", "restore", "old"}
Profiles == [gid : Gids, by : Writers]
NoProfile == [i \in Ids |-> Nil]

ASSUME StoreAssumption ==
  /\ MaxId \in Nat \ {0} /\ BatchSizes \subseteq Nat \ {0}
  /\ Stored \in [Ids -> [gid : Gids, by : {"old"}] \cup {Nil}]
  /\ Backup \in [Ids -> [gid : Gids, by : {"restore"}] \cup {Nil}]
  /\ BackupGroups \subseteq Ids
  /\ Nil \notin Profiles \cup Flows \cup Nat
  /\ Flows \cap {"update", "restore", "old"} = {}
  /\ MaxCalls \in Nat /\ MaxFaults \in Nat /\ MaxCrashes \in Nat

VARIABLES
  disk,      \* the profile files: id -> profile or Nil
  groups,    \* the group files
  state,     \* the profile list the user sees
  idLock,    \* _idLock: the flow whose scan and reservation are under way
  nextId,    \* _nextProfileId, or Nil before the first allocation
  nextGid,   \* _nextGroupId
  pc, op,    \* where each flow is, and which call it serves
  ids,       \* the ids of its profiles
  left,      \* the ids it has yet to delete, write or put back
  gid,       \* the group it writes to
  base,      \* maxId of its scan
  previous,  \* saveProfiles: what its files held before
  raw,       \* load: what it has read
  hits,      \* history: the failures of this call
  calls, faults, crashes           \* how often the bounded things happened

files == <<disk, groups>>
alloc == <<idLock, nextId, nextGid>>
locals == <<ids, left, gid, base, previous, raw>>
budget == <<calls, crashes>>
vars == <<files, state, alloc, pc, op, locals, hits, budget, faults>>

OnDisk(d) == {i \in Ids : d[i] # Nil}

Idle == /\ idLock = Nil /\ nextId = Nil /\ nextGid = Nil
        /\ pc = [t \in Flows |-> "idle"] /\ op = [t \in Flows |-> "none"]
        /\ ids = [t \in Flows |-> {}] /\ left = ids
        /\ gid = [t \in Flows |-> 0] /\ base = gid /\ hits = gid
        /\ previous = [t \in Flows |-> NoProfile] /\ raw = previous

Init ==
  /\ disk = Stored /\ state = Stored
  /\ groups = {Stored[i].gid : i \in OnDisk(Stored)} \ {0}
  /\ Idle
  /\ calls = 0 /\ faults = 0 /\ crashes = 0

Goto(t, label) == pc' = [pc EXCEPT ![t] = label]

(* One of the file operations of t fails. *)
Fault(t) ==
  /\ faults < MaxFaults
  /\ faults' = faults + 1
  /\ hits' = [hits EXCEPT ![t] = @ + 1]
NoFault == UNCHANGED <<hits, faults>>

First(i, S) == i \in S /\ \A j \in S : i <= j

-----------------------------------------------------------------------------
(* The calls.                                                              *)

Begin(t, call, label, batch, g) ==
  /\ pc[t] = "idle" /\ calls < MaxCalls
  /\ calls' = calls + 1
  /\ op' = [op EXCEPT ![t] = call]
  /\ Goto(t, label)
  /\ ids' = [ids EXCEPT ![t] = batch]
  /\ left' = [left EXCEPT ![t] = batch]
  /\ gid' = [gid EXCEPT ![t] = g]
  /\ UNCHANGED <<files, state, alloc, base, previous, raw, hits, faults, crashes>>

(* Once the core has parsed the content: importFromClipboard, or           *)
(* importSubscription; refreshSubscription. *)
Create(t) == \E g \in groups \cup {0} : Begin(t, "create", "lock", {}, g)
Import(t) == \E call \in {"paste", "import"} : Begin(t, call, "lock", {}, 0)
Refresh(t) == \E g \in groups : Begin(t, "refresh", "lock", {}, g)

(* A copy of a profile of the list, edited, moved to another group, or     *)
(* with a latency the core has yet to measure. *)
Update(t) == \E i \in OnDisk(state), g \in groups \cup {0} :
               Begin(t, "update", "save", {i}, g)
Delete(t) == \E i \in OnDisk(state) : Begin(t, "delete", "remove", {i}, 0)

(* importBackup with clearExisting, from loadProfiles on. *)
Restore(t) == Begin(t, "restore", "remove", OnDisk(disk), 0)

-----------------------------------------------------------------------------
(* _allocateIds, of profiles (lock, reserve) and of groups.                *)

(* The scan of the directory. *)
Lock(t) ==
  /\ pc[t] \in {"lock", "lockGroup"} /\ idLock = Nil
  /\ idLock' = t
  /\ LET there == IF pc[t] = "lock" THEN OnDisk(disk) ELSE groups
     IN \E m \in there \cup {0} :
          /\ \A j \in there : j <= m
          /\ base' = [base EXCEPT ![t] = m]
  /\ Goto(t, IF pc[t] = "lock" THEN "reserve" ELSE "reserveGroup")
  /\ UNCHANGED <<files, state, nextId, nextGid, op, ids, left, gid, previous,
                 raw, budget, hits, faults>>

(* Mutant: the gate opens after the reservation, not in a finally. *)
ReleaseOnSuccess == idLock' = IF faults' = faults THEN Nil ELSE idLock
Release == idLock' = Nil

ScanFails(t) ==
  /\ pc[t] \in {"reserve", "reserveGroup"}
  /\ Fault(t) /\ Goto(t, "failed")
  /\ Release
  /\ UNCHANGED <<files, state, nextId, nextGid, op, locals, budget>>

(* Mutant: what is reserved and not yet written is given again. *)
FirstFreeOnDisk(next, m) == m + 1
FirstFree(next, m) == IF next = Nil \/ next < m + 1 THEN m + 1 ELSE next

(* The members of the group a refresh removes, as the list shows them. *)
Members(t) == {i \in OnDisk(state) : state[i].gid = gid[t]}

(* What a flow does once its profiles have their ids. *)
Allocated(t, batch) ==
  /\ ids' = [ids EXCEPT ![t] = batch]
  /\ left' = [left EXCEPT ![t] =
                IF op[t] = "refresh" THEN Members(t) ELSE batch]
  /\ Goto(t, IF op[t] = "import" THEN "lockGroup"
             ELSE IF op[t] = "refresh" THEN "remove" ELSE "save")

Reserve(t) ==
  LET first == FirstFree(nextId, base[t])
  IN /\ pc[t] = "reserve"
     /\ \E k \in IF op[t] = "create" THEN {1} ELSE BatchSizes :
          /\ first + k <= MaxId + 1
          /\ Allocated(t, {i \in Ids : first <= i /\ i < first + k})
          /\ nextId' = first + k
     /\ NoFault /\ Release
     /\ UNCHANGED <<files, state, nextGid, op, gid, base, previous, raw, budget>>

ReserveGroup(t) ==
  LET first == FirstFree(nextGid, base[t])
  IN /\ pc[t] = "reserveGroup" /\ first <= MaxId
     /\ gid' = [gid EXCEPT ![t] = first]
     /\ nextGid' = first + 1
     /\ Goto(t, "save")
     /\ NoFault /\ Release
     /\ UNCHANGED <<files, state, nextId, op, ids, left, base, previous, raw,
                    budget>>

-----------------------------------------------------------------------------
(* The files of a call, one after the other.                               *)

Batch == {"paste", "import", "refresh"}      \* the calls that save a batch

(* Where a flow goes when a loop over its profiles is over. *)
After(t, label) ==
  IF label = "remove" /\ op[t] \in {"refresh", "restore"} THEN "save"
  ELSE IF label = "save" /\ op[t] \in {"import", "refresh", "restore"} THEN "group"
  ELSE IF label \in {"rollback", "undo"} THEN "failed" ELSE "load"

(* What is left when it gets there. *)
Rest(t, label) ==
  IF label = "remove" /\ op[t] = "refresh" THEN ids[t]
  ELSE IF label = "remove" /\ op[t] = "restore" THEN OnDisk(Backup) ELSE {}

(* The step for profile i of the loop at label is done. *)
Advance(t, i, label) ==
  LET more == left[t] \ {i}
  IN /\ left' = [left EXCEPT ![t] = IF more = {} THEN Rest(t, label) ELSE more]
     /\ Goto(t, IF more = {} THEN After(t, label) ELSE label)

(* A loop over nothing. *)
Skip(t) ==
  /\ pc[t] \in {"remove", "save"} /\ left[t] = {}
  /\ left' = [left EXCEPT ![t] = Rest(t, pc[t])]
  /\ Goto(t, After(t, pc[t]))
  /\ groups' = IF op[t] = "restore" /\ pc[t] = "remove" THEN {} ELSE groups
  /\ NoFault
  /\ UNCHANGED <<disk, state, alloc, op, ids, gid, base, previous, raw, budget>>

(* deleteProfile: of a refresh's old members, of the user's profile, of    *)
(* all of them before a restore (whose groups go with the last one), of an *)
(* import whose group could not be saved. *)
Remove(t, i) ==
  /\ pc[t] \in {"remove", "undo"} /\ First(i, left[t])
  /\ disk' = [disk EXCEPT ![i] = Nil]
  /\ groups' = IF op[t] = "restore" /\ left[t] = {i} THEN {} ELSE groups
  /\ Advance(t, i, pc[t])
  /\ NoFault
  /\ UNCHANGED <<state, alloc, op, ids, gid, base, previous, raw, budget>>

Written(t, i) ==
  IF op[t] = "restore" THEN Backup[i]
  ELSE [gid |-> gid[t], by |-> IF op[t] = "update" THEN "update" ELSE t]

(* saveProfile, or one turn of saveProfiles. *)
Save(t, i) ==
  /\ pc[t] = "save" /\ First(i, left[t])
  /\ disk' = [disk EXCEPT ![i] = Written(t, i)]
  /\ previous' = IF op[t] \in Batch THEN [previous EXCEPT ![t][i] = disk[i]]
                 ELSE previous
  /\ Advance(t, i, "save")
  /\ NoFault
  /\ UNCHANGED <<groups, state, alloc, op, ids, gid, base, raw, budget>>

(* Mutant: the batch is not rolled back. *)
RollbackNothing(t, i) ==
  Goto(t, "failed") /\ UNCHANGED <<left, previous>>

(* The files written so far, and the one that failed, are put back as they *)
(* were. *)
Rollback(t, i) ==
  /\ previous' = [previous EXCEPT ![t][i] = disk[i]]
  /\ left' = [left EXCEPT ![t] = (ids[t] \ left[t]) \cup {i}]
  /\ Goto(t, "rollback")

SaveFails(t, i) ==
  /\ pc[t] = "save" /\ First(i, left[t]) /\ Fault(t)
  /\ IF op[t] \in Batch THEN Rollback(t, i)
     ELSE Goto(t, "failed") /\ UNCHANGED <<left, previous>>
  /\ UNCHANGED <<files, state, alloc, op, ids, gid, base, raw, budget>>

RemoveFails(t) ==
  /\ pc[t] \in {"remove", "undo"} /\ left[t] # {} /\ Fault(t)
  /\ Goto(t, "failed")
  /\ UNCHANGED <<files, state, alloc, op, locals, budget>>

PutBack(t, i) ==
  /\ pc[t] = "rollback" /\ First(i, left[t])
  /\ disk' = [disk EXCEPT ![i] = previous[t][i]]
  /\ Advance(t, i, "rollback")
  /\ NoFault
  /\ UNCHANGED <<groups, state, alloc, op, ids, gid, base, previous, raw, budget>>

(* The failure is swallowed and the next file put back. *)
PutBackFails(t, i) ==
  /\ pc[t] = "rollback" /\ First(i, left[t]) /\ Fault(t)
  /\ Advance(t, i, "rollback")
  /\ UNCHANGED <<files, state, alloc, op, ids, gid, base, previous, raw, budget>>

SaveGroup(t) ==
  /\ pc[t] = "group"
  /\ groups' = groups \cup (IF op[t] = "restore" THEN BackupGroups ELSE {gid[t]})
  /\ Goto(t, "load")
  /\ NoFault
  /\ UNCHANGED <<disk, state, alloc, op, locals, budget>>

Undo(t) ==
  IF op[t] = "import" THEN /\ left' = [left EXCEPT ![t] = ids[t]]
                           /\ Goto(t, "undo")
  ELSE Goto(t, "failed") /\ UNCHANGED left

SaveGroupFails(t) ==
  /\ pc[t] = "group" /\ Fault(t)
  /\ Undo(t)
  /\ UNCHANGED <<files, state, alloc, op, ids, gid, base, previous, raw, budget>>

-----------------------------------------------------------------------------
(* load, and the end of a call.                                            *)

Return(t) ==
  /\ Goto(t, "idle") /\ op' = [op EXCEPT ![t] = "none"]
  /\ ids' = [ids EXCEPT ![t] = {}] /\ left' = [left EXCEPT ![t] = {}]
  /\ gid' = [gid EXCEPT ![t] = 0] /\ base' = [base EXCEPT ![t] = 0]
  /\ previous' = [previous EXCEPT ![t] = NoProfile]
  /\ raw' = [raw EXCEPT ![t] = NoProfile]
  /\ hits' = [hits EXCEPT ![t] = 0]
  /\ UNCHANGED <<files, alloc, budget, faults>>

Read(t) ==
  /\ pc[t] = "load"
  /\ raw' = [raw EXCEPT ![t] = disk]
  /\ Goto(t, "publish")
  /\ NoFault
  /\ UNCHANGED <<files, state, alloc, op, ids, left, gid, base, previous, budget>>

Publish(t) == pc[t] = "publish" /\ state' = raw[t] /\ Return(t)

(* The list becomes an error, which has no value. *)
LoadFails(t) ==
  /\ pc[t] = "load" /\ faults < MaxFaults /\ state' = NoProfile
  /\ Goto(t, "idle") /\ op' = [op EXCEPT ![t] = "none"]
  /\ ids' = [ids EXCEPT ![t] = {}] /\ left' = [left EXCEPT ![t] = {}]
  /\ gid' = [gid EXCEPT ![t] = 0] /\ base' = [base EXCEPT ![t] = 0]
  /\ previous' = [previous EXCEPT ![t] = NoProfile]
  /\ hits' = [hits EXCEPT ![t] = 0] /\ faults' = faults + 1
  /\ UNCHANGED <<files, alloc, raw, budget>>

(* The caller shows the error. *)
Report(t) == pc[t] = "failed" /\ Return(t) /\ UNCHANGED state

(* The application dies at any point and is opened again. *)
Crash ==
  /\ crashes < MaxCrashes /\ crashes' = crashes + 1
  /\ idLock' = Nil /\ nextId' = Nil /\ nextGid' = Nil
  /\ pc' = [t \in Flows |-> "idle"] /\ op' = [t \in Flows |-> "none"]
  /\ ids' = [t \in Flows |-> {}] /\ left' = ids'
  /\ gid' = [t \in Flows |-> 0] /\ base' = gid' /\ hits' = gid'
  /\ previous' = [t \in Flows |-> NoProfile] /\ raw' = previous'
  /\ state' = disk
  /\ UNCHANGED <<files, calls, faults>>

-----------------------------------------------------------------------------
Work(t) ==
  \/ Lock(t) \/ Reserve(t) \/ ReserveGroup(t)
  \/ Skip(t) \/ \E i \in Ids : Remove(t, i) \/ Save(t, i) \/ PutBack(t, i)
  \/ SaveGroup(t) \/ Read(t) \/ Publish(t) \/ Report(t)

Fails(t) ==
  \/ ScanFails(t) \/ RemoveFails(t) \/ SaveGroupFails(t) \/ LoadFails(t)
  \/ \E i \in Ids : SaveFails(t, i) \/ PutBackFails(t, i)

Call(t) == \/ Create(t) \/ Import(t) \/ Refresh(t) \/ Update(t) \/ Delete(t)
           \/ Restore(t)

Next == (\E t \in Flows : Work(t) \/ Fails(t) \/ Call(t)) \/ Crash

(* The file operations, each with its failure, come to an end. *)
Spec == Init /\ [][Next]_vars /\ \A t \in Flows : WF_vars(Work(t))

-----------------------------------------------------------------------------
(* Properties.                                                             *)

(* The ids a flow has been given and not yet written. *)
Allocates == {"create", "paste", "import", "refresh"}
Fresh(t) ==
  {i \in ids[t] : /\ op[t] \in Allocates
                  /\ \/ pc[t] \in {"lockGroup", "reserveGroup", "remove"}
                     \/ pc[t] = "save" /\ i \in left[t]}

(* "ids that do not collide with anything already on disk": until a flow   *)
(* writes them, its ids belong to no other flow, and no file has them but  *)
(* one that a restore or the update of a deleted profile has put there.    *)
FreshIdsFree ==
  \A t \in Flows, i \in Ids :
    i \in Fresh(t) =>
      /\ disk[i] = Nil \/ disk[i].by \in {"update", "restore"}
      /\ \A u \in Flows \ {t} : op[u] \in Allocates => i \notin ids[u]

(* "a partial subscription import cannot leave orphaned nodes behind": an  *)
(* import that reports a failure has left none of its files, whatever step *)
(* failed and whatever ran beside it, unless its undoing failed as well.   *)
FailedImportLeavesNothing ==
  \A t \in Flows :
    pc[t] = "failed" /\ op[t] \in {"paste", "import"} /\ hits[t] <= 1 =>
      \A i \in ids[t] : disk[i] = Nil \/ disk[i].by # t

(* No flow waits for ever: the gate opens after every allocation, and a    *)
(* call returns whatever fails in it.                                      *)
EveryFlowReturns == \A t \in Flows : pc[t] # "idle" ~> pc[t] = "idle"

=============================================================================
