------------------------- MODULE ProfileStoreProofs -------------------------
(***************************************************************************)
(* Proofs about ProfileStore, for any number of overlapping calls, ids,    *)
(* failures and crashes: an allocated id is its flow's alone until written,*)
(* and an import that fails leaves none of its files.                      *)
(*                                                                         *)
(* FreshIdsFree is not inductive: it needs to know that the ids given out  *)
(* lie below _nextProfileId and are disjoint (GivenOK), that whoever is    *)
(* about to reserve is alone and has seen, in its scan or in the counter,  *)
(* every file a flow has written (ReserveOK), and that a rollback puts     *)
(* nothing back that a flow had written (RollbackOK).  The second property *)
(* rests on it, and on UndoOK: what has been written is yet to be undone.  *)
(***************************************************************************)
EXTENDS ProfileStore, TLAPS

OpNames == Allocates \cup {"none", "update", "delete", "restore"}
Labels == {"idle", "lock", "reserve", "lockGroup", "reserveGroup", "remove",
           "save", "rollback", "undo", "group", "load", "publish", "failed"}
Files == [Ids -> Profiles \cup {Nil}]
Counters == (1..(MaxId + 1)) \cup {Nil}

TypeOK ==
  /\ disk \in Files /\ state \in Files /\ groups \in SUBSET Gids
  /\ idLock \in Flows \cup {Nil}
  /\ nextId \in Counters /\ nextGid \in Counters
  /\ pc \in [Flows -> Labels] /\ op \in [Flows -> OpNames]
  /\ ids \in [Flows -> SUBSET Ids] /\ left \in [Flows -> SUBSET Ids]
  /\ gid \in [Flows -> Gids] /\ base \in [Flows -> Gids]
  /\ previous \in [Flows -> Files] /\ raw \in [Flows -> Files]

(* Which call may be where. *)
PlaceOK == \A t \in Flows :
  /\ pc[t] \in {"lock", "reserve"} => op[t] \in Allocates /\ ids[t] = {}
  /\ pc[t] \in {"lockGroup", "reserveGroup", "undo"} => op[t] = "import"
  /\ pc[t] = "remove" => op[t] \in {"refresh", "delete", "restore"}
  /\ pc[t] = "save" => op[t] \in Allocates \cup {"update", "restore"}
  /\ pc[t] = "rollback" => op[t] \in Batch
  /\ pc[t] \in {"lockGroup", "reserveGroup", "save"} /\ op[t] \in Allocates
       => left[t] \subseteq ids[t]

(* _idLock: whoever reserves has it. *)
LockOK == \A t \in Flows : pc[t] \in {"reserve", "reserveGroup"} => idLock = t

Below(i) == nextId # Nil /\ i < nextId

GivenOK == \A t \in Flows : op[t] \in Allocates =>
  /\ \A i \in ids[t] : Below(i)
  /\ \A u \in Flows \ {t} : op[u] \in Allocates => ids[t] \cap ids[u] = {}

(* A file as no allocation has put it there. *)
Loose(p) == p = Nil \/ p.by \in {"update", "restore"}

ReserveOK == \A t \in Flows : pc[t] = "reserve" =>
  \A i \in Ids : Loose(disk[i]) \/ i <= base[t] \/ Below(i)

RollbackOK == \A t \in Flows, i \in Ids : Loose(previous[t][i])

FreshOK == \A t \in Flows : \A i \in Fresh(t) : Loose(disk[i])

IInv == /\ TypeOK /\ PlaceOK /\ LockOK /\ GivenOK
        /\ ReserveOK /\ RollbackOK /\ FreshOK

-----------------------------------------------------------------------------
(* The start satisfies the invariant. *)
LEMMA InitIInv == Init => IInv
BY StoreAssumption
DEF Init, Idle, IInv, TypeOK, PlaceOK, LockOK, GivenOK, ReserveOK, RollbackOK,
    FreshOK, Loose, Fresh, Files, Counters, Labels, OpNames, Allocates, Batch,
    NoProfile, OnDisk, Profiles, Writers, Ids, Gids

(* What a step does to the flows that neither allocates nor writes a file. *)
Quiet ==
  /\ UNCHANGED <<disk, nextId>>
  /\ \A u \in Flows :
       /\ op'[u] \in Allocates =>
            ids'[u] = {} \/ (op[u] \in Allocates /\ ids'[u] = ids[u])
       /\ pc'[u] = "reserve" => pc[u] = "reserve" /\ base'[u] = base[u]
       /\ Fresh(u)' \subseteq Fresh(u)

(* Such a step keeps what the invariant says of ids and files. *)
LEMMA QuietSteps ==
  ASSUME IInv, Quiet
  PROVE  GivenOK' /\ ReserveOK' /\ FreshOK'
<1>0. GivenOK /\ ReserveOK /\ FreshOK
  BY DEF IInv
<1>1. GivenOK'
  <2>1. SUFFICES ASSUME NEW u \in Flows, op'[u] \in Allocates
                 PROVE  /\ \A i \in ids'[u] : Below(i)'
                        /\ \A v \in Flows \ {u} :
                             op'[v] \in Allocates => ids'[u] \cap ids'[v] = {}
    BY DEF GivenOK
  <2>2. CASE ids'[u] = {}
    BY <2>2
  <2>3. CASE op[u] \in Allocates /\ ids'[u] = ids[u]
    BY <1>0, <2>1, <2>3 DEF GivenOK, Quiet, Below
  <2>4. QED BY <2>1, <2>2, <2>3 DEF Quiet
<1>2. ReserveOK'
  BY <1>0 DEF ReserveOK, Quiet, Below
<1>3. FreshOK'
  BY <1>0 DEF FreshOK, Quiet, Loose
<1>4. QED BY <1>1, <1>2, <1>3

(* A call begins, out of the six. *)
LEMMA BeginKeepsIInv ==
  ASSUME IInv, NEW t \in Flows,
         NEW call \in OpNames, NEW label \in {"lock", "save", "remove"},
         NEW batch \in SUBSET Ids, NEW g \in Gids,
         label = "lock" => call \in Allocates /\ batch = {},
         label = "save" => call = "update",
         label = "remove" => call \in {"delete", "restore"},
         Begin(t, call, label, batch, g)
  PROVE  IInv'
<1> USE StoreAssumption
    DEF Goto, files, alloc, Labels, OpNames, Allocates, Batch, Files, Counters,
        Loose, Below, Fresh
<1>0. /\ TypeOK /\ PlaceOK /\ LockOK /\ GivenOK
      /\ ReserveOK /\ RollbackOK /\ FreshOK
  BY DEF IInv
<1>1. TypeOK'
  BY <1>0 DEF Begin, TypeOK
<1>2. PlaceOK' /\ LockOK'
  BY <1>0 DEF Begin, TypeOK, PlaceOK, LockOK
<1>3. RollbackOK'
  BY <1>0 DEF Begin, RollbackOK
<1>4. Quiet
  BY <1>0 DEF Begin, Quiet, TypeOK, PlaceOK
<1>5. QED BY <1>1, <1>2, <1>3, <1>4, QuietSteps DEF IInv

(* Each of the six calls begins so. *)
LEMMA CallKeepsIInv ==
  ASSUME IInv, NEW t \in Flows, Call(t)
  PROVE  IInv'
<1>0. /\ groups \cup {0} \subseteq Gids /\ {} \in SUBSET Ids
      /\ \A d : OnDisk(d) \in SUBSET Ids
  BY StoreAssumption DEF IInv, TypeOK, Gids, Ids, OnDisk
<1> USE <1>0 DEF OpNames, Allocates
<1>1. CASE Create(t) BY <1>1, BeginKeepsIInv DEF Create
<1>2. CASE Import(t) BY <1>2, BeginKeepsIInv DEF Import
<1>3. CASE Refresh(t) BY <1>3, BeginKeepsIInv DEF Refresh
<1>4. CASE Update(t) BY <1>4, BeginKeepsIInv DEF Update
<1>5. CASE Delete(t) BY <1>5, BeginKeepsIInv DEF Delete
<1>6. CASE Restore(t) BY <1>6, BeginKeepsIInv DEF Restore
<1>7. QED BY <1>1, <1>2, <1>3, <1>4, <1>5, <1>6 DEF Call

(* The steps of an allocation. *)
LEMMA AllocationKeepsIInv ==
  ASSUME IInv, NEW t \in Flows,
         \/ Lock(t) \/ ScanFails(t) \/ Reserve(t) \/ ReserveGroup(t)
  PROVE  IInv'
<1> USE StoreAssumption
    DEF Goto, NoFault, Fault, Release, files, alloc, locals, budget, Labels,
        OpNames, Allocates, Batch, Files, Counters, Profiles, Writers, Ids,
        Gids, Loose, Below, Fresh
<1>0. /\ TypeOK /\ PlaceOK /\ LockOK /\ GivenOK
      /\ ReserveOK /\ RollbackOK /\ FreshOK
  BY DEF IInv
<1>1. ASSUME Lock(t) PROVE IInv'
  <2>1. TypeOK'
    BY <1>0, <1>1 DEF Lock, OnDisk, TypeOK
  <2>2. PlaceOK' /\ LockOK'
    BY <1>0, <1>1 DEF Lock, OnDisk, TypeOK, PlaceOK, LockOK
  <2>3. GivenOK'
    BY <1>0, <1>1 DEF Lock, OnDisk, TypeOK, GivenOK
  <2>4. ReserveOK'
    BY <1>0, <1>1 DEF Lock, OnDisk, TypeOK, LockOK, ReserveOK
  <2>5. RollbackOK' /\ FreshOK'
    BY <1>0, <1>1
    DEF Lock, OnDisk, TypeOK, PlaceOK, GivenOK, RollbackOK, FreshOK
  <2>6. QED BY <2>1, <2>2, <2>3, <2>5, <2>4 DEF IInv
<1>2. ASSUME ScanFails(t) PROVE IInv'
  <2>1. TypeOK'
    BY <1>0, <1>2 DEF ScanFails, TypeOK
  <2>2. PlaceOK'
    BY <1>0, <1>2 DEF ScanFails, TypeOK, PlaceOK
  <2>3. LockOK'
    BY <1>0, <1>2 DEF ScanFails, TypeOK, LockOK
  <2>4. RollbackOK'
    BY <1>0, <1>2 DEF ScanFails, TypeOK, RollbackOK
  <2>5. Quiet
    BY <1>0, <1>2 DEF ScanFails, Quiet, TypeOK, PlaceOK
  <2>6. QED BY <2>1, <2>2, <2>3, <2>4, <2>5, QuietSteps DEF IInv
<1>3. ASSUME Reserve(t) PROVE IInv'
  <2> DEFINE first == FirstFree(nextId, base[t])
             batch(k) == {i \in Ids : first <= i /\ i < first + k}
  <2>1. (IF op[t] = "create" THEN {1} ELSE BatchSizes) \subseteq Nat \ {0}
    OBVIOUS
  <2>2. PICK k \in Nat \ {0} : /\ first + k <= MaxId + 1
                              /\ Allocated(t, batch(k))
                              /\ nextId' = first + k
    BY <1>3, <2>1 DEF Reserve
  <2>3. /\ first \in Nat \ {0} /\ base[t] < first
        /\ nextId # Nil => nextId <= first
    BY <1>0 DEF TypeOK, FirstFree
  <2>4. batch(k) \in SUBSET Ids
    OBVIOUS
  <2>5. pc[t] = "reserve" /\ op[t] \in Allocates /\ idLock = t
    BY <1>0, <1>3 DEF Reserve, PlaceOK, LockOK
  <2>6. /\ idLock' = Nil
        /\ UNCHANGED <<disk, groups, state, nextGid, op, gid, base, previous, raw>>
    BY <1>3 DEF Reserve
  <2>7. /\ ids' = [ids EXCEPT ![t] = batch(k)]
        /\ left' = [left EXCEPT ![t] = left'[t]]
        /\ left'[t] \in SUBSET Ids
        /\ op[t] # "refresh" => left'[t] = batch(k)
        /\ pc' = [pc EXCEPT ![t] = pc'[t]]
        /\ op[t] = "import" => pc'[t] = "lockGroup"
        /\ op[t] = "refresh" => pc'[t] = "remove"
        /\ op[t] \notin {"import", "refresh"} => pc'[t] = "save"
    BY <1>0, <2>2, <2>4 DEF Allocated, Members, OnDisk, TypeOK
  <2> HIDE DEF first, batch
  <2>8. nextId' \in Counters
    BY <1>0, <2>2, <2>3 DEF TypeOK
  <2>9. pc'[t] \in Labels
    BY <2>5, <2>7
  <2>10. pc' \in [Flows -> Labels]
    BY <1>0, <2>7, <2>9 DEF TypeOK
  <2>11. ids' \in [Flows -> SUBSET Ids] /\ left' \in [Flows -> SUBSET Ids]
    BY <1>0, <2>4, <2>7 DEF TypeOK
  <2>12. nextGid' \in Counters /\ idLock' \in Flows \cup {Nil}
    BY <1>0, <2>6 DEF TypeOK
  <2>13. TypeOK'
    BY <1>0, <2>8, <2>10, <2>11, <2>12, <2>6 DEF TypeOK
  <2>14. PlaceOK'
    BY <1>0, <2>4, <2>5, <2>6, <2>7 DEF TypeOK, PlaceOK
  <2>15. LockOK'
    BY <1>0, <2>5, <2>6, <2>7 DEF TypeOK, LockOK
  <2>16. \A i \in batch(k) : first <= i /\ i < first + k
    BY DEF batch
  <2>17. GivenOK'
    <3>1. \A i \in Ids : Below(i) => Below(i)'
      BY <1>0, <2>2, <2>3 DEF TypeOK
    <3>2. \A i \in batch(k) : i \in Ids /\ Below(i)' /\ ~Below(i)
      BY <1>0, <2>2, <2>3, <2>4, <2>16 DEF TypeOK
    <3>3. \A u \in Flows \ {t} :
            op[u] \in Allocates => ids[u] \cap batch(k) = {}
      BY <1>0, <3>2 DEF GivenOK
    <3>4. ids \in [Flows -> SUBSET Ids]
      BY <1>0 DEF TypeOK
    <3> HIDE DEF Below, Allocates, Ids
    <3>5. QED BY <1>0, <2>6, <2>7, <3>1, <3>2, <3>3, <3>4 DEF GivenOK
  <2>18. ReserveOK' /\ RollbackOK'
    BY <1>0, <2>5, <2>6, <2>7 DEF TypeOK, LockOK, ReserveOK, RollbackOK
  <2>19. \A i \in batch(k) : Loose(disk[i])
    BY <1>0, <2>3, <2>4, <2>5, <2>16 DEF TypeOK, ReserveOK
  <2>20. FreshOK'
    BY <1>0, <2>5, <2>6, <2>7, <2>19 DEF TypeOK, FreshOK
  <2>21. QED BY <2>13, <2>14, <2>15, <2>17, <2>18, <2>20 DEF IInv
<1>4. ASSUME ReserveGroup(t) PROVE IInv'
  <2>1. nextGid' \in Counters /\ gid' \in [Flows -> Gids]
    BY <1>0, <1>4 DEF ReserveGroup, FirstFree, TypeOK
  <2>2. TypeOK'
    BY <1>0, <1>4, <2>1 DEF ReserveGroup, TypeOK
  <2>3. PlaceOK'
    BY <1>0, <1>4 DEF ReserveGroup, FirstFree, TypeOK, PlaceOK
  <2>4. LockOK'
    BY <1>0, <1>4 DEF ReserveGroup, FirstFree, TypeOK, LockOK
  <2>5. RollbackOK'
    BY <1>0, <1>4 DEF ReserveGroup, FirstFree, TypeOK, RollbackOK
  <2>6. Quiet
    BY <1>0, <1>4 DEF ReserveGroup, FirstFree, Quiet, TypeOK, PlaceOK
  <2>7. QED BY <2>2, <2>3, <2>4, <2>5, <2>6, QuietSteps DEF IInv
<1>5. QED BY <1>1, <1>2, <1>3, <1>4

(* The steps on the file of profile i. *)
LEMMA FileKeepsIInv ==
  ASSUME IInv, NEW t \in Flows, NEW i \in Ids,
         \/ Remove(t, i) \/ Save(t, i) \/ PutBack(t, i) \/ SaveFails(t, i)
         \/ PutBackFails(t, i)
  PROVE  IInv'
<1> USE StoreAssumption
    DEF Goto, NoFault, Fault, Release, files, alloc, locals, budget, Labels,
        OpNames, Allocates, Batch, Files, Counters, Profiles, Writers, Ids,
        Gids, Loose, Below, Fresh
<1>0. /\ TypeOK /\ PlaceOK /\ LockOK /\ GivenOK
      /\ ReserveOK /\ RollbackOK /\ FreshOK
  BY DEF IInv
<1>1. ASSUME Remove(t, i) PROVE IInv'
  <2>1. TypeOK'
    BY <1>0, <1>1 DEF Remove, Advance, After, Rest, OnDisk, TypeOK
  <2>2. PlaceOK'
    BY <1>0, <1>1 DEF Remove, Advance, After, Rest, OnDisk, TypeOK, PlaceOK
  <2>3. LockOK'
    BY <1>0, <1>1 DEF Remove, Advance, After, Rest, OnDisk, TypeOK, LockOK
  <2>4. UNCHANGED <<ids, op, nextId, base>>
    BY <1>1 DEF Remove, Advance, After, Rest, OnDisk
  <2>5. GivenOK'
    BY <1>0, <2>4 DEF GivenOK
  <2>6. ReserveOK'
    <3>1. \A u \in Flows : pc'[u] = "reserve" => pc[u] = "reserve"
      BY <1>0, <1>1 DEF Remove, Advance, After, Rest, OnDisk, TypeOK
    <3>2. \A j \in Ids : disk'[j] = disk[j] \/ Loose(disk'[j]) \/ Below(j)
      BY <1>0, <1>1
      DEF Remove, Advance, After, Rest, OnDisk, TypeOK, PlaceOK, GivenOK,
          RollbackOK
    <3>3. QED BY <1>0, <2>4, <3>1, <3>2 DEF ReserveOK
  <2>7. RollbackOK'
    BY <1>0, <1>1
    DEF Remove, Advance, After, Rest, OnDisk, TypeOK, PlaceOK, RollbackOK,
        FreshOK
  <2>8. FreshOK'
    <3>1. \A u \in Flows : Fresh(u)' \subseteq Fresh(u)
      BY <1>0, <1>1 DEF Remove, Advance, After, Rest, OnDisk, TypeOK, PlaceOK
    <3>2. \A u \in Flows : \A j \in Fresh(u)' :
            disk'[j] = disk[j] \/ Loose(disk'[j])
      BY <1>0, <1>1
      DEF Remove, Advance, After, Rest, OnDisk, TypeOK, PlaceOK, GivenOK,
          RollbackOK
    <3> HIDE DEF Fresh, Loose
    <3>3. QED BY <1>0, <3>1, <3>2 DEF FreshOK, Loose
  <2>9. QED BY <2>1, <2>2, <2>5, <2>6, <2>7, <2>8, <2>3 DEF IInv
<1>2. ASSUME Save(t, i) PROVE IInv'
  <2>1. TypeOK'
    BY <1>0, <1>2 DEF Save, Written, Advance, After, Rest, OnDisk, TypeOK
  <2>2. PlaceOK'
    BY <1>0, <1>2 DEF Save, Advance, After, Rest, OnDisk, TypeOK, PlaceOK
  <2>3. LockOK'
    BY <1>0, <1>2 DEF Save, Advance, After, TypeOK, LockOK
  <2>4. UNCHANGED <<ids, op, nextId, base>>
    BY <1>2 DEF Save, Advance
  <2>5. GivenOK'
    BY <1>0, <2>4 DEF GivenOK
  <2>6. op[t] \in Allocates => i \in ids[t] /\ i \in Fresh(t) /\ Below(i)
    BY <1>0, <1>2 DEF Save, First, TypeOK, PlaceOK, GivenOK
  <2>7. \/ op[t] \in Allocates
        \/ Loose(Written(t, i))
    BY <1>0, <1>2 DEF Save, Written, TypeOK, PlaceOK
  <2>8. \A j \in Ids : disk'[j] = IF j = i THEN Written(t, i) ELSE disk[j]
    BY <1>0, <1>2 DEF Save, TypeOK
  <2>9. ReserveOK'
    <3>1. \A u \in Flows : pc'[u] = "reserve" => pc[u] = "reserve"
      BY <1>0, <1>2 DEF Save, Advance, After, TypeOK
    <3>2. \A j \in Ids : disk'[j] = disk[j] \/ Loose(disk'[j]) \/ Below(j)
      <4> HIDE DEF Loose, Below
      <4> QED BY <2>6, <2>7, <2>8
    <3>3. QED BY <1>0, <2>4, <3>1, <3>2 DEF ReserveOK
  <2>10. RollbackOK'
    <3>1. CASE op[t] \in Batch
      <4>1. Loose(disk[i])
        BY <1>0, <2>6, <3>1 DEF FreshOK
      <4>2. previous' = [previous EXCEPT ![t] = [previous[t] EXCEPT ![i] = disk[i]]]
        BY <1>2, <3>1 DEF Save
      <4>3. QED BY <1>0, <4>1, <4>2 DEF TypeOK, RollbackOK
    <3>2. CASE op[t] \notin Batch
      BY <1>0, <1>2, <3>2 DEF Save, RollbackOK
    <3>3. QED BY <3>1, <3>2
  <2>11. FreshOK'
    <3>1. \A u \in Flows : Fresh(u)' \subseteq Fresh(u)
      BY <1>0, <1>2 DEF Save, Advance, After, Rest, OnDisk, TypeOK, PlaceOK
    <3>2. i \notin Fresh(t)'
      BY <1>0, <1>2 DEF Save, First, Advance, After, Rest, TypeOK, PlaceOK
    <3>3. \A u \in Flows \ {t} :
            op[t] \in Allocates /\ op[u] \in Allocates => i \notin ids[u]
      BY <1>0, <2>6 DEF GivenOK
    <3>4. \A u \in Flows \ {t} : op[t] \in Allocates => i \notin Fresh(u)
      BY <3>3
    <3>5. \A u \in Flows : Fresh(u) \subseteq Ids
      BY <1>0 DEF TypeOK
    <3> HIDE DEF Fresh, Loose, Allocates
    <3>6. ASSUME NEW u \in Flows, NEW j \in Fresh(u)' PROVE Loose(disk'[j])
      <4>1. j \in Fresh(u) /\ j \in Ids
        BY <3>1, <3>5
      <4>2. Loose(disk[j])
        BY <1>0, <4>1 DEF FreshOK
      <4>3. CASE j # i
        BY <2>8, <4>1, <4>2, <4>3
      <4>4. CASE j = i
        BY <2>7, <2>8, <3>2, <3>4, <4>1, <4>4
      <4>5. QED BY <4>3, <4>4
    <3>7. QED BY <3>6 DEF FreshOK, Loose
  <2>12. QED BY <2>1, <2>2, <2>5, <2>9, <2>10, <2>11, <2>3 DEF IInv
<1>3. ASSUME PutBack(t, i) PROVE IInv'
  <2>1. TypeOK'
    BY <1>0, <1>3 DEF PutBack, Advance, After, Rest, OnDisk, TypeOK
  <2>2. PlaceOK'
    BY <1>0, <1>3 DEF PutBack, Advance, After, Rest, OnDisk, TypeOK, PlaceOK
  <2>3. LockOK'
    BY <1>0, <1>3 DEF PutBack, Advance, After, Rest, OnDisk, TypeOK, LockOK
  <2>4. UNCHANGED <<ids, op, nextId, base>>
    BY <1>3 DEF PutBack, Advance, After, Rest, OnDisk
  <2>5. GivenOK'
    BY <1>0, <2>4 DEF GivenOK
  <2>6. ReserveOK'
    <3>1. \A u \in Flows : pc'[u] = "reserve" => pc[u] = "reserve"
      BY <1>0, <1>3 DEF PutBack, Advance, After, Rest, OnDisk, TypeOK
    <3>2. \A j \in Ids : disk'[j] = disk[j] \/ Loose(disk'[j]) \/ Below(j)
      BY <1>0, <1>3
      DEF PutBack, Advance, After, Rest, OnDisk, TypeOK, PlaceOK, GivenOK,
          RollbackOK
    <3>3. QED BY <1>0, <2>4, <3>1, <3>2 DEF ReserveOK
  <2>7. RollbackOK'
    BY <1>0, <1>3
    DEF PutBack, Advance, After, Rest, OnDisk, TypeOK, PlaceOK, RollbackOK,
        FreshOK
  <2>8. FreshOK'
    <3>1. \A u \in Flows : Fresh(u)' \subseteq Fresh(u)
      BY <1>0, <1>3 DEF PutBack, Advance, After, Rest, OnDisk, TypeOK, PlaceOK
    <3>2. \A u \in Flows : \A j \in Fresh(u)' :
            disk'[j] = disk[j] \/ Loose(disk'[j])
      BY <1>0, <1>3
      DEF PutBack, Advance, After, Rest, OnDisk, TypeOK, PlaceOK, GivenOK,
          RollbackOK
    <3> HIDE DEF Fresh, Loose
    <3>3. QED BY <1>0, <3>1, <3>2 DEF FreshOK, Loose
  <2>9. QED BY <2>1, <2>2, <2>5, <2>6, <2>7, <2>8, <2>3 DEF IInv
<1>4. ASSUME SaveFails(t, i) PROVE IInv'
  <2>1. previous' \in [Flows -> Files] /\ left' \in [Flows -> SUBSET Ids]
    <3>1. CASE op[t] \in Batch
      <4>1. [previous[t] EXCEPT ![i] = disk[i]] \in Files
        BY <1>0 DEF TypeOK
      <4>2. previous' = [previous EXCEPT ![t] = [previous[t] EXCEPT ![i] = disk[i]]]
        BY <1>0, <1>4, <3>1 DEF SaveFails, Rollback, TypeOK
      <4>3. left' = [left EXCEPT ![t] = (ids[t] \ left[t]) \cup {i}]
        BY <1>4, <3>1 DEF SaveFails, Rollback
      <4>4. (ids[t] \ left[t]) \cup {i} \in SUBSET Ids
        BY <1>0 DEF TypeOK
      <4> HIDE DEF Files, Batch
      <4>5. QED BY <1>0, <4>1, <4>2, <4>3, <4>4 DEF TypeOK
    <3>2. CASE op[t] \notin Batch
      BY <1>0, <1>4, <3>2 DEF SaveFails, TypeOK
    <3>3. QED BY <3>1, <3>2
  <2>2. TypeOK'
    BY <1>0, <1>4, <2>1 DEF SaveFails, Rollback, TypeOK
  <2>3. PlaceOK'
    BY <1>0, <1>4 DEF SaveFails, Rollback, TypeOK, PlaceOK
  <2>4. LockOK'
    BY <1>0, <1>4 DEF SaveFails, Rollback, TypeOK, LockOK
  <2>5. UNCHANGED <<ids, op, nextId, base>>
    BY <1>4 DEF SaveFails, Rollback
  <2>6. GivenOK'
    BY <1>0, <2>5 DEF GivenOK
  <2>7. ReserveOK'
    <3>1. \A u \in Flows : pc'[u] = "reserve" => pc[u] = "reserve"
      BY <1>0, <1>4 DEF SaveFails, Rollback, TypeOK
    <3>2. \A j \in Ids : disk'[j] = disk[j] \/ Loose(disk'[j]) \/ Below(j)
      BY <1>0, <1>4
      DEF SaveFails, Rollback, TypeOK, PlaceOK, GivenOK, RollbackOK
    <3>3. QED BY <1>0, <2>5, <3>1, <3>2 DEF ReserveOK
  <2>8. RollbackOK'
    <3>1. CASE op[t] \in Batch
      <4>1. Loose(disk[i])
        BY <1>0, <1>4, <3>1 DEF SaveFails, First, TypeOK, PlaceOK, FreshOK
      <4>2. previous' = [previous EXCEPT ![t] = [previous[t] EXCEPT ![i] = disk[i]]]
        BY <1>4, <3>1 DEF SaveFails, Rollback
      <4>3. QED BY <1>0, <4>1, <4>2 DEF TypeOK, RollbackOK
    <3>2. CASE op[t] \notin Batch
      BY <1>0, <1>4, <3>2 DEF SaveFails, RollbackOK
    <3>3. QED BY <3>1, <3>2
  <2>9. FreshOK'
    <3>1. \A u \in Flows : Fresh(u)' \subseteq Fresh(u)
      BY <1>0, <1>4 DEF SaveFails, Rollback, TypeOK, PlaceOK
    <3>2. \A u \in Flows : \A j \in Fresh(u)' :
            disk'[j] = disk[j] \/ Loose(disk'[j])
      BY <1>0, <1>4
      DEF SaveFails, Rollback, TypeOK, PlaceOK, GivenOK, RollbackOK
    <3> HIDE DEF Fresh, Loose
    <3>3. QED BY <1>0, <3>1, <3>2 DEF FreshOK, Loose
  <2>10. QED BY <2>2, <2>3, <2>6, <2>7, <2>8, <2>9, <2>4 DEF IInv
<1>5. ASSUME PutBackFails(t, i) PROVE IInv'
  <2>1. TypeOK'
    BY <1>0, <1>5 DEF PutBackFails, Advance, After, Rest, OnDisk, TypeOK
  <2>2. PlaceOK'
    BY <1>0, <1>5
    DEF PutBackFails, Advance, After, Rest, OnDisk, TypeOK, PlaceOK
  <2>3. LockOK'
    BY <1>0, <1>5
    DEF PutBackFails, Advance, After, Rest, OnDisk, TypeOK, LockOK
  <2>4. RollbackOK'
    BY <1>0, <1>5
    DEF PutBackFails, Advance, After, Rest, OnDisk, TypeOK, RollbackOK
  <2>5. Quiet
    BY <1>0, <1>5
    DEF PutBackFails, Advance, After, Rest, OnDisk, Quiet, TypeOK, PlaceOK
  <2>6. QED BY <2>1, <2>2, <2>3, <2>4, <2>5, QuietSteps DEF IInv
<1>6. QED BY <1>1, <1>2, <1>3, <1>4, <1>5

(* The other steps of a call. *)
LEMMA LoopKeepsIInv ==
  ASSUME IInv, NEW t \in Flows,
         \/ Skip(t) \/ RemoveFails(t) \/ SaveGroup(t) \/ SaveGroupFails(t)
         \/ Read(t)
  PROVE  IInv'
<1> USE StoreAssumption
    DEF Goto, NoFault, Fault, Release, files, alloc, locals, budget, Labels,
        OpNames, Allocates, Batch, Files, Counters, Profiles, Writers, Ids,
        Gids, Loose, Below, Fresh
<1>0. /\ TypeOK /\ PlaceOK /\ LockOK /\ GivenOK
      /\ ReserveOK /\ RollbackOK /\ FreshOK
  BY DEF IInv
<1>1. ASSUME Skip(t) PROVE IInv'
  <2>1. TypeOK'
    BY <1>0, <1>1 DEF Skip, After, Rest, OnDisk, TypeOK
  <2>2. PlaceOK'
    BY <1>0, <1>1 DEF Skip, After, Rest, OnDisk, TypeOK, PlaceOK
  <2>3. LockOK'
    BY <1>0, <1>1 DEF Skip, After, Rest, OnDisk, TypeOK, LockOK
  <2>4. RollbackOK'
    BY <1>0, <1>1 DEF Skip, After, Rest, OnDisk, TypeOK, RollbackOK
  <2>5. Quiet
    BY <1>0, <1>1 DEF Skip, After, Rest, OnDisk, Quiet, TypeOK, PlaceOK
  <2>6. QED BY <2>1, <2>2, <2>3, <2>4, <2>5, QuietSteps DEF IInv
<1>2. ASSUME RemoveFails(t) PROVE IInv'
  <2>1. TypeOK'
    BY <1>0, <1>2 DEF RemoveFails, TypeOK
  <2>2. PlaceOK'
    BY <1>0, <1>2 DEF RemoveFails, TypeOK, PlaceOK
  <2>3. LockOK'
    BY <1>0, <1>2 DEF RemoveFails, TypeOK, LockOK
  <2>4. RollbackOK'
    BY <1>0, <1>2 DEF RemoveFails, TypeOK, RollbackOK
  <2>5. Quiet
    BY <1>0, <1>2 DEF RemoveFails, Quiet, TypeOK, PlaceOK
  <2>6. QED BY <2>1, <2>2, <2>3, <2>4, <2>5, QuietSteps DEF IInv
<1>3. ASSUME SaveGroup(t) PROVE IInv'
  <2>1. TypeOK'
    BY <1>0, <1>3 DEF SaveGroup, TypeOK
  <2>2. PlaceOK'
    BY <1>0, <1>3 DEF SaveGroup, TypeOK, PlaceOK
  <2>3. LockOK'
    BY <1>0, <1>3 DEF SaveGroup, TypeOK, LockOK
  <2>4. RollbackOK'
    BY <1>0, <1>3 DEF SaveGroup, TypeOK, RollbackOK
  <2>5. Quiet
    BY <1>0, <1>3 DEF SaveGroup, Quiet, TypeOK, PlaceOK
  <2>6. QED BY <2>1, <2>2, <2>3, <2>4, <2>5, QuietSteps DEF IInv
<1>4. ASSUME SaveGroupFails(t) PROVE IInv'
  <2>1. /\ left' = [left EXCEPT ![t] = left'[t]] /\ left'[t] \in SUBSET Ids
        /\ pc' = [pc EXCEPT ![t] = pc'[t]] /\ pc'[t] \in {"undo", "failed"}
        /\ pc'[t] = "undo" => op[t] = "import"
    <3>1. CASE op[t] = "import"
      BY <1>0, <1>4, <3>1 DEF SaveGroupFails, Undo, TypeOK
    <3>2. CASE op[t] # "import"
      BY <1>0, <1>4, <3>2 DEF SaveGroupFails, Undo, TypeOK
    <3>3. QED BY <3>1, <3>2
  <2>2. UNCHANGED <<files, state, alloc, op, ids, gid, base, previous, raw>>
    BY <1>4 DEF SaveGroupFails
  <2>3. pc' \in [Flows -> Labels]
    BY <1>0, <2>1 DEF TypeOK
  <2>4. TypeOK'
    BY <1>0, <2>1, <2>2, <2>3 DEF TypeOK
  <2>5. PlaceOK' /\ LockOK'
    BY <1>0, <2>1, <2>2 DEF TypeOK, PlaceOK, LockOK
  <2>6. RollbackOK'
    BY <1>0, <2>2 DEF RollbackOK
  <2>7. Quiet
    BY <1>0, <2>1, <2>2 DEF Quiet, TypeOK
  <2>8. QED BY <2>4, <2>5, <2>6, <2>7, QuietSteps DEF IInv
<1>5. ASSUME Read(t) PROVE IInv'
  <2>1. TypeOK'
    BY <1>0, <1>5 DEF Read, TypeOK
  <2>2. PlaceOK'
    BY <1>0, <1>5 DEF Read, TypeOK, PlaceOK
  <2>3. LockOK'
    BY <1>0, <1>5 DEF Read, TypeOK, LockOK
  <2>4. RollbackOK'
    BY <1>0, <1>5 DEF Read, TypeOK, RollbackOK
  <2>5. Quiet
    BY <1>0, <1>5 DEF Read, Quiet, TypeOK, PlaceOK
  <2>6. QED BY <2>1, <2>2, <2>3, <2>4, <2>5, QuietSteps DEF IInv
<1>6. QED BY <1>1, <1>2, <1>3, <1>4, <1>5

(* The end of a call. *)
LEMMA ReturnKeepsIInv ==
  ASSUME IInv, NEW t \in Flows, Publish(t) \/ LoadFails(t) \/ Report(t)
  PROVE  IInv'
<1> USE StoreAssumption
    DEF Goto, NoFault, Fault, Release, files, alloc, locals, budget, Labels,
        OpNames, Allocates, Batch, Files, Counters, Profiles, Writers, Ids,
        Gids, Loose, Below, Fresh
<1>0. /\ TypeOK /\ PlaceOK /\ LockOK /\ GivenOK
      /\ ReserveOK /\ RollbackOK /\ FreshOK
  BY DEF IInv
<1>1. ASSUME Publish(t) PROVE IInv'
  <2>1. TypeOK'
    BY <1>0, <1>1 DEF Publish, Return, NoProfile, TypeOK
  <2>2. PlaceOK'
    BY <1>0, <1>1 DEF Publish, Return, NoProfile, TypeOK, PlaceOK
  <2>3. LockOK'
    BY <1>0, <1>1 DEF Publish, Return, NoProfile, TypeOK, LockOK
  <2>4. RollbackOK'
    BY <1>0, <1>1 DEF Publish, Return, NoProfile, TypeOK, RollbackOK
  <2>5. Quiet
    BY <1>0, <1>1 DEF Publish, Return, NoProfile, Quiet, TypeOK, PlaceOK
  <2>6. QED BY <2>1, <2>2, <2>3, <2>4, <2>5, QuietSteps DEF IInv
<1>2. ASSUME LoadFails(t) PROVE IInv'
  <2>1. TypeOK'
    BY <1>0, <1>2 DEF LoadFails, NoProfile, TypeOK
  <2>2. PlaceOK'
    BY <1>0, <1>2 DEF LoadFails, NoProfile, TypeOK, PlaceOK
  <2>3. LockOK'
    BY <1>0, <1>2 DEF LoadFails, NoProfile, TypeOK, LockOK
  <2>4. RollbackOK'
    BY <1>0, <1>2 DEF LoadFails, NoProfile, TypeOK, RollbackOK
  <2>5. Quiet
    BY <1>0, <1>2 DEF LoadFails, NoProfile, Quiet, TypeOK, PlaceOK
  <2>6. QED BY <2>1, <2>2, <2>3, <2>4, <2>5, QuietSteps DEF IInv
<1>3. ASSUME Report(t) PROVE IInv'
  <2>1. TypeOK'
    BY <1>0, <1>3 DEF Report, Return, NoProfile, TypeOK
  <2>2. PlaceOK'
    BY <1>0, <1>3 DEF Report, Return, NoProfile, TypeOK, PlaceOK
  <2>3. LockOK'
    BY <1>0, <1>3 DEF Report, Return, NoProfile, TypeOK, LockOK
  <2>4. RollbackOK'
    BY <1>0, <1>3 DEF Report, Return, NoProfile, TypeOK, RollbackOK
  <2>5. Quiet
    BY <1>0, <1>3 DEF Report, Return, NoProfile, Quiet, TypeOK, PlaceOK
  <2>6. QED BY <2>1, <2>2, <2>3, <2>4, <2>5, QuietSteps DEF IInv
<1>4. QED BY <1>1, <1>2, <1>3

(* The application dies at any point. *)
LEMMA CrashKeepsIInv == IInv /\ Crash => IInv'
<1> SUFFICES ASSUME IInv, Crash PROVE IInv'
  OBVIOUS
<1> USE StoreAssumption
    DEF files, Labels, OpNames, Allocates, Batch, Files, Counters, Profiles,
        Writers, Ids, Gids, NoProfile, Loose, Below, Fresh
<1>1. /\ TypeOK /\ 0 \in Gids
      /\ \A t \in Flows : pc'[t] = "idle" /\ op'[t] = "none" /\ ids'[t] = {}
      /\ \A t \in Flows, i \in Ids : previous'[t][i] = Nil
  BY DEF IInv, Crash
<1>2. TypeOK'
  BY <1>1 DEF Crash, TypeOK
<1>3. PlaceOK' /\ LockOK' /\ GivenOK' /\ ReserveOK' /\ RollbackOK' /\ FreshOK'
  BY <1>1 DEF PlaceOK, LockOK, GivenOK, ReserveOK, RollbackOK, FreshOK
<1>4. QED BY <1>2, <1>3 DEF IInv

(* Every step keeps the invariant. *)
LEMMA NextKeepsIInv == IInv /\ [Next]_vars => IInv'
<1> SUFFICES ASSUME IInv, [Next]_vars PROVE IInv'
  OBVIOUS
<1>1. ASSUME NEW t \in Flows, Work(t) PROVE IInv'
  BY <1>1, AllocationKeepsIInv, FileKeepsIInv, LoopKeepsIInv, ReturnKeepsIInv
  DEF Work
<1>2. ASSUME NEW t \in Flows, Fails(t) PROVE IInv'
  BY <1>2, AllocationKeepsIInv, FileKeepsIInv, LoopKeepsIInv, ReturnKeepsIInv
  DEF Fails
<1>3. ASSUME NEW t \in Flows, Call(t) PROVE IInv'
  BY <1>3, CallKeepsIInv
<1>4. CASE UNCHANGED vars
  BY <1>4
  DEF vars, files, alloc, locals, budget, IInv, TypeOK, PlaceOK, LockOK,
              GivenOK, ReserveOK, RollbackOK, FreshOK, Fresh, Below
<1>5. QED BY <1>1, <1>2, <1>3, <1>4, CrashKeepsIInv DEF Next

(* What the invariant is for. *)
LEMMA IInvIsEnough == IInv => FreshIdsFree
<1> SUFFICES ASSUME IInv, NEW t \in Flows, NEW i \in Ids, i \in Fresh(t)
             PROVE  /\ disk[i] = Nil \/ disk[i].by \in {"update", "restore"}
                    /\ \A u \in Flows \ {t} : op[u] \in Allocates => i \notin ids[u]
  BY DEF FreshIdsFree
<1>1. Loose(disk[i])
  BY DEF IInv, FreshOK
<1>2. op[t] \in Allocates /\ i \in ids[t]
  BY DEF Fresh
<1>3. QED BY <1>1, <1>2 DEF IInv, GivenOK, Loose

(* The invariant holds of every reachable state, its types among the rest. *)
THEOREM Invariance == Spec => []IInv
BY InitIInv, NextKeepsIInv, PTL DEF Spec

(* "ids that do not collide with anything already on disk", whatever calls *)
(* overlap, whatever fails, and whenever the application is killed: the    *)
(* scan and the reservation under _idLock give every flow ids of its own.  *)
THEOREM AllocatedIdsAreFree == Spec => []FreshIdsFree
BY Invariance, IInvIsEnough, PTL

-----------------------------------------------------------------------------
(* File i is one that flow t has written. *)
Mine(t, i) == disk[i] # Nil /\ disk[i].by = t

(* An import that is being undone has yet to undo whatever it has written, *)
(* unless its undoing has failed as well.                                  *)
UndoOK(t) ==
  /\ pc[t] = "group" => op[t] \in {"import", "refresh", "restore"}
  /\ op[t] \in {"paste", "import"} =>
       /\ pc[t] \in {"rollback", "undo"} =>
            /\ hits[t] >= 1
            /\ hits[t] >= 2 \/ \A i \in ids[t] : Mine(t, i) => i \in left[t]
       /\ pc[t] = "failed" => hits[t] >= 2 \/ \A i \in ids[t] : ~Mine(t, i)

ImportOK == hits \in [Flows -> Nat] /\ \A t \in Flows : UndoOK(t)

(* What the step of another flow does to flow t.                           *)
Apart(t) ==
  /\ UNCHANGED <<pc[t], op[t], ids[t], left[t], hits[t]>>
  /\ \A i \in Ids : Mine(t, i)' => Mine(t, i)

(* It adds no file of t's.                                                 *)
LEMMA OthersAreApart ==
  ASSUME IInv, hits \in [Flows -> Nat],
         NEW u \in Flows, NEW t \in Flows \ {u},
         Work(u) \/ Fails(u) \/ Call(u)
  PROVE  Apart(t)
<1>0. /\ TypeOK /\ PlaceOK /\ RollbackOK
      /\ t \notin {"update", "restore", "old"}
  BY StoreAssumption DEF IInv
<1> USE <1>0
    DEF Apart, Goto, NoFault, Fault, files, alloc, locals, budget
<1>1. ASSUME \/ Lock(u) \/ Reserve(u) \/ ReserveGroup(u) \/ ScanFails(u)
             \/ Skip(u) \/ RemoveFails(u) \/ SaveGroup(u)
             \/ SaveGroupFails(u) \/ Read(u)
      PROVE  Apart(t)
  BY <1>1 DEF Lock, Reserve, ReserveGroup, Allocated, ScanFails, Skip,
     RemoveFails, SaveGroup, SaveGroupFails, Undo, Read, TypeOK, Mine
<1>2. ASSUME Publish(u) \/ LoadFails(u) \/ Report(u)
      PROVE  Apart(t)
  BY <1>2 DEF Publish, LoadFails, Report, Return, TypeOK, Mine
<1>3. ASSUME Call(u) PROVE Apart(t)
  BY <1>3 DEF Call, Create, Import, Refresh, Update, Delete, Restore, Begin,
     TypeOK, Mine
<1>4. ASSUME NEW i \in Ids, SaveFails(u, i) \/ PutBackFails(u, i)
      PROVE  Apart(t)
  BY <1>4 DEF SaveFails, PutBackFails, Rollback, Advance, TypeOK, Mine
<1>5. ASSUME NEW i \in Ids, Remove(u, i) \/ Save(u, i) \/ PutBack(u, i)
      PROVE  Apart(t)
  <2>1. UNCHANGED <<pc[t], op[t], ids[t], left[t], hits[t]>>
    BY <1>5 DEF Remove, Save, PutBack, Advance, TypeOK
  <2>2. \A j \in Ids \ {i} : disk'[j] = disk[j]
    BY <1>5 DEF Remove, Save, PutBack, TypeOK, Files
  <2>3. ~Mine(t, i)'
    <3>1. CASE Remove(u, i)
      BY <3>1 DEF Remove, TypeOK, Files, Mine
    <3>2. CASE Save(u, i)
      <4>1. disk'[i] = Written(u, i)
        BY <3>2 DEF Save, TypeOK, Files
      <4>2. Written(u, i) = Nil \/ Written(u, i).by \in {u, "update", "restore"}
        BY StoreAssumption DEF Written
      <4>3. QED BY <4>1, <4>2 DEF Mine
    <3>3. CASE PutBack(u, i)
      BY <3>3 DEF PutBack, TypeOK, Files, RollbackOK, Loose, Mine
    <3>4. QED BY <1>5, <3>1, <3>2, <3>3
  <2>4. QED BY <2>1, <2>2, <2>3 DEF Mine
<1>6. QED BY <1>1, <1>2, <1>3, <1>4, <1>5 DEF Work, Fails

(* A flow keeps what the step of another does not touch.                   *)
LEMMA ApartKeepsUndoOK ==
  ASSUME IInv, NEW t \in Flows, UndoOK(t), Apart(t)
  PROVE  UndoOK(t)'
<1>1. ids[t] \subseteq Ids
  BY DEF IInv, TypeOK
<1>2. QED BY <1>1 DEF Apart, UndoOK

(* The failures of a call are counted.                                     *)
LEMMA HitsType ==
  ASSUME hits \in [Flows -> Nat], [Next]_vars PROVE hits' \in [Flows -> Nat]
<1> USE DEF NoFault, Fault
<1>1. ASSUME NEW t \in Flows, Work(t) PROVE hits' \in [Flows -> Nat]
  BY <1>1 DEF Work, Lock, Reserve, ReserveGroup, Skip, Remove, Save, PutBack,
     SaveGroup, Read, Publish, Report, Return
<1>2. ASSUME NEW t \in Flows, Fails(t) PROVE hits' \in [Flows -> Nat]
  BY <1>2 DEF Fails, ScanFails, RemoveFails, SaveGroupFails, LoadFails,
     SaveFails, PutBackFails
<1>3. ASSUME NEW t \in Flows, Call(t) PROVE hits' \in [Flows -> Nat]
  BY <1>3 DEF Call, Create, Import, Refresh, Update, Delete, Restore, Begin
<1>4. QED BY <1>1, <1>2, <1>3 DEF Next, Crash, vars

(* A step of t after which it is not undoing anything.                     *)
LEMMA ElsewhereUndoOK ==
  ASSUME IInv, NEW t \in Flows, UndoOK(t),
         \/ Lock(t) \/ Reserve(t) \/ ReserveGroup(t) \/ Skip(t)
         \/ SaveGroup(t) \/ Read(t) \/ Publish(t) \/ Report(t)
         \/ LoadFails(t) \/ Call(t)
         \/ \E i \in Ids : Save(t, i)
  PROVE  UndoOK(t)'
<1>0. /\ pc \in [Flows -> Labels] /\ op \in [Flows -> OpNames]
  BY DEF IInv, TypeOK
<1> USE <1>0 DEF Goto
<1>1. /\ pc'[t] \notin {"rollback", "undo", "failed"}
      /\ pc'[t] = "group" => op'[t] \in {"import", "refresh", "restore"}
  <2>1. CASE Lock(t) \/ Reserve(t) \/ ReserveGroup(t) \/ SaveGroup(t) \/ Read(t)
    BY <2>1 DEF Lock, Reserve, Allocated, ReserveGroup, SaveGroup, Read
  <2>2. CASE Publish(t) \/ Report(t) \/ LoadFails(t)
    BY <2>2 DEF Publish, Report, LoadFails, Return
  <2>3. CASE Call(t)
    BY <2>3 DEF Call, Create, Import, Refresh, Update, Delete, Restore, Begin
  <2>4. CASE Skip(t)
    BY <2>4 DEF Skip, After
  <2>5. ASSUME NEW i \in Ids, Save(t, i)
        PROVE  /\ pc'[t] \notin {"rollback", "undo", "failed"}
               /\ pc'[t] = "group" => op'[t] \in {"import", "refresh", "restore"}
    BY <2>5 DEF Save, Advance, After
  <2>6. QED BY <2>1, <2>2, <2>3, <2>4, <2>5
<1>2. QED BY <1>1 DEF UndoOK

(* A step of t that undoes something, or gives up.                         *)
LEMMA UndoingUndoOK ==
  ASSUME IInv, hits \in [Flows -> Nat], NEW t \in Flows, UndoOK(t),
         \/ ScanFails(t) \/ RemoveFails(t) \/ SaveGroupFails(t)
         \/ \E i \in Ids : \/ SaveFails(t, i) \/ PutBackFails(t, i)
                           \/ PutBack(t, i) \/ Remove(t, i)
  PROVE  UndoOK(t)'
<1>0. /\ TypeOK /\ PlaceOK /\ RollbackOK
      /\ t \notin {"update", "restore", "old"}
      /\ ids[t] \subseteq Ids /\ left[t] \subseteq Ids
      /\ \A i \in Fresh(t) : ~Mine(t, i)
  BY StoreAssumption DEF IInv, FreshOK, Loose, Mine, TypeOK
<1> USE <1>0 DEF Goto, Fault, NoFault, files, locals
<1>1. CASE ScanFails(t)
  <2>1. /\ pc' = [pc EXCEPT ![t] = "failed"] /\ UNCHANGED <<disk, ids, op>>
        /\ pc[t] \in {"reserve", "reserveGroup"}
    BY <1>1 DEF ScanFails
  <2>2. op[t] \in {"paste", "import"} => \A i \in ids[t] : ~Mine(t, i)
    BY <2>1 DEF PlaceOK, Fresh, Allocates
  <2>3. QED BY <2>1, <2>2 DEF UndoOK, Mine, TypeOK
<1>2. CASE RemoveFails(t)
  <2>1. /\ pc' = [pc EXCEPT ![t] = "failed"] /\ op' = op
        /\ pc[t] \in {"remove", "undo"} /\ hits'[t] = hits[t] + 1
    BY <1>2 DEF RemoveFails
  <2>2. op[t] \in {"paste", "import"} => hits[t] >= 1
    BY <2>1 DEF PlaceOK, UndoOK
  <2>3. QED BY <2>1, <2>2 DEF UndoOK, TypeOK
<1>3. CASE SaveGroupFails(t)
  <2>1. /\ op' = op /\ ids' = ids /\ hits'[t] = hits[t] + 1
        /\ op[t] \in {"import", "refresh", "restore"}
    BY <1>3 DEF SaveGroupFails, UndoOK
  <2>2. CASE op[t] = "import"
    <3>1. pc'[t] = "undo" /\ left'[t] = ids[t]
      BY <1>3, <2>2 DEF SaveGroupFails, Undo, TypeOK
    <3>2. QED BY <2>1, <3>1 DEF UndoOK
  <2>3. CASE op[t] # "import"
    <3>1. pc'[t] = "failed"
      BY <1>3, <2>3 DEF SaveGroupFails, Undo, TypeOK
    <3>2. QED BY <2>1, <2>3, <3>1 DEF UndoOK
  <2>4. QED BY <2>2, <2>3
<1>4. ASSUME NEW i \in Ids, SaveFails(t, i) PROVE UndoOK(t)'
  <2>1. /\ op' = op /\ ids' = ids /\ disk' = disk /\ hits'[t] = hits[t] + 1
        /\ pc[t] = "save" /\ i \in left[t]
    BY <1>4 DEF SaveFails, First
  <2>2. CASE op[t] \in {"paste", "import"}
    <3>1. pc'[t] = "rollback" /\ left'[t] = (ids[t] \ left[t]) \cup {i}
      BY <1>4, <2>2 DEF SaveFails, Rollback, Batch, TypeOK
    <3>2. \A j \in ids[t] : Mine(t, j) => j \notin left[t]
      BY <2>1, <2>2 DEF Fresh, Allocates
    <3>3. QED BY <2>1, <2>2, <3>1, <3>2 DEF UndoOK, Mine
  <2>3. CASE op[t] \notin {"paste", "import"}
    <3>1. pc'[t] \in {"rollback", "failed"}
      BY <1>4 DEF SaveFails, Rollback, TypeOK
    <3>2. QED BY <2>1, <2>3, <3>1 DEF UndoOK
  <2>4. QED BY <2>2, <2>3
<1>5. ASSUME NEW i \in Ids, PutBackFails(t, i) PROVE UndoOK(t)'
  <2>1. /\ op' = op /\ hits'[t] = hits[t] + 1 /\ pc[t] = "rollback"
        /\ pc'[t] \in {"rollback", "failed"}
    BY <1>5 DEF PutBackFails, Advance, After, TypeOK
  <2>2. QED BY <2>1 DEF UndoOK
<1>6. ASSUME NEW i \in Ids, PutBack(t, i) \/ Remove(t, i)
      PROVE  UndoOK(t)'
  <2>1. /\ op' = op /\ ids' = ids /\ hits' = hits
        /\ pc[t] \in {"rollback", "remove", "undo"}
    BY <1>6 DEF PutBack, Remove
  <2>2. CASE op[t] \notin {"paste", "import"}
    <3>1. pc'[t] = "group" => FALSE
      BY <1>6, <2>1, <2>2 DEF PutBack, Remove, Advance, After, TypeOK
    <3>2. QED BY <2>1, <2>2, <3>1 DEF UndoOK
  <2>3. CASE op[t] \in {"paste", "import"}
    <3>1. pc[t] \in {"rollback", "undo"}
      BY <2>1, <2>3 DEF PlaceOK
    <3>2. /\ ~Mine(t, i)'
          /\ \A j \in Ids \ {i} : Mine(t, j)' => Mine(t, j)
      BY <1>6 DEF PutBack, Remove, TypeOK, Files, RollbackOK, Loose, Mine
    <3>3. \/ left[t] \ {i} = {} /\ pc'[t] = "failed"
          \/ pc'[t] = pc[t] /\ left'[t] = left[t] \ {i}
      BY <1>6, <3>1 DEF PutBack, Remove, Advance, After, TypeOK
    <3>4. hits[t] >= 2 \/ \A j \in ids[t] : Mine(t, j) => j \in left[t]
      BY <2>3, <3>1 DEF UndoOK
    <3>5. hits[t] >= 1
      BY <2>3, <3>1 DEF UndoOK
    <3>6. CASE pc'[t] = "failed"
      <4>1. hits[t] >= 2 \/ \A j \in ids[t] : ~Mine(t, j)'
        BY <3>1, <3>2, <3>3, <3>4, <3>6
      <4>2. QED BY <2>1, <3>6, <4>1 DEF UndoOK
    <3>7. CASE pc'[t] # "failed"
      <4>1. hits[t] >= 2 \/ \A j \in ids[t] : Mine(t, j)' => j \in left'[t]
        BY <3>2, <3>3, <3>4, <3>7
      <4>2. QED BY <2>1, <3>1, <3>3, <3>5, <3>7, <4>1 DEF UndoOK
    <3>8. QED BY <3>6, <3>7
  <2>4. QED BY <2>2, <2>3
<1>7. QED BY <1>1, <1>2, <1>3, <1>4, <1>5, <1>6

(* Every step keeps what is said of the undoing.                           *)
LEMMA ImportStep == IInv /\ ImportOK /\ [Next]_vars => ImportOK'
<1> SUFFICES ASSUME IInv, ImportOK, [Next]_vars PROVE ImportOK'
  OBVIOUS
<1>1. hits \in [Flows -> Nat] /\ hits' \in [Flows -> Nat]
  BY HitsType DEF ImportOK
<1>2. SUFFICES ASSUME NEW t \in Flows PROVE UndoOK(t)'
  BY <1>1 DEF ImportOK
<1>3. UndoOK(t)
  BY DEF ImportOK
<1>4. ASSUME NEW u \in Flows, Work(u) \/ Fails(u) \/ Call(u)
      PROVE  UndoOK(t)'
  <2>1. CASE u # t
    BY <1>1, <1>3, <1>4, <2>1, OthersAreApart, ApartKeepsUndoOK
  <2>2. CASE u = t
    BY <1>1, <1>3, <1>4, <2>2, ElsewhereUndoOK, UndoingUndoOK
       DEF Work, Fails
  <2>3. QED BY <2>1, <2>2
<1>5. CASE Crash
  BY <1>5 DEF Crash, UndoOK
<1>6. CASE UNCHANGED vars
  BY <1>3, <1>6 DEF vars, files, locals, UndoOK, Mine
<1>7. QED BY <1>4, <1>5, <1>6 DEF Next

(* "A partial subscription import cannot leave orphaned nodes behind": an  *)
(* import that fails has left none of its files, whatever step failed and  *)
(* whatever ran beside it, unless its undoing failed as well.              *)
THEOREM FailedImportIsUndone == Spec => []FailedImportLeavesNothing
<1>1. Init => ImportOK
  BY DEF Init, Idle, ImportOK, UndoOK
<1>2. IInv /\ ImportOK => FailedImportLeavesNothing
  BY DEF IInv, TypeOK, ImportOK, UndoOK, Mine, FailedImportLeavesNothing
<1>3. QED BY <1>1, <1>2, ImportStep, Invariance, PTL DEF Spec

=============================================================================
