------------------------- MODULE RuleSetStoreProofs -------------------------
(***************************************************************************)
(* Proofs about RuleSetStore, for any tags, calls and payloads, whatever   *)
(* file operation fails: a call that fails changes nothing, until the      *)
(* process dies the registry, index.json and the payloads agree, and after *)
(* it has died once what the calls that returned left is loaded again.     *)
(*                                                                         *)
(* None of these is inductive.  WorkOK says how far the holder of mu has   *)
(* come from what it found (before), and that it can go back; IndexOK says *)
(* that what it found agreed, and where the index of that time is now;     *)
(* RecoverOK says when there is a backup.                                  *)
(***************************************************************************)
EXTENDS RuleSetStore, TLAPS

Saving == {"save", "aside", "rename", "saved", "undo"}
Locked == {"place", "restore"} \cup Saving
Labels == {"idle", "register", "fetch", "store"} \cup Locked
Payloads == [Tags -> Versions \cup {Nil}]

TypeOK ==
  /\ items \in Registry /\ payload \in Payloads
  /\ index \in Registry \cup {Nil} /\ backup \in Registry \cup {Nil}
  /\ writer \in Calls \cup {Nil} /\ spare \in Versions \cup {Nil}
  /\ previous \in Infos \cup {Nil} /\ hadOld \in BOOLEAN
  /\ call \in [Calls -> [tag : Tags \cup {Nil}, url : Urls \cup {Nil},
                         version : Versions \cup {Nil}]]
  /\ pc \in [Calls -> Labels]
  /\ up \in BOOLEAN /\ crashes \in Nat /\ (crashes = 0 => up)
  /\ died \in Labels
  /\ before \in [items : Registry, payload : Payloads]

CallOK == \A c \in Calls :
  /\ pc[c] # "idle" => call[c].tag \in Tags /\ call[c].url \in Urls
  /\ pc[c] \in {"store", "place", "restore"} => call[c].version \in Versions
  /\ pc[c] \in {"register", "fetch"} => call[c].version = Nil

LockOK == \A c \in Calls : pc[c] \in Locked <=> writer = c
DownOK == ~up => \A c \in Calls : pc[c] = "idle"

(* The new entry of tag t, and the payload that goes with it. *)
Changed(t, version) ==
  /\ items[t] \in Infos /\ previous = before.items[t]
  /\ \A s \in Tags \ {t} : items[s] = before.items[s]
  /\ \A s \in Tags \ {t} : payload[s] = before.payload[s]
  /\ IF version = Nil
     THEN /\ payload[t] = before.payload[t]
          /\ items[t].version =
               IF previous = Nil THEN Nil ELSE previous.version
     ELSE /\ spare = before.payload[t]
          /\ payload[t] = version /\ items[t].version = version

(* Its payload has been removed again. *)
Undone(t) ==
  /\ previous = before.items[t] /\ spare = before.payload[t]
  /\ \A s \in Tags \ {t} : items[s] = before.items[s]
  /\ \A s \in Tags \ {t} : payload[s] = before.payload[s]

WorkOK == \A c \in Calls :
  /\ pc[c] = "place" =>
       /\ items = before.items /\ spare = before.payload[call[c].tag]
       /\ \A s \in Tags \ {call[c].tag} : payload[s] = before.payload[s]
  /\ pc[c] \in Saving => Changed(call[c].tag, call[c].version)
  /\ pc[c] = "restore" => Undone(call[c].tag)

Recorded(registry, idx) == registry = IF idx = Nil THEN Empty ELSE idx
Stored(registry, files) ==
  \A t \in Tags :
    files[t] = IF registry[t] = Nil THEN Nil ELSE registry[t].version

(* The index the holder of mu found. *)
Found(c) == IF hadOld THEN backup ELSE index

IndexOK ==
  /\ hadOld => backup # Nil /\ \E c \in Calls : pc[c] \in {"rename", "saved"}
  /\ crashes = 0 /\ writer = Nil =>
       Recorded(items, index) /\ Stored(items, payload)
  /\ crashes = 0 => \A c \in Calls : pc[c] \in Locked =>
       /\ Stored(before.items, before.payload)
       /\ IF pc[c] = "saved" THEN index = items
          ELSE Recorded(before.items, Found(c))
  /\ \A c \in Calls : pc[c] = "rename" => index = Nil

IInv == TypeOK /\ CallOK /\ LockOK /\ DownOK /\ WorkOK /\ IndexOK

-----------------------------------------------------------------------------
(* The start satisfies the invariant. *)
LEMMA InitIInv == Init => IInv
<1> SUFFICES ASSUME Init PROVE IInv
  OBVIOUS
<1> USE StoreAssumption
    DEF Init, Empty, NoCall, Labels, Locked, Saving
<1>1. TypeOK
  BY DEF TypeOK, Registry, Payloads
<1>2. CallOK /\ LockOK /\ DownOK /\ WorkOK
  BY DEF CallOK, LockOK, DownOK, WorkOK
<1>3. IndexOK
  BY DEF IndexOK, Recorded, Stored
<1>4. QED BY <1>1, <1>2, <1>3 DEF IInv

(* A download gets its payload.                                            *)
LEMMA FetchKeepsIInv ==
  ASSUME IInv, NEW c \in Calls, NEW v \in Versions, Fetch(c, v)
  PROVE  IInv'
<1> USE StoreAssumption
    DEF Goto, memory, disk, life, Registry, Infos, Payloads, Labels, Locked,
        Saving
<1>0. TypeOK /\ CallOK /\ LockOK /\ DownOK /\ WorkOK /\ IndexOK
  BY DEF IInv
<1>1. TypeOK'
  BY <1>0 DEF Fetch, TypeOK, CallOK
<1>2. CallOK'
  BY <1>0 DEF Fetch, TypeOK, CallOK
<1>3. LockOK'
  BY <1>0 DEF Fetch, TypeOK, LockOK
<1>4. DownOK'
  BY <1>0 DEF Fetch, TypeOK, DownOK
<1>5. WorkOK'
  BY <1>0 DEF Fetch, TypeOK, WorkOK, Changed,
              Undone
<1>6. IndexOK'
  BY <1>0 DEF Fetch, TypeOK, IndexOK, Found, Recorded, Stored
<1>7. QED BY <1>1, <1>2, <1>3, <1>5, <1>6, <1>4 DEF IInv

(* A download gets none.                                                   *)
LEMMA FetchFailsKeepsIInv ==
  ASSUME IInv, NEW c \in Calls, FetchFails(c)
  PROVE  IInv'
<1> USE StoreAssumption
    DEF Goto, memory, disk, life, Registry, Infos, Payloads, Labels, Locked,
        Saving
<1>0. TypeOK /\ CallOK /\ LockOK /\ DownOK /\ WorkOK /\ IndexOK
  BY DEF IInv
<1>1. TypeOK'
  BY <1>0 DEF FetchFails, NoCall, TypeOK, CallOK
<1>2. CallOK'
  BY <1>0 DEF FetchFails, NoCall, TypeOK, CallOK
<1>3. LockOK'
  BY <1>0 DEF FetchFails, NoCall, TypeOK, LockOK
<1>4. DownOK'
  BY <1>0 DEF FetchFails, NoCall, TypeOK, DownOK
<1>5. WorkOK'
  BY <1>0 DEF FetchFails, NoCall, TypeOK, WorkOK, Changed,
              Undone
<1>6. IndexOK'
  BY <1>0 DEF FetchFails, NoCall, TypeOK, IndexOK, Found, Recorded, Stored
<1>7. QED BY <1>1, <1>2, <1>3, <1>5, <1>6, <1>4 DEF IInv

(* A download gives up before it has changed anything.                     *)
LEMMA SetPayloadAsideFailsKeepsIInv ==
  ASSUME IInv, NEW c \in Calls, SetPayloadAsideFails(c)
  PROVE  IInv'
<1> USE StoreAssumption
    DEF Goto, memory, disk, life, Registry, Infos, Payloads, Labels, Locked,
        Saving
<1>0. TypeOK /\ CallOK /\ LockOK /\ DownOK /\ WorkOK /\ IndexOK
  BY DEF IInv
<1>1. TypeOK'
  BY <1>0 DEF SetPayloadAsideFails, NoCall, TypeOK, CallOK
<1>2. CallOK'
  BY <1>0 DEF SetPayloadAsideFails, NoCall, TypeOK, CallOK
<1>3. LockOK'
  BY <1>0 DEF SetPayloadAsideFails, NoCall, TypeOK, LockOK
<1>4. DownOK'
  BY <1>0 DEF SetPayloadAsideFails, NoCall, TypeOK, DownOK
<1>5. WorkOK'
  BY <1>0 DEF SetPayloadAsideFails, NoCall, TypeOK, WorkOK, Changed,
              Undone
<1>6. IndexOK'
  BY <1>0
  DEF SetPayloadAsideFails, NoCall, TypeOK, IndexOK, Found, Recorded, Stored
<1>7. QED BY <1>1, <1>2, <1>3, <1>5, <1>6, <1>4 DEF IInv

(* A request comes in.                                                     *)
LEMMA ArrivesKeepsIInv ==
  ASSUME IInv, NEW c \in Calls, NEW t \in Tags, NEW u \in Urls, Arrives(c, t, u)
  PROVE  IInv'
<1> USE StoreAssumption
    DEF Goto, memory, disk, life, Registry, Infos, Payloads, Labels, Locked,
        Saving
<1>0. TypeOK /\ CallOK /\ LockOK /\ DownOK /\ WorkOK /\ IndexOK
  BY DEF IInv
<1>1. TypeOK'
  BY <1>0 DEF Arrives, TypeOK, CallOK
<1>2. CallOK'
  BY <1>0 DEF Arrives, TypeOK, CallOK
<1>3. LockOK'
  BY <1>0 DEF Arrives, TypeOK, LockOK
<1>4. DownOK'
  BY <1>0 DEF Arrives, TypeOK, DownOK
<1>5. WorkOK'
  BY <1>0 DEF Arrives, TypeOK, WorkOK, Changed,
              Undone
<1>6. IndexOK'
  BY <1>0 DEF Arrives, TypeOK, IndexOK, Found, Recorded, Stored
<1>7. QED BY <1>1, <1>2, <1>3, <1>5, <1>6, <1>4 DEF IInv

(* A registration takes mu.                                                *)
LEMMA RegisterKeepsIInv ==
  ASSUME IInv, NEW c \in Calls, Register(c)
  PROVE  IInv'
<1> USE StoreAssumption
    DEF Goto, memory, disk, life, Registry, Infos, Payloads, Labels, Locked,
        Saving
<1>0. TypeOK /\ CallOK /\ LockOK /\ DownOK /\ WorkOK /\ IndexOK
  BY DEF IInv
<1>1. TypeOK'
  BY <1>0 DEF Register, Lock, TypeOK, CallOK
<1>2. CallOK'
  BY <1>0 DEF Register, Lock, TypeOK, CallOK
<1>3. LockOK'
  BY <1>0 DEF Register, Lock, TypeOK, LockOK
<1>4. DownOK'
  BY <1>0 DEF Register, Lock, TypeOK, DownOK
<1>5. \A e \in Calls \ {c} : pc'[e] \notin Locked
  BY <1>0 DEF Register, Lock, TypeOK, LockOK
<1>6. WorkOK'
  BY <1>0, <1>5
  DEF Register, Lock, TypeOK, CallOK, LockOK, WorkOK, Changed, IndexOK
<1>7. IndexOK'
  BY <1>0, <1>5
  DEF Register, Lock, TypeOK, CallOK, LockOK, WorkOK, Changed, IndexOK, Found,
      Recorded, Stored, Empty
<1>8. QED BY <1>1, <1>2, <1>3, <1>6, <1>7, <1>4 DEF IInv

(* A download takes mu and sets the old payload aside.                     *)
LEMMA SetPayloadAsideKeepsIInv ==
  ASSUME IInv, NEW c \in Calls, SetPayloadAside(c)
  PROVE  IInv'
<1> USE StoreAssumption
    DEF Goto, memory, disk, life, Registry, Infos, Payloads, Labels, Locked,
        Saving
<1>0. TypeOK /\ CallOK /\ LockOK /\ DownOK /\ WorkOK /\ IndexOK
  BY DEF IInv
<1>1. TypeOK'
  BY <1>0 DEF SetPayloadAside, Lock, TypeOK, CallOK
<1>2. CallOK'
  BY <1>0 DEF SetPayloadAside, Lock, TypeOK, CallOK
<1>3. LockOK'
  BY <1>0 DEF SetPayloadAside, Lock, TypeOK, LockOK
<1>4. DownOK'
  BY <1>0 DEF SetPayloadAside, Lock, TypeOK, DownOK
<1>5. \A e \in Calls \ {c} : pc'[e] \notin Locked
  BY <1>0 DEF SetPayloadAside, Lock, TypeOK, LockOK
<1>6. WorkOK'
  BY <1>0, <1>5
  DEF SetPayloadAside, Lock, TypeOK, CallOK, LockOK, WorkOK, Changed, IndexOK
<1>7. IndexOK'
  BY <1>0, <1>5
  DEF SetPayloadAside, Lock, TypeOK, CallOK, LockOK, WorkOK, Changed, IndexOK,
      Found, Recorded, Stored, Empty
<1>8. QED BY <1>1, <1>2, <1>3, <1>6, <1>7, <1>4 DEF IInv

(* The new payload is in place, the registry has it.                       *)
LEMMA PlacePayloadKeepsIInv ==
  ASSUME IInv, NEW c \in Calls, PlacePayload(c)
  PROVE  IInv'
<1> USE StoreAssumption
    DEF Goto, memory, disk, life, Registry, Infos, Payloads, Labels, Locked,
        Saving
<1>0. TypeOK /\ CallOK /\ LockOK /\ DownOK /\ WorkOK /\ IndexOK
  BY DEF IInv
<1>1. TypeOK'
  BY <1>0 DEF PlacePayload, TypeOK, CallOK
<1>2. CallOK'
  BY <1>0 DEF PlacePayload, TypeOK, CallOK
<1>3. LockOK'
  BY <1>0 DEF PlacePayload, TypeOK, LockOK
<1>4. DownOK'
  BY <1>0 DEF PlacePayload, TypeOK, DownOK
<1>5. \A e \in Calls \ {c} : pc'[e] \notin Locked
  BY <1>0 DEF PlacePayload, TypeOK, LockOK
<1>6. WorkOK'
  BY <1>0, <1>5
  DEF PlacePayload, TypeOK, CallOK, LockOK, WorkOK, Changed, IndexOK
<1>7. IndexOK'
  BY <1>0, <1>5
  DEF PlacePayload, TypeOK, CallOK, LockOK, WorkOK, Changed, IndexOK, Found,
      Recorded, Stored, Empty
<1>8. QED BY <1>1, <1>2, <1>3, <1>6, <1>7, <1>4 DEF IInv

(* A payload that cannot be placed.                                        *)
LEMMA PlacePayloadFailsKeepsIInv ==
  ASSUME IInv, NEW c \in Calls, PlacePayloadFails(c)
  PROVE  IInv'
<1> USE StoreAssumption
    DEF Goto, memory, disk, life, Registry, Infos, Payloads, Labels, Locked,
        Saving
<1>0. TypeOK /\ CallOK /\ LockOK /\ DownOK /\ WorkOK /\ IndexOK
  BY DEF IInv
<1>1. TypeOK'
  BY <1>0 DEF PlacePayloadFails, Unlock, NoCall, TypeOK, CallOK
<1>2. CallOK'
  BY <1>0 DEF PlacePayloadFails, Unlock, NoCall, TypeOK, CallOK
<1>3. LockOK'
  BY <1>0 DEF PlacePayloadFails, Unlock, NoCall, TypeOK, LockOK
<1>4. DownOK'
  BY <1>0 DEF PlacePayloadFails, Unlock, NoCall, TypeOK, DownOK
<1>5. \A e \in Calls \ {c} : pc'[e] \notin Locked
  BY <1>0 DEF PlacePayloadFails, Unlock, NoCall, TypeOK, LockOK
<1>6. WorkOK'
  BY <1>0, <1>5
  DEF PlacePayloadFails, Unlock, NoCall, TypeOK, CallOK, LockOK, WorkOK,
      Changed, IndexOK
<1>7. IndexOK'
  BY <1>0, <1>5
  DEF PlacePayloadFails, Unlock, NoCall, TypeOK, CallOK, LockOK, WorkOK,
      Changed, IndexOK, Found, Recorded, Stored, Empty
<1>8. QED BY <1>1, <1>2, <1>3, <1>6, <1>7, <1>4 DEF IInv

(* saveIndexLocked removes the old backup.                                 *)
LEMMA RemoveBackupKeepsIInv ==
  ASSUME IInv, NEW c \in Calls, RemoveBackup(c)
  PROVE  IInv'
<1> USE StoreAssumption
    DEF Goto, memory, disk, life, Registry, Infos, Payloads, Labels, Locked,
        Saving
<1>0. TypeOK /\ CallOK /\ LockOK /\ DownOK /\ WorkOK /\ IndexOK
  BY DEF IInv
<1>1. TypeOK'
  BY <1>0 DEF RemoveBackup, TypeOK, CallOK
<1>2. CallOK'
  BY <1>0 DEF RemoveBackup, TypeOK, CallOK
<1>3. LockOK'
  BY <1>0 DEF RemoveBackup, TypeOK, LockOK
<1>4. DownOK'
  BY <1>0 DEF RemoveBackup, TypeOK, DownOK
<1>5. \A e \in Calls \ {c} : pc'[e] \notin Locked
  BY <1>0 DEF RemoveBackup, TypeOK, LockOK
<1>6. WorkOK'
  BY <1>0, <1>5
  DEF RemoveBackup, TypeOK, CallOK, LockOK, WorkOK, Changed, IndexOK
<1>7. IndexOK'
  BY <1>0, <1>5
  DEF RemoveBackup, TypeOK, CallOK, LockOK, WorkOK, Changed, IndexOK, Found,
      Recorded, Stored, Empty
<1>8. QED BY <1>1, <1>2, <1>3, <1>6, <1>7, <1>4 DEF IInv

(* saveIndexLocked sets the old index aside.                               *)
LEMMA SetIndexAsideKeepsIInv ==
  ASSUME IInv, NEW c \in Calls, SetIndexAside(c)
  PROVE  IInv'
<1> USE StoreAssumption
    DEF Goto, memory, disk, life, Registry, Infos, Payloads, Labels, Locked,
        Saving
<1>0. TypeOK /\ CallOK /\ LockOK /\ DownOK /\ WorkOK /\ IndexOK
  BY DEF IInv
<1>1. TypeOK'
  BY <1>0 DEF SetIndexAside, TypeOK, CallOK
<1>2. CallOK'
  BY <1>0 DEF SetIndexAside, TypeOK, CallOK
<1>3. LockOK'
  BY <1>0 DEF SetIndexAside, TypeOK, LockOK
<1>4. DownOK'
  BY <1>0 DEF SetIndexAside, TypeOK, DownOK
<1>5. \A e \in Calls \ {c} : pc'[e] \notin Locked
  BY <1>0 DEF SetIndexAside, TypeOK, LockOK
<1>6. WorkOK'
  BY <1>0, <1>5
  DEF SetIndexAside, TypeOK, CallOK, LockOK, WorkOK, Changed, IndexOK
<1>7. IndexOK'
  BY <1>0, <1>5
  DEF SetIndexAside, TypeOK, CallOK, LockOK, WorkOK, Changed, IndexOK, Found,
      Recorded, Stored, Empty
<1>8. QED BY <1>1, <1>2, <1>3, <1>6, <1>7, <1>4 DEF IInv

(* saveIndexLocked puts the new index in place.                            *)
LEMMA PlaceIndexKeepsIInv ==
  ASSUME IInv, NEW c \in Calls, PlaceIndex(c)
  PROVE  IInv'
<1> USE StoreAssumption
    DEF Goto, memory, disk, life, Registry, Infos, Payloads, Labels, Locked,
        Saving
<1>0. TypeOK /\ CallOK /\ LockOK /\ DownOK /\ WorkOK /\ IndexOK
  BY DEF IInv
<1>1. TypeOK'
  BY <1>0 DEF PlaceIndex, TypeOK, CallOK
<1>2. CallOK'
  BY <1>0 DEF PlaceIndex, TypeOK, CallOK
<1>3. LockOK'
  BY <1>0 DEF PlaceIndex, TypeOK, LockOK
<1>4. DownOK'
  BY <1>0 DEF PlaceIndex, TypeOK, DownOK
<1>5. \A e \in Calls \ {c} : pc'[e] \notin Locked
  BY <1>0 DEF PlaceIndex, TypeOK, LockOK
<1>6. WorkOK'
  BY <1>0, <1>5
  DEF PlaceIndex, TypeOK, CallOK, LockOK, WorkOK, Changed, IndexOK
<1>7. IndexOK'
  BY <1>0, <1>5
  DEF PlaceIndex, TypeOK, CallOK, LockOK, WorkOK, Changed, IndexOK, Found,
      Recorded, Stored, Empty
<1>8. QED BY <1>1, <1>2, <1>3, <1>6, <1>7, <1>4 DEF IInv

(* saveIndexLocked fails and moves the old index back.                     *)
LEMMA SaveFailsKeepsIInv ==
  ASSUME IInv, NEW c \in Calls, SaveFails(c)
  PROVE  IInv'
<1> USE StoreAssumption
    DEF Goto, memory, disk, life, Registry, Infos, Payloads, Labels, Locked,
        Saving
<1>0. TypeOK /\ CallOK /\ LockOK /\ DownOK /\ WorkOK /\ IndexOK
  BY DEF IInv
<1>1. TypeOK'
  BY <1>0 DEF SaveFails, TypeOK, CallOK
<1>2. CallOK'
  BY <1>0 DEF SaveFails, TypeOK, CallOK
<1>3. LockOK'
  BY <1>0 DEF SaveFails, TypeOK, LockOK
<1>4. DownOK'
  BY <1>0 DEF SaveFails, TypeOK, DownOK
<1>5. \A e \in Calls \ {c} : pc'[e] \notin Locked
  BY <1>0 DEF SaveFails, TypeOK, LockOK
<1>6. WorkOK'
  BY <1>0, <1>5 DEF SaveFails, TypeOK, CallOK, LockOK, WorkOK, Changed, IndexOK
<1>7. IndexOK'
  BY <1>0, <1>5
  DEF SaveFails, TypeOK, CallOK, LockOK, WorkOK, Changed, IndexOK, Found,
      Recorded, Stored, Empty
<1>8. QED BY <1>1, <1>2, <1>3, <1>6, <1>7, <1>4 DEF IInv

(* The call succeeds.                                                      *)
LEMMA FinishKeepsIInv ==
  ASSUME IInv, NEW c \in Calls, Finish(c)
  PROVE  IInv'
<1> USE StoreAssumption
    DEF Goto, memory, disk, life, Registry, Infos, Payloads, Labels, Locked,
        Saving
<1>0. TypeOK /\ CallOK /\ LockOK /\ DownOK /\ WorkOK /\ IndexOK
  BY DEF IInv
<1>1. TypeOK'
  BY <1>0 DEF Finish, Unlock, NoCall, TypeOK, CallOK
<1>2. CallOK'
  BY <1>0 DEF Finish, Unlock, NoCall, TypeOK, CallOK
<1>3. LockOK'
  BY <1>0 DEF Finish, Unlock, NoCall, TypeOK, LockOK
<1>4. DownOK'
  BY <1>0 DEF Finish, Unlock, NoCall, TypeOK, DownOK
<1>5. \A e \in Calls \ {c} : pc'[e] \notin Locked
  BY <1>0 DEF Finish, Unlock, NoCall, TypeOK, LockOK
<1>6. WorkOK'
  BY <1>0, <1>5
  DEF Finish, Unlock, NoCall, TypeOK, CallOK, LockOK, WorkOK, Changed, IndexOK
<1>7. IndexOK'
  BY <1>0, <1>5
  DEF Finish, Unlock, NoCall, TypeOK, CallOK, LockOK, WorkOK, Changed, IndexOK,
      Found, Recorded, Stored, Empty
<1>8. QED BY <1>1, <1>2, <1>3, <1>6, <1>7, <1>4 DEF IInv

(* A payload that cannot be placed: the old one is put back. *)
LEMMA PlacePayloadFailsRestores ==
  ASSUME IInv, NEW c \in Calls, PlacePayloadFails(c)
  PROVE  items' = before.items /\ payload' = before.payload
<1>1. call[c].tag \in Tags /\ pc[c] = "place"
  BY DEF IInv, CallOK, PlacePayloadFails
<1>2. /\ items' = before.items
      /\ payload' = [payload EXCEPT
                        ![call[c].tag] = before.payload[call[c].tag]]
      /\ \A s \in Tags \ {call[c].tag} : payload[s] = before.payload[s]
  BY <1>1 DEF IInv, WorkOK, PlacePayloadFails
<1>3. payload \in Payloads /\ before.payload \in Payloads
  BY DEF IInv, TypeOK
<1>4. QED BY <1>1, <1>2, <1>3 DEF Payloads

(* The payload of a download that is undone is removed.                    *)
LEMMA UndoPayloadKeepsIInv ==
  ASSUME IInv, NEW c \in Calls, UndoPayload(c)
  PROVE  IInv'
<1> USE StoreAssumption
    DEF Goto, memory, disk, life, Registry, Infos, Payloads, Labels, Locked,
        Saving
<1>0. TypeOK /\ CallOK /\ LockOK /\ DownOK /\ WorkOK /\ IndexOK
  BY DEF IInv
<1>1. TypeOK'
  BY <1>0 DEF UndoPayload, TypeOK, CallOK
<1>2. CallOK'
  BY <1>0 DEF UndoPayload, TypeOK, CallOK
<1>3. LockOK'
  BY <1>0 DEF UndoPayload, TypeOK, LockOK
<1>4. DownOK'
  BY <1>0 DEF UndoPayload, TypeOK, DownOK
<1>5. \A e \in Calls \ {c} : pc'[e] \notin Locked
  BY <1>0 DEF UndoPayload, TypeOK, LockOK
<1>6. WorkOK'
  BY <1>0, <1>5
  DEF UndoPayload, TypeOK, CallOK, LockOK, WorkOK, Changed, Undone, IndexOK
<1>7. IndexOK'
  BY <1>0, <1>5
  DEF UndoPayload, TypeOK, CallOK, LockOK, WorkOK, Changed, IndexOK, Found,
      Recorded, Stored, Empty
<1>8. QED BY <1>1, <1>2, <1>3, <1>6, <1>7, <1>4 DEF IInv

(* A call in Undo: what it knows of what it found.                         *)
LEMMA UndoContext ==
  ASSUME IInv, NEW c \in Calls, Undo(c)
  PROVE  /\ call[c].tag \in Tags /\ writer = c /\ ~hadOld
         /\ previous = before.items[call[c].tag]
         /\ \A s \in Tags \ {call[c].tag} : items[s] = before.items[s]
         /\ \A s \in Tags \ {call[c].tag} : payload[s] = before.payload[s]
         /\ IF call[c].version = Nil
            THEN payload[call[c].tag] = before.payload[call[c].tag]
            ELSE spare = before.payload[call[c].tag]
         /\ \A e \in Calls \ {c} : pc[e] \notin Locked
<1> USE DEF Locked, Saving
<1>1. pc[c] \in {"undo", "restore"}
  BY DEF Undo, Undoing
<1>2. call[c].tag \in Tags
  BY <1>1 DEF IInv, CallOK
<1>3. writer = c /\ \A e \in Calls \ {c} : pc[e] \notin Locked
  BY StoreAssumption, <1>1 DEF IInv, LockOK
<1>4. ~hadOld
  BY <1>1, <1>3 DEF IInv, IndexOK, TypeOK
<1>5. CASE pc[c] = "undo"
  <2>1. Changed(call[c].tag, call[c].version)
    BY <1>5 DEF IInv, WorkOK
  <2>2. QED BY <1>2, <1>3, <1>4, <2>1 DEF Changed
<1>6. CASE pc[c] = "restore"
  <2>1. Undone(call[c].tag) /\ call[c].version # Nil
    BY <1>6, StoreAssumption DEF IInv, WorkOK, CallOK
  <2>2. QED BY <1>2, <1>3, <1>4, <2>1 DEF Undone
<1>7. QED BY <1>1, <1>5, <1>6

(* It puts the registry and the payloads back.                             *)
LEMMA UndoRestores ==
  ASSUME IInv, NEW c \in Calls, Undo(c)
  PROVE  items' = before.items /\ payload' = before.payload
<1>1. /\ items \in Registry /\ before.items \in Registry
      /\ payload \in Payloads /\ before.payload \in Payloads
  BY DEF IInv, TypeOK
<1>2. items' = before.items
  <2>1. items' = [items EXCEPT ![call[c].tag] = before.items[call[c].tag]]
    BY UndoContext DEF Undo
  <2>2. QED BY UndoContext, <1>1, <2>1 DEF Registry
<1>3. payload' = before.payload
  <2>1. CASE call[c].version = Nil
    <3>1. \A s \in Tags : payload[s] = before.payload[s]
      BY UndoContext, <2>1
    <3>2. payload' = payload
      BY <2>1 DEF Undo
    <3>3. QED BY <1>1, <3>1, <3>2 DEF Payloads
  <2>2. CASE call[c].version # Nil
    <3>1. payload' = [payload EXCEPT
                        ![call[c].tag] = before.payload[call[c].tag]]
      BY UndoContext, <2>2 DEF Undo
    <3>2. QED BY UndoContext, <1>1, <3>1 DEF Payloads
  <2>3. QED BY <2>1, <2>2
<1>4. QED BY <1>2, <1>3

(* Register and Download go back.                                          *)
LEMMA UndoKeepsIInv ==
  ASSUME IInv, NEW c \in Calls, Undo(c)
  PROVE  IInv'
<1> USE StoreAssumption
    DEF Goto, life, Labels, Locked, Saving
<1>0. TypeOK /\ CallOK /\ LockOK /\ DownOK /\ WorkOK /\ IndexOK
  BY DEF IInv
<1>1. /\ writer = c /\ ~hadOld
      /\ \A e \in Calls \ {c} : pc[e] \notin Locked
  BY UndoContext
<1>2. items' = before.items /\ payload' = before.payload
  BY UndoRestores
<1>3. /\ writer' = Nil /\ spare' = Nil /\ previous' = Nil /\ hadOld' = FALSE
      /\ call' = [call EXCEPT ![c] = NoCall]
      /\ pc' = [pc EXCEPT ![c] = "idle"]
      /\ UNCHANGED <<index, backup, life, before>>
  BY DEF Undo, Unlock
<1>4. TypeOK'
  BY <1>0, <1>2, <1>3 DEF TypeOK, NoCall
<1>5. DownOK'
  BY <1>0 DEF Undo, DownOK
<1>6. \A e \in Calls : pc'[e] \notin Locked
  BY <1>0, <1>1, <1>3 DEF TypeOK
<1>7. CallOK' /\ LockOK' /\ WorkOK'
  BY <1>0, <1>3, <1>6 DEF TypeOK, CallOK, LockOK, WorkOK
<1>8. crashes' = 0 =>
        Recorded(items', index') /\ Stored(items', payload')
  <2>1. crashes = 0 =>
          Recorded(before.items, index) /\ Stored(before.items, before.payload)
    BY <1>0, <1>1 DEF Undo, Undoing, IndexOK, Found
  <2>2. QED BY <1>2, <1>3, <2>1 DEF Recorded, Stored
<1>9. IndexOK'
  BY <1>3, <1>6, <1>8 DEF IndexOK
<1>10. QED BY <1>4, <1>5, <1>7, <1>9 DEF IInv

(* The process ends anywhere. *)
LEMMA CrashKeepsIInv == ASSUME IInv, Crash PROVE IInv'
<1> USE StoreAssumption
    DEF Registry, Infos, Payloads, Labels, Locked, Saving, NoCall, Empty, IInv
<1>1. DownOK' /\ \A c \in Calls : pc'[c] = "idle"
  BY DEF Crash, DownOK
<1>4. Empty \in Registry /\ NoCall.tag = Nil /\ crashes' \in Nat /\ crashes' # 0
  BY DEF Crash, TypeOK
<1>2. TypeOK'
  <2>1. /\ items' \in Registry /\ pc' \in [Calls -> Labels]
        /\ call' \in [Calls -> [tag : Tags \cup {Nil}, url : Urls \cup {Nil},
                                version : Versions \cup {Nil}]]
    BY <1>4 DEF Crash
  <2>2. QED BY <1>4, <2>1 DEF Crash, TypeOK
<1>3. CallOK' /\ LockOK' /\ WorkOK'
  BY <1>1 DEF Crash, TypeOK, CallOK, LockOK, WorkOK
<1>5. IndexOK'
  BY <1>1, <1>4 DEF Crash, IndexOK
<1>6. QED BY <1>1, <1>2, <1>3, <1>5

(* A later one loads what it finds. *)
LEMMA RestartKeepsIInv == ASSUME IInv, Restart PROVE IInv'
<1> USE StoreAssumption
    DEF Registry, Infos, Payloads, Labels, Locked, Saving, Empty, IInv, disk
<1>1. crashes # 0 /\ \A c \in Calls : pc[c] = "idle" /\ pc'[c] = "idle"
  BY DEF Restart, TypeOK, DownOK
<1>2. TypeOK'
  BY <1>1 DEF Restart, TypeOK
<1>3. CallOK' /\ LockOK' /\ DownOK' /\ WorkOK'
  BY <1>1 DEF Restart, TypeOK, CallOK, LockOK, DownOK, WorkOK
<1>4. IndexOK'
  BY <1>1 DEF Restart, TypeOK, IndexOK
<1>5. QED BY <1>2, <1>3, <1>4

(* Nothing happens. *)
LEMMA StutterKeepsIInv == ASSUME IInv, UNCHANGED vars PROVE IInv'
BY DEF vars, memory, disk, life, IInv, TypeOK, CallOK, LockOK, DownOK, WorkOK,
       Changed, Undone, IndexOK, Recorded, Stored, Found

(* Every step keeps the invariant. *)
LEMMA NextKeepsIInv == ASSUME IInv, [Next]_vars PROVE IInv'
BY ArrivesKeepsIInv, FetchKeepsIInv, FetchFailsKeepsIInv, RegisterKeepsIInv,
   SetPayloadAsideKeepsIInv, SetPayloadAsideFailsKeepsIInv,
   PlacePayloadKeepsIInv, PlacePayloadFailsKeepsIInv, RemoveBackupKeepsIInv,
   SetIndexAsideKeepsIInv, PlaceIndexKeepsIInv, SaveFailsKeepsIInv,
   UndoPayloadKeepsIInv, UndoKeepsIInv, FinishKeepsIInv, CrashKeepsIInv, RestartKeepsIInv,
   StutterKeepsIInv
DEF Next

(* Always: the holder of mu is as far from what it found as its step says, *)
(* can go back, and the index of that time is where IndexOK says.          *)
THEOREM Invariance == Spec => []IInv
<1>1. Init => IInv
  BY InitIInv
<1>2. IInv /\ [Next]_vars => IInv'
  BY NextKeepsIInv
<1>3. QED BY <1>1, <1>2, PTL DEF Spec

(* Until the process dies, the registry, index.json and the payload files  *)
(* agree whenever mu is free, whatever file operation has failed.          *)
THEOREM StoreIsConsistent == Spec => []BytesMatchIndex
<1>1. IInv => BytesMatchIndex
  BY StoreAssumption
  DEF IInv, IndexOK, Recorded, Stored, BytesMatchIndex, TypeOK
<1>2. QED BY <1>1, Invariance, PTL

(* A call that gives up after it took mu leaves the registry and the       *)
(* payloads as it found them.                                              *)
THEOREM FailureRollsBack == Spec => FailedCallChangesNothing
<1>1. ASSUME IInv, [Next]_vars, NEW c \in Calls,
             up', pc[c] \in {"place", "undo", "restore"}, pc'[c] = "idle"
      PROVE  items' = before.items /\ payload' = before.payload
  <2>1. /\ pc \in [Calls -> Labels] /\ pc[c] \in {"place", "undo", "restore"}
        /\ pc'[c] = "idle" /\ up /\ up'
    BY <1>1 DEF IInv, TypeOK, DownOK
  <2>2. ASSUME NEW d \in Calls, NEW t \in Tags, NEW u \in Urls, Arrives(d, t, u)
        PROVE  FALSE
    BY <2>1, <2>2 DEF Arrives, Goto
  <2>3. ASSUME NEW d \in Calls, NEW v \in Versions, Fetch(d, v) PROVE FALSE
    BY <2>1, <2>3 DEF Fetch, Goto
  <2>4. ASSUME NEW d \in Calls,
               \/ FetchFails(d) \/ Register(d)
               \/ SetPayloadAside(d) \/ SetPayloadAsideFails(d)
        PROVE  FALSE
    BY <2>1, <2>4
    DEF FetchFails, Register, SetPayloadAside, SetPayloadAsideFails, Goto
  <2>5. ASSUME NEW d \in Calls,
               \/ PlacePayload(d) \/ RemoveBackup(d) \/ SetIndexAside(d)
               \/ PlaceIndex(d) \/ SaveFails(d) \/ UndoPayload(d)
               \/ Finish(d)
        PROVE  FALSE
    BY <2>1, <2>5
    DEF PlacePayload, RemoveBackup, SetIndexAside, PlaceIndex, SaveFails,
        UndoPayload, Finish, Goto, Unlock
  <2>6. ASSUME NEW d \in Calls, d # c, PlacePayloadFails(d) \/ Undo(d)
        PROVE  FALSE
    BY <2>1, <2>6 DEF PlacePayloadFails, Undo, Goto, Unlock
  <2>7. ~Crash /\ ~Restart /\ ~UNCHANGED vars
    BY <2>1 DEF Crash, Restart, vars
  <2>8. PlacePayloadFails(c) \/ Undo(c)
    BY <1>1, <2>2, <2>3, <2>4, <2>5, <2>6, <2>7 DEF Next
  <2>9. QED BY <1>1, <2>8, PlacePayloadFailsRestores, UndoRestores
<1>2. IInv /\ [Next]_vars =>
        [\A c \in Calls :
           up' /\ pc[c] \in {"place", "undo", "restore"} /\ pc'[c] = "idle" =>
             items' = before.items /\ payload' = before.payload]_vars
  BY <1>1
<1>3. QED BY <1>2, Invariance, PTL DEF Spec, FailedCallChangesNothing

-----------------------------------------------------------------------------
(* What loadIndex would find. *)
Loadable ==
  IF index # Nil THEN index ELSE IF backup # Nil THEN backup ELSE Empty

(* Where the holder of mu is. *)
Place == IF writer = Nil THEN "idle" ELSE pc[writer]

(* Until the process dies the backup is there only while its save is under *)
(* way, and what is at rest is what the last call left; when it has died   *)
(* once, that can be loaded.                                               *)
RecoverOK ==
  /\ crashes = 0 /\ backup # Nil => hadOld
  /\ crashes = 0 /\ writer = Nil =>
       items = before.items /\ payload = before.payload
  /\ crashes = 1 /\ ~up => Recovered(Loadable, died)

(* Wherever the process dies for the first time, the index or its backup   *)
(* has what the calls that returned left, and so have the payloads but for *)
(* the tag of the call under way.                                          *)
LEMMA LoadableAnywhere ==
  ASSUME IInv, RecoverOK, crashes = 0
  PROVE  Recovered(Loadable, Place)
<1> USE StoreAssumption DEF Loadable, Recorded, Empty
<1>0. /\ TypeOK /\ CallOK /\ LockOK /\ WorkOK /\ IndexOK
      /\ before.items \in Registry /\ items \in Registry
  BY DEF IInv, TypeOK
<1>1. CASE writer = Nil
  <2>1. /\ items = before.items /\ payload = before.payload
        /\ Recorded(items, index)
    BY <1>0, <1>1 DEF RecoverOK, IndexOK
  <2>2. \A c \in Calls : pc[c] \notin Locked
    BY <1>0, <1>1 DEF LockOK
  <2>3. ~hadOld
    BY <1>0, <2>2 DEF IndexOK, Locked, Saving
  <2>4. backup = Nil
    BY <2>3 DEF RecoverOK
  <2>5. Loadable = before.items
    BY <2>1, <2>4
  <2>6. QED BY <2>1, <2>5 DEF Recovered
<1>2. ASSUME NEW c \in Calls, writer = c
      PROVE  Recovered(Loadable, Place)
  <2>1. pc[c] \in Locked /\ Place = pc[c]
    BY <1>0, <1>2 DEF LockOK, Place
  <2>2. call[c].tag \in Tags
    BY <1>0, <2>1 DEF CallOK, Locked, Saving
  <2>3. \A s \in Tags \ {call[c].tag} : payload[s] = before.payload[s]
    BY <1>0, <2>1 DEF WorkOK, Changed, Undone, Locked, Saving
  <2>4. pc[c] \in Saving /\ payload[call[c].tag] = Nil
          => before.payload[call[c].tag] = Nil
    <3>1. SUFFICES ASSUME pc[c] \in Saving
                   PROVE  payload[call[c].tag] = Nil
                            => before.payload[call[c].tag] = Nil
      OBVIOUS
    <3>2. Changed(call[c].tag, call[c].version)
      BY <1>0, <3>1 DEF WorkOK
    <3>3. QED BY <3>2 DEF Changed
  <2>5. CASE pc[c] = "saved"
    <3>1. index = items
      BY <1>0, <2>1, <2>5 DEF IndexOK
    <3>2. Changed(call[c].tag, call[c].version)
      BY <1>0, <2>5 DEF WorkOK, Saving
    <3>3. Loadable = items
      BY <1>0, <3>1
    <3>4. Stored(before.items, before.payload)
      BY <1>0, <2>1 DEF IndexOK
    <3>5. items[call[c].tag] # Nil
      BY <3>2 DEF Changed
    <3>6. payload[call[c].tag] = items[call[c].tag].version
      BY <2>2, <3>2, <3>4 DEF Changed, Stored
    <3>7. \A s \in Tags \ {call[c].tag} : items[s] = before.items[s]
      BY <3>2 DEF Changed
    <3>8. QED BY <2>2, <2>3, <2>4, <2>5, <3>3, <3>5, <3>6, <3>7
              DEF Recovered, Saving
  <2>6. CASE pc[c] # "saved"
    <3>1. Recorded(before.items, Found(c))
      BY <1>0, <2>1, <2>6 DEF IndexOK
    <3>2. hadOld => index = Nil /\ backup # Nil
      <4>1. ASSUME hadOld PROVE pc[c] = "rename"
        BY <1>0, <1>2, <2>6, <4>1 DEF IndexOK, LockOK, Locked, Saving
      <4>2. QED BY <1>0, <4>1 DEF IndexOK
    <3>3. Loadable = before.items
      BY <3>1, <3>2 DEF RecoverOK, Found
    <3>4. QED BY <2>1, <2>2, <2>3, <2>4, <3>3 DEF Recovered, Locked
  <2>7. QED BY <2>5, <2>6
<1>3. QED BY <1>0, <1>1, <1>2 DEF TypeOK

(* Every step keeps it.                                                    *)
LEMMA RecoverStep ==
  ASSUME IInv, RecoverOK, [Next]_vars
  PROVE  RecoverOK'
<1> USE DEF memory, disk, life
<1>0. /\ TypeOK /\ LockOK /\ DownOK /\ WorkOK /\ IndexOK
  BY DEF IInv
<1>1. ASSUME \/ \E c \in Calls :
                  \/ \E t \in Tags, u \in Urls : Arrives(c, t, u)
                  \/ \E v \in Versions : Fetch(c, v)
                  \/ FetchFails(c) \/ SetPayloadAsideFails(c)
             \/ UNCHANGED vars
      PROVE  RecoverOK'
  <2>1. UNCHANGED <<items, index, backup, payload, writer, hadOld, before,
                    life>>
    BY <1>1 DEF Arrives, Fetch, FetchFails, SetPayloadAsideFails, vars
  <2>2. QED BY <2>1 DEF RecoverOK, Recovered, Loadable
<1>2. ASSUME NEW c \in Calls,
             \/ Register(c) \/ SetPayloadAside(c) \/ PlacePayload(c)
             \/ RemoveBackup(c) \/ SetIndexAside(c) \/ PlaceIndex(c)
             \/ SaveFails(c) \/ UndoPayload(c)
      PROVE  RecoverOK'
  <2>1. up /\ up' /\ crashes' = crashes
    BY <1>2 DEF Register, SetPayloadAside, PlacePayload, RemoveBackup,
                SetIndexAside, PlaceIndex, SaveFails, UndoPayload
  <2>2. writer' = c /\ c # Nil
    BY <1>0, <1>2, StoreAssumption
    DEF Register, SetPayloadAside, PlacePayload, RemoveBackup, SetIndexAside,
        PlaceIndex, SaveFails, UndoPayload, Lock, LockOK, Locked, Saving
  <2>3. crashes = 0 /\ backup' # Nil => hadOld'
    BY <1>2
    DEF Register, SetPayloadAside, PlacePayload, RemoveBackup, SetIndexAside,
        PlaceIndex, SaveFails, UndoPayload, IndexOK, RecoverOK
  <2>4. QED BY <2>1, <2>2, <2>3 DEF RecoverOK
<1>3. ASSUME NEW c \in Calls, PlacePayloadFails(c) \/ Undo(c)
      PROVE  RecoverOK'
  <2>1. up' /\ crashes' = crashes /\ UNCHANGED <<backup, before>>
    BY <1>3 DEF PlacePayloadFails, Undo
  <2>2. items' = before.items /\ payload' = before.payload
    BY <1>3, PlacePayloadFailsRestores, UndoRestores
  <2>3. ~hadOld
    <3>1. CASE PlacePayloadFails(c)
      BY <1>0, <3>1 DEF PlacePayloadFails, LockOK, IndexOK, Locked, Saving
    <3>2. QED BY <1>3, <3>1, UndoContext
  <2>4. QED BY <2>1, <2>2, <2>3 DEF RecoverOK
<1>4. ASSUME NEW c \in Calls, Finish(c)
      PROVE  RecoverOK'
  BY <1>4 DEF Finish, RecoverOK
<1>5. CASE Crash
  <2>1. crashes = 0 => Recovered(Loadable, Place)
    BY LoadableAnywhere
  <2>2. /\ crashes' = crashes + 1 /\ crashes \in Nat
        /\ UNCHANGED <<index, backup, payload, before>> /\ died' = Place
    BY <1>0, <1>5 DEF Crash, TypeOK, Place
  <2>3. QED BY <2>1, <2>2 DEF RecoverOK, Recovered, Loadable
<1>6. CASE Restart
  <2>1. crashes # 0
    BY <1>0, <1>6 DEF Restart, TypeOK
  <2>2. crashes' = crashes /\ up' = TRUE
    BY <1>6 DEF Restart
  <2>3. QED BY <2>1, <2>2 DEF RecoverOK
<1>7. QED BY <1>1, <1>2, <1>3, <1>4, <1>5, <1>6 DEF Next

(* The process that starts after the first crash loads what the calls that *)
(* returned left, with or without the change of the one under way.         *)
THEOREM CrashIsRecovered == Spec => RestartRecovers
<1>1. Init => RecoverOK
  BY DEF Init, RecoverOK
<1>2. IInv /\ RecoverOK /\ [Next]_vars => RecoverOK'
  BY RecoverStep
<1>3. Spec => []RecoverOK
  BY <1>1, <1>2, Invariance, PTL DEF Spec
<1>4. IInv /\ RecoverOK /\ [Next]_vars =>
        [crashes = 1 /\ ~up /\ up' => Recovered(items', died)]_vars
  <2> SUFFICES ASSUME IInv, RecoverOK, [Next]_vars, crashes = 1, ~up, up'
               PROVE  Recovered(items', died)
    OBVIOUS
  <2>1. Restart
    BY DEF Next, Arrives, Fetch, FetchFails, Register, SetPayloadAside,
           SetPayloadAsideFails, PlacePayload, PlacePayloadFails, RemoveBackup,
           SetIndexAside, PlaceIndex, SaveFails, UndoPayload, Undo, Finish,
           Crash, vars, life
  <2>2. items' = Loadable /\ before' = before
    BY <2>1 DEF Restart, Loadable
  <2>3. QED BY <2>2 DEF RecoverOK, Recovered
<1>5. QED BY <1>3, <1>4, Invariance, PTL DEF Spec, RestartRecovers

=============================================================================
