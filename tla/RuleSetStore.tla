---------------------------- MODULE RuleSetStore ----------------------------
(***************************************************************************)
(* The rule-set cache of the core (go/grpc_server/core/ruleset/manager.go):*)
(* the registry in memory, index.json with its backup, and the payload of  *)
(* each tag, under UpdateRuleSet calls that register or download.          *)
(*                                                                         *)
(* Every rename or removal of a named file is a step, so that a crash of   *)
(* the process may fall between any two, in a rollback too.  A payload is  *)
(* the version that was fetched; formats are left out (one file per tag).  *)
(* Temporary files have fresh names and are never read again: only spare,  *)
(* the payload set aside by the download that holds the lock, is kept,     *)
(* until the process dies.                                                 *)
(***************************************************************************)
EXTENDS Naturals

CONSTANTS Tags, Urls,
          Calls,       \* handler goroutines
          Versions,    \* payloads the servers hand out, each once
          MaxCrashes,  \* bound: crashes of the process
          MayFail,     \* file operations may fail (rollbacks excepted)
          Nil

Infos == [url : Urls, version : Versions \cup {Nil}]
Registry == [Tags -> Infos \cup {Nil}]

ASSUME StoreAssumption ==
  /\ Nil \notin Tags \cup Urls \cup Calls \cup Versions \cup Infos \cup Registry
  /\ MaxCrashes \in Nat /\ MayFail \in BOOLEAN

VARIABLES
  items,    \* the registry: url and cached version of each tag, or Nil
  index,    \* index.json, or Nil
  backup,   \* index.json.bak, or Nil
  payload,  \* the payload file of each tag, or Nil
  writer,   \* the goroutine that holds mu
  spare,    \* the old payload it has set aside, or Nil
  previous, \* its copy of the registry entry, for the rollback
  hadOld,   \* saveIndexLocked's: index.json has been set aside
  call,     \* what each goroutine serves
  pc,       \* and where in it it is
  up,       \* the process is running
  crashes,  \* number of crashes
  before,   \* history: registry and payloads when mu was last taken, or
            \*   let go by a call that succeeded
  died,     \* history: where the holder of mu was when the process died
            \*   last, or "idle"
  fetched   \* the versions already handed out

memory == <<items, writer, previous, hadOld, call>>
disk == <<index, backup, payload, spare>>
life == <<up, crashes, died>>
vars == <<memory, disk, pc, life, before, fetched>>

Empty == [t \in Tags |-> Nil]
NoCall == [tag |-> Nil, url |-> Nil, version |-> Nil]

Init ==
  /\ items = Empty /\ index = Nil /\ backup = Nil
  /\ payload = [t \in Tags |-> Nil]
  /\ writer = Nil /\ spare = Nil /\ previous = Nil /\ hadOld = FALSE
  /\ call = [c \in Calls |-> NoCall]
  /\ pc = [c \in Calls |-> "idle"]
  /\ up = TRUE /\ crashes = 0 /\ died = "idle"
  /\ before = [items |-> Empty, payload |-> payload]
  /\ fetched = {}

Goto(c, label) == pc' = [pc EXCEPT ![c] = label]

(* mu is released and the handler returns. *)
Unlock(c) ==
  /\ writer' = Nil /\ spare' = Nil /\ previous' = Nil /\ hadOld' = FALSE
  /\ call' = [call EXCEPT ![c] = NoCall]
  /\ Goto(c, "idle")

Lock(c) ==
  /\ writer = Nil /\ writer' = c
  /\ before' = [items |-> items, payload |-> payload]

-----------------------------------------------------------------------------
(* UpdateRuleSet: register, or fetch and then store.                       *)

Arrives(c, t, u) ==
  /\ up /\ pc[c] = "idle"
  /\ \/ Goto(c, "register") \/ Goto(c, "fetch")
  /\ call' = [call EXCEPT ![c] = [tag |-> t, url |-> u, version |-> Nil]]
  /\ UNCHANGED <<items, writer, previous, hadOld, disk, life, before, fetched>>

(* The payload arrives in a temporary file, without the lock. *)
Fetch(c, v) ==
  /\ up /\ pc[c] = "fetch"
  /\ v \notin fetched /\ fetched' = fetched \cup {v}
  /\ call' = [call EXCEPT ![c].version = v]
  /\ Goto(c, "store")
  /\ UNCHANGED <<items, writer, previous, hadOld, disk, life, before>>

(* No network, not 200, too large, or the temporary file fails. *)
FetchFails(c) ==
  /\ up /\ pc[c] = "fetch"
  /\ Goto(c, "idle")
  /\ call' = [call EXCEPT ![c] = NoCall]
  /\ UNCHANGED <<items, writer, previous, hadOld, disk, life, before, fetched>>

(* A known tag keeps its payload: only its url changes. *)
Register(c) ==
  /\ up /\ pc[c] = "register" /\ Lock(c)
  /\ LET t == call[c].tag
     IN /\ previous' = items[t]
        /\ items' = [items EXCEPT ![t] =
             [url |-> call[c].url,
              version |-> IF @ = Nil THEN Nil ELSE @.version]]
  /\ Goto(c, "save")
  /\ UNCHANGED <<hadOld, call, disk, life, fetched>>

-----------------------------------------------------------------------------
(* Download, under the lock.                                               *)

SetPayloadAside(c) ==
  /\ up /\ pc[c] = "store" /\ Lock(c)
  /\ spare' = payload[call[c].tag]
  /\ payload' = [payload EXCEPT ![call[c].tag] = Nil]
  /\ Goto(c, "place")
  /\ UNCHANGED <<items, previous, hadOld, call, index, backup, life, fetched>>

(* The old payload cannot be set aside: nothing has changed yet. *)
SetPayloadAsideFails(c) ==
  /\ up /\ pc[c] = "store" /\ writer = Nil /\ MayFail
  /\ Goto(c, "idle")
  /\ call' = [call EXCEPT ![c] = NoCall]
  /\ UNCHANGED <<items, writer, previous, hadOld, disk, life, before, fetched>>

PlacePayload(c) ==
  /\ up /\ pc[c] = "place"
  /\ LET t == call[c].tag
     IN /\ payload' = [payload EXCEPT ![t] = call[c].version]
        /\ previous' = items[t]
        /\ items' = [items EXCEPT ![t] =
             [url |-> call[c].url, version |-> call[c].version]]
  /\ Goto(c, "save")
  /\ UNCHANGED <<writer, hadOld, call, index, backup, spare, life, before,
                 fetched>>

PlacePayloadFails(c) ==
  /\ up /\ pc[c] = "place" /\ MayFail
  /\ payload' = [payload EXCEPT ![call[c].tag] = spare]
  /\ Unlock(c)
  /\ UNCHANGED <<items, index, backup, life, before, fetched>>

-----------------------------------------------------------------------------
(* saveIndexLocked: the new index is in a temporary file before the old    *)
(* backup is removed.                                                      *)

RemoveBackup(c) ==
  /\ up /\ pc[c] = "save"
  /\ backup' = Nil
  /\ Goto(c, "aside")
  /\ UNCHANGED <<memory, index, payload, spare, life, before, fetched>>

SetIndexAside(c) ==
  /\ up /\ pc[c] = "aside"
  /\ IF index = Nil THEN UNCHANGED <<index, backup, hadOld>>
     ELSE index' = Nil /\ backup' = index /\ hadOld' = TRUE
  /\ Goto(c, "rename")
  /\ UNCHANGED <<items, writer, previous, call, payload, spare, life, before,
                 fetched>>

PlaceIndex(c) ==
  /\ up /\ pc[c] = "rename"
  /\ index' = items
  /\ Goto(c, "saved")
  /\ UNCHANGED <<memory, backup, payload, spare, life, before, fetched>>

(* Mutant: the old index is not moved back. *)
SaveFailsHalfway(c) ==
  /\ up /\ pc[c] \in {"save", "aside", "rename"} /\ MayFail
  /\ hadOld' = FALSE
  /\ backup' = IF hadOld THEN Nil ELSE backup
  /\ Goto(c, "undo")
  /\ UNCHANGED <<items, writer, previous, call, index, payload, spare, life,
                 before, fetched>>

(* Any of its steps fails; an index that was set aside is moved back. *)
SaveFails(c) ==
  /\ up /\ pc[c] \in {"save", "aside", "rename"} /\ MayFail
  /\ IF hadOld THEN index' = backup /\ backup' = Nil /\ hadOld' = FALSE
     ELSE UNCHANGED <<index, backup, hadOld>>
  /\ Goto(c, "undo")
  /\ UNCHANGED <<items, writer, previous, call, payload, spare, life, before,
                 fetched>>

(* A download that could not be recorded is undone: its payload is removed *)
(* before the old one is moved back.                                       *)
UndoPayload(c) ==
  /\ up /\ pc[c] = "undo" /\ call[c].version # Nil
  /\ payload' = [payload EXCEPT ![call[c].tag] = Nil]
  /\ Goto(c, "restore")
  /\ UNCHANGED <<memory, index, backup, spare, life, before, fetched>>

Undoing(c) ==
  \/ pc[c] = "restore"
  \/ pc[c] = "undo" /\ call[c].version = Nil

(* Mutant: the registry is not rolled back. *)
UndoForgetsItem(c) ==
  /\ up /\ Undoing(c)
  /\ IF call[c].version = Nil THEN UNCHANGED payload
     ELSE payload' = [payload EXCEPT ![call[c].tag] = spare]
  /\ Unlock(c)
  /\ UNCHANGED <<items, index, backup, life, before, fetched>>

(* Register and Download undo what they did, and report the error. *)
Undo(c) ==
  /\ up /\ Undoing(c)
  /\ IF call[c].version = Nil THEN UNCHANGED payload
     ELSE payload' = [payload EXCEPT ![call[c].tag] = spare]
  /\ items' = [items EXCEPT ![call[c].tag] = previous]
  /\ Unlock(c)
  /\ UNCHANGED <<index, backup, life, before, fetched>>

Finish(c) ==
  /\ up /\ pc[c] = "saved"
  /\ backup' = Nil
  /\ Unlock(c)
  /\ before' = [items |-> items, payload |-> payload]
  /\ UNCHANGED <<items, index, payload, life, fetched>>
-----------------------------------------------------------------------------
(* The process ends anywhere, and a later one loads what it finds.         *)

Crash ==
  /\ up /\ crashes < MaxCrashes
  /\ up' = FALSE /\ crashes' = crashes + 1
  /\ died' = IF writer = Nil THEN "idle" ELSE pc[writer]
  /\ items' = Empty /\ writer' = Nil /\ spare' = Nil
  /\ previous' = Nil /\ hadOld' = FALSE
  /\ call' = [c \in Calls |-> NoCall]
  /\ pc' = [c \in Calls |-> "idle"]
  /\ UNCHANGED <<index, backup, payload, before, fetched>>

(* Mutant: index.json.bak is not looked at. *)
RestartIgnoresBackup ==
  /\ ~up /\ up' = TRUE
  /\ items' = IF index # Nil THEN index ELSE Empty
  /\ UNCHANGED <<writer, previous, hadOld, call, disk, pc, crashes, died,
                 before, fetched>>

(* NewManager and loadIndex. *)
Restart ==
  /\ ~up /\ up' = TRUE
  /\ items' = IF index # Nil THEN index
              ELSE IF backup # Nil THEN backup ELSE Empty
  /\ UNCHANGED <<writer, previous, hadOld, call, disk, pc, crashes, died,
                 before, fetched>>

-----------------------------------------------------------------------------
Next ==
  \/ \E c \in Calls :
       \/ \E t \in Tags, u \in Urls : Arrives(c, t, u)
       \/ \E v \in Versions : Fetch(c, v)
       \/ FetchFails(c) \/ Register(c)
       \/ SetPayloadAside(c) \/ SetPayloadAsideFails(c)
       \/ PlacePayload(c) \/ PlacePayloadFails(c)
       \/ RemoveBackup(c) \/ SetIndexAside(c) \/ PlaceIndex(c)
       \/ SaveFails(c) \/ UndoPayload(c) \/ Undo(c) \/ Finish(c)
  \/ Crash \/ Restart

Spec == Init /\ [][Next]_vars

-----------------------------------------------------------------------------
(* Properties.                                                             *)

(* "This keeps the index and bytes consistent if the disk fills"           *)
(* (manager.go:288): as long as the process lives, whatever file operation *)
(* fails, at rest the registry, index.json and the payloads agree.         *)
BytesMatchIndex ==
  crashes = 0 /\ writer = Nil =>
    /\ index # Nil => index = items
    /\ index = Nil => items = Empty
    /\ \A t \in Tags :
         IF items[t] = Nil THEN payload[t] = Nil ELSE payload[t] = items[t].version

(* A call that reports an error has changed neither registry nor payloads. *)
FailedCallChangesNothing ==
  [][\A c \in Calls :
       up' /\ pc[c] \in {"place", "undo", "restore"} /\ pc'[c] = "idle" =>
         items' = before.items /\ payload' = before.payload]_vars

(* A process that starts after a crash finds what the calls that returned  *)
(* left, registry and payloads, but for the one tag whose call was under   *)
(* way.  What that call has added to the registry has its payload.  The    *)
(* tag's payload is the old one, the new one, or, if the process died      *)
(* between the two renames of a download or of its rollback, gone: the old *)
(* one is in a file with a fresh name that nobody looks for.  All this is  *)
(* promised once: after a recovery from the backup the next save removes   *)
(* that backup first (manager.go:135), and a second crash before the new   *)
(* index is in place finds neither.                                        *)
Recovered(registry, place) ==
  LET Touched(t) == \/ registry[t] # before.items[t]
                    \/ payload[t] # before.payload[t]
  IN /\ \A s, t \in Tags : Touched(s) /\ Touched(t) => s = t
     /\ \A t \in Tags :
          /\ registry[t] # before.items[t] =>
               registry[t] # Nil /\ payload[t] = registry[t].version
          /\ payload[t] = Nil /\ before.payload[t] # Nil =>
               place \in {"place", "restore"}
RestartRecovers ==
  [][crashes = 1 /\ ~up /\ up' => Recovered(items', died)]_vars
=============================================================================
