----------------------------- MODULE SelfUpdate -----------------------------
(***************************************************************************)
(* How the application updates itself: the Update RPC of the core          *)
(* (grpc_server/update.go), which checks for a release and downloads its   *)
(* package for one session, and the updater (cmd/updater/updater.go),      *)
(* which replaces the installation when the application is closed.         *)
(*                                                                         *)
(* A release is its version; its URLs, checksum and bytes are left out, a  *)
(* download whose digest differs being one that fails.  The sessions are   *)
(* in the memory of the core, the package and the installation are files.  *)
(* The updater runs while the application is closed (main.go of the        *)
(* updater: "main prog quit and run"), and one at a time.                  *)
(***************************************************************************)
EXTENDS Naturals, Sequences, FiniteSets

CONSTANTS Sessions,     \* session ids the client makes up
          Calls,        \* handler goroutines
          MaxVersion,   \* bound: the versions there will ever be
          PreReleases,  \* ... that are pre-releases
          Portless,     \* ... without an asset for this platform
          Unsummed,     \* ... without published checksums
          MaxSessions,  \* maxUpdateSessions
          Shipped,      \* top-level entries of every package
          Stale,        \* entries of older layouts that an update removes
          Core,         \* the entry that holds the core
          Installed,    \* the versions that may be installed at first
          Idle          \* no call, no session

ASSUME UpdateAssumption ==
  /\ MaxVersion \in Nat \ {0} /\ MaxSessions \in Nat \ {0}
  /\ Core \in Shipped /\ Shipped \cap Stale = {}
  /\ Idle \notin Sessions /\ Installed \subseteq 1..MaxVersion

Versions == 1..MaxVersion
Entries == Shipped \cup Stale

VARIABLES
  listed,   \* GitHub's releases, the latest publication first
  running,  \* CurrentVersion of the core that runs, or 0
  table,    \* updateState.sessions: the release each may download, or 0
  older,    \* createdAt: pairs of sessions in the table
  call,     \* what each goroutine serves
  shown,    \* history: the release each session was shown last, or 0
  begun,    \* history: downloads begun since (capped at 2)
  package,  \* nekoray-update.*, or 0
  install,  \* the version of each entry of the installation, or 0
  updater,  \* the updater, its backup directory and what it has left to do
  before,   \* history: the installation when it began
  ran,      \* history: the version that ran last
  damaged   \* history: the updater was killed half-way, or could not restore

sessions == <<table, older>>
server == <<sessions, call, shown, begun>>
files == <<package, install>>
vars == <<listed, running, server, files, updater, before, ran, damaged>>

NoCall == [at |-> "idle", session |-> Idle, version |-> 0]
NoUpdater == [at |-> "idle", version |-> 0, todo |-> {},
              backup |-> [e \in Entries |-> 0]]

Init ==
  /\ running \in Installed /\ listed = <<running>> /\ ran = running
  /\ table = [s \in Sessions |-> 0] /\ older = {}
  /\ call = [c \in Calls |-> NoCall]
  /\ shown = table /\ begun = table
  /\ package = 0 /\ install = [e \in Entries |-> running]
  /\ updater = NoUpdater /\ before = install /\ damaged = FALSE

-----------------------------------------------------------------------------
(* Check.                                                                  *)

Held == {s \in Sessions : table[s] # 0}

Discard(s) ==
  /\ table' = [table EXCEPT ![s] = 0]
  /\ older' = {p \in older : s \notin {p[1], p[2]}}

(* The first release in GitHub's order that is for us: none if that is not *)
(* newer than what runs, or has no asset while the next is not newer.      *)
Suits(pre, v) == (v \in PreReleases => pre) /\ (v \in Portless => v <= running)
First(pre, v) ==
  \E i \in DOMAIN listed :
    /\ listed[i] = v /\ Suits(pre, v)
    /\ \A j \in DOMAIN listed : j < i => ~Suits(pre, listed[j])

(* Mutant: a release is offered although it is not newer. *)
OfferAny(pre) ==
  IF \E v \in Versions : First(pre, v)
  THEN CHOOSE v \in Versions : First(pre, v) ELSE 0

Offer(pre) ==
  IF \E v \in Versions : First(pre, v) /\ v > running
  THEN CHOOSE v \in Versions : First(pre, v) /\ v > running ELSE 0

Using(s) == {c \in Calls : call[c].session = s}

(* The earlier result of the session is discarded first.  A client does    *)
(* not check twice at once under one id.                                   *)
CheckBegins(c, s) ==
  /\ running # 0 /\ call[c] = NoCall /\ Using(s) = {}
  /\ Discard(s)
  /\ call' = [call EXCEPT ![c] = [NoCall EXCEPT !.at = "ask", !.session = s]]
  /\ shown' = [shown EXCEPT ![s] = 0] /\ begun' = [begun EXCEPT ![s] = 0]
  /\ UNCHANGED <<listed, running, files, updater, before, ran, damaged>>

CheckAnswers(c, pre) ==
  /\ call[c].at = "ask"
  /\ call' = [call EXCEPT ![c] =
               IF Offer(pre) = 0 THEN NoCall
               ELSE [@ EXCEPT !.at = "insert", !.version = Offer(pre)]]
  /\ UNCHANGED <<listed, running, sessions, shown, begun, files, updater,
                 before, ran, damaged>>

(* The session takes its place, the youngest, beside those that stay. *)
Insert(s, v, stay) ==
  /\ table' = [t \in Sessions |->
                IF t = s THEN v ELSE IF t \in stay THEN table[t] ELSE 0]
  /\ older' = {p \in older : {p[1], p[2]} \subseteq stay}
                 \cup {<<t, s>> : t \in stay}

(* Mutant: the table grows without bound. *)
InsertUnbounded(c) ==
  /\ call[c].at = "insert"
  /\ Insert(call[c].session, call[c].version, Held \ {call[c].session})
  /\ shown' = [shown EXCEPT ![call[c].session] = call[c].version]
  /\ call' = [call EXCEPT ![c] = NoCall]
  /\ UNCHANGED <<listed, running, begun, files, updater, before, ran, damaged>>

(* Under the lock: sessions past their TTL go, whoever is older than one   *)
(* of them with it; then the oldest if the table is full.                  *)
Evictions(young) ==
  IF Cardinality(young) < MaxSessions THEN {{}}
  ELSE {{s} : s \in {t \in young : \A r \in young : <<r, t>> \notin older}}

InsertSession(c) ==
  /\ call[c].at = "insert"
  /\ \E expired \in SUBSET Held :
       /\ \A p \in older : p[2] \in expired => p[1] \in expired
       /\ \E evicted \in Evictions(Held \ expired) :
            Insert(call[c].session, call[c].version,
                   Held \ (expired \cup evicted \cup {call[c].session}))
  /\ shown' = [shown EXCEPT ![call[c].session] = call[c].version]
  /\ call' = [call EXCEPT ![c] = NoCall]
  /\ UNCHANGED <<listed, running, begun, files, updater, before, ran, damaged>>

(* The network, an answer other than 200, a checksum file without the      *)
(* asset, a digest that differs, a file operation that fails.              *)
CallFails(c) ==
  /\ call[c].at \in {"ask", "fetch"}
  /\ call' = [call EXCEPT ![c] = NoCall]
  /\ UNCHANGED <<listed, running, sessions, shown, begun, files, updater,
                 before, ran, damaged>>

-----------------------------------------------------------------------------
(* Download.                                                               *)

Fetch(c, s, v) ==
  /\ begun' = [begun EXCEPT ![s] = IF @ < 2 THEN @ + 1 ELSE 2]
  /\ call' = [call EXCEPT ![c] =
                [at |-> "fetch", session |-> s, version |-> v]]
  /\ UNCHANGED <<listed, running, shown, files, updater, before, ran, damaged>>

MayDownload(c, s) ==
  running # 0 /\ call[c] = NoCall /\ \A d \in Using(s) : call[d].at = "fetch"

(* Mutants: the session is looked up but not consumed; one result is kept, *)
(* for whoever asks.                                                       *)
DownloadKeepsSession(c, s) ==
  /\ MayDownload(c, s) /\ table[s] # 0
  /\ Fetch(c, s, table[s]) /\ UNCHANGED sessions

DownloadLatest(c, s) ==
  /\ MayDownload(c, s)
  /\ \E t \in Held :
       /\ \A r \in Held : <<t, r>> \notin older
       /\ Fetch(c, s, table[t])
  /\ table' = [t \in Sessions |-> 0] /\ older' = {}

(* The session is consumed first; a release without checksums is refused.  *)
Download(c, s) ==
  /\ MayDownload(c, s) /\ table[s] # 0
  /\ Discard(s)
  /\ \/ table[s] \notin Unsummed /\ Fetch(c, s, table[s])
     \/ /\ table[s] \in Unsummed
        /\ UNCHANGED <<listed, running, call, shown, begun, files, updater,
                       before, ran, damaged>>

(* The digest is that of the release: the package is renamed into place.   *)
PlacePackage(c) ==
  /\ call[c].at = "fetch"
  /\ package' = call[c].version
  /\ call' = [call EXCEPT ![c] = NoCall]
  /\ UNCHANGED <<listed, running, sessions, shown, begun, install, updater,
                 before, ran, damaged>>

-----------------------------------------------------------------------------
(* The application and the releases around it.                             *)

Publish(v) ==
  /\ v \notin {listed[i] : i \in DOMAIN listed}
  /\ listed' = <<v>> \o listed
  /\ UNCHANGED <<running, server, files, updater, before, ran, damaged>>

(* The core ends with the application, at any moment. *)
AppCloses ==
  /\ running # 0 /\ running' = 0
  /\ table' = [s \in Sessions |-> 0] /\ older' = {}
  /\ call' = [c \in Calls |-> NoCall]
  /\ UNCHANGED <<listed, shown, begun, files, updater, before, ran, damaged>>

AppOpens ==
  /\ running = 0 /\ updater.at = "idle" /\ install[Core] # 0
  /\ running' = install[Core] /\ ran' = install[Core]
  /\ UNCHANGED <<listed, server, files, updater, before, damaged>>

-----------------------------------------------------------------------------
(* runUpdater and replacePayload.                                          *)

Replaced == [e \in Entries |-> IF e \in Shipped THEN updater.version ELSE 0]
Ended == updater' = NoUpdater

(* The package is extracted next to the installation and has a payload.    *)
UpdaterBegins ==
  /\ running = 0 /\ updater.at = "idle" /\ package # 0
  /\ updater' = [NoUpdater EXCEPT !.at = "backup", !.version = package,
                                  !.todo = Entries]
  /\ before' = install
  /\ UNCHANGED <<listed, running, server, files, ran, damaged>>

BackUp(e) ==
  /\ updater.at = "backup" /\ e \in updater.todo
  /\ updater' = [updater EXCEPT !.todo = @ \ {e}, !.backup[e] = install[e]]
  /\ install' = [install EXCEPT ![e] = 0]
  /\ UNCHANGED <<listed, running, server, package, before, ran, damaged>>

BackedUp ==
  /\ updater.at = "backup" /\ updater.todo = {}
  /\ updater' = [updater EXCEPT !.at = "install", !.todo = Shipped]
  /\ UNCHANGED <<listed, running, server, files, before, ran, damaged>>

InstallEntry(e) ==
  /\ updater.at = "install" /\ e \in updater.todo
  /\ updater' = [updater EXCEPT !.todo = @ \ {e}]
  /\ install' = [install EXCEPT ![e] = updater.version]
  /\ UNCHANGED <<listed, running, server, package, before, ran, damaged>>

(* Mutant: what was already installed is not removed, and stays.           *)
RollbackKeepsInstalled(stuck) ==
  /\ updater.at \in {"backup", "install"} /\ updater.todo # {}
  /\ install' = [e \in Entries |->
                   IF install[e] = 0 /\ e \notin stuck THEN updater.backup[e]
                   ELSE install[e]]
  /\ damaged' = (damaged \/ \E e \in stuck : updater.backup[e] # 0)
  /\ Ended
  /\ UNCHANGED <<listed, running, server, package, before, ran>>

(* A rename fails: what was installed is removed, every backup is renamed  *)
(* back, and the backup directory is deleted with what could not be.       *)
Rollback(stuck) ==
  /\ updater.at \in {"backup", "install"} /\ updater.todo # {}
  /\ LET kept == [e \in Entries |-> IF updater.at = "install" THEN 0
                                    ELSE install[e]]
     IN install' = [e \in Entries |->
                      IF updater.backup[e] # 0 /\ e \notin stuck
                      THEN updater.backup[e] ELSE kept[e]]
  /\ damaged' = (damaged \/ \E e \in stuck : updater.backup[e] # 0)
  /\ Ended
  /\ UNCHANGED <<listed, running, server, package, before, ran>>

(* Everything is in place: the backups, then the package, are removed. *)
Commit ==
  /\ updater.at = "install" /\ updater.todo = {}
  /\ updater' = [updater EXCEPT !.at = "clean"]
  /\ damaged' = FALSE
  /\ UNCHANGED <<listed, running, server, files, before, ran>>

RemovePackage ==
  /\ updater.at = "clean"
  /\ package' = 0
  /\ Ended
  /\ UNCHANGED <<listed, running, server, install, before, ran, damaged>>

(* Killed: what it had set aside stays in a directory no code looks at. *)
UpdaterDies ==
  /\ updater.at # "idle"
  /\ damaged' = (damaged \/ install \notin {before, Replaced})
  /\ Ended
  /\ UNCHANGED <<listed, running, server, files, before, ran>>

-----------------------------------------------------------------------------
Serve ==
  \E c \in Calls :
    \/ \E s \in Sessions : CheckBegins(c, s) \/ Download(c, s)
    \/ \E pre \in BOOLEAN : CheckAnswers(c, pre)
    \/ InsertSession(c) \/ CallFails(c) \/ PlacePackage(c)

Replace ==
  \/ UpdaterBegins \/ BackedUp \/ Commit \/ RemovePackage \/ UpdaterDies
  \/ \E e \in Entries : BackUp(e) \/ InstallEntry(e)
  \/ \E stuck \in SUBSET Entries : Rollback(stuck)

Next ==
  \/ Serve \/ Replace \/ AppCloses \/ AppOpens
  \/ \E v \in Versions : Publish(v)

Spec == Init /\ [][Next]_vars

-----------------------------------------------------------------------------
(* Properties.                                                             *)

(* "Keeping this state per session prevents a concurrent check in another  *)
(* UI/request from silently changing what a Download call installs"        *)
(* (update.go:29): the package a session downloads is the one it was shown.*)
DownloadsWhatWasShown ==
  [][\A c \in Calls :
       call[c].at = "fetch" /\ call'[c] # call[c] /\ package' # package =>
         package' = shown[call[c].session]]_vars

(* "This prevents replay and makes concurrent Download calls deterministic"*)
(* (update.go:292): what a check found is downloaded once, also when the   *)
(* table is full and sessions are evicted (update.go:228-238), and the     *)
(* table of what may still be downloaded stays within its limit.           *)
OneDownloadPerCheck ==
  (\A s \in Sessions : begun[s] <= 1) /\ Cardinality(Held) <= MaxSessions

(* Whatever was checked, downloaded, left lying around and interrupted,    *)
(* the application never goes back to an older version.                    *)
NeverDowngrades == [][ran' >= ran]_vars

(* "A partial update cannot strand the application in a mixed old/new      *)
(* state" (updater.go:84): when the updater has ended, the installation is *)
(* the one it found or the new one.  Not if it was killed half-way or a    *)
(* rename back failed (restoreBackups ignores that, and the backup is      *)
(* deleted), until a later update succeeds.                                *)
InstallationWhole ==
  updater.at = "idle" /\ ~damaged =>
    install = before \/ \E v \in Versions :
      install = [e \in Entries |-> IF e \in Shipped THEN v ELSE 0]
=============================================================================
