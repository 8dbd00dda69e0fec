-------------------------- MODULE SelfUpdateProofs --------------------------
(***************************************************************************)
(* Proofs about SelfUpdate, for any number of sessions, handlers, versions *)
(* and entries: a check is downloaded at most once and what is downloaded  *)
(* is what was shown, the installation ends whole, the application never   *)
(* goes back to an older version.                                          *)
(*                                                                         *)
(* SessionOK follows a session from its check to its download (what it was *)
(* shown, and that nobody else uses it during the check), VersionOK says   *)
(* that whatever is on its way to the installation is at least as new as   *)
(* what ran, UpdaterOK where every entry is while the updater replaces it. *)
(***************************************************************************)
EXTENDS SelfUpdate, FiniteSetTheorems, TLAPS

MaybeVersion == 0..MaxVersion

CallType == [at : {"idle", "ask", "insert", "fetch"},
             session : Sessions \cup {Idle}, version : MaybeVersion]

UpdaterType == [at : {"idle", "backup", "install", "clean"},
                version : MaybeVersion, todo : SUBSET Entries,
                backup : [Entries -> MaybeVersion]]

TypeOK ==
  /\ running \in MaybeVersion /\ ran \in MaybeVersion
  /\ table \in [Sessions -> MaybeVersion]
  /\ call \in [Calls -> CallType]
  /\ shown \in [Sessions -> MaybeVersion] /\ begun \in [Sessions -> 0..2]
  /\ package \in MaybeVersion /\ install \in [Entries -> MaybeVersion]
  /\ updater \in UpdaterType
  /\ before \in [Entries -> MaybeVersion] /\ damaged \in BOOLEAN

Checking(c) == call[c].at \in {"ask", "insert"}

(* A session is checked by one call and downloaded once. *)
SessionOK ==
  /\ \A c \in Calls : call[c].at # "idle" =>
       running # 0 /\ call[c].session \in Sessions
  /\ \A c, d \in Calls :
       Checking(c) /\ call[d].session = call[c].session => d = c
  /\ \A c \in Calls : call[c].at = "fetch" =>
       call[c].version = shown[call[c].session]
  /\ \A s \in Sessions : table[s] # 0 => shown[s] = table[s] /\ running # 0
  /\ \A s \in Sessions :
       \/ begun[s] = 0
       \/ /\ begun[s] = 1 /\ table[s] = 0
          /\ \A c \in Calls : Checking(c) => call[c].session # s

TableOK == IsFiniteSet(Held) /\ Cardinality(Held) <= MaxSessions

(* What may come to be installed is not older than what ran last. *)
VersionOK ==
  /\ running \in {0, ran}
  /\ \A c \in Calls :
       call[c].at \in {"insert", "fetch"} => call[c].version > ran
  /\ \A s \in Sessions : table[s] # 0 => table[s] > ran
  /\ package # 0 => package >= ran
  /\ \A v \in {install[Core], updater.backup[Core]} : v # 0 =>
       v >= ran /\ (package # 0 => package >= v)
  /\ running # 0 => install[Core] = ran

(* Where the old and the new entries are. *)
Whole(v) == install = [e \in Entries |-> IF e \in Shipped THEN v ELSE 0]

UpdaterOK ==
  /\ updater.at # "idle" =>
       running = 0 /\ package # 0 /\ updater.version = package
  /\ updater.at = "idle" => updater = NoUpdater
  /\ updater.at = "backup" => \A e \in Entries :
       IF e \in updater.todo
       THEN install[e] = before[e] /\ updater.backup[e] = 0
       ELSE install[e] = 0 /\ updater.backup[e] = before[e]
  /\ updater.at = "install" =>
       /\ updater.todo \subseteq Shipped
       /\ \A e \in Entries :
            /\ updater.backup[e] = before[e]
            /\ install[e] = IF e \in Shipped \ updater.todo
                            THEN updater.version ELSE 0
  /\ updater.at = "clean" => Whole(updater.version)

IInv ==
  /\ TypeOK
  /\ SessionOK
  /\ TableOK
  /\ VersionOK
  /\ UpdaterOK
  /\ InstallationWhole

-----------------------------------------------------------------------------
(* The start satisfies the invariant.                                      *)
LEMMA InitIInv == Init => IInv
<1> SUFFICES ASSUME Init PROVE IInv
  OBVIOUS
<1> USE UpdateAssumption
    DEF Init, NoCall, NoUpdater, MaybeVersion, Versions, Entries
<1>1. running \in Versions
  OBVIOUS
<1>2. TypeOK
  <2>1. call \in [Calls -> CallType]
    BY UpdateAssumption DEF CallType
  <2>2. updater \in UpdaterType
    <3>1. 0 \in MaybeVersion
      OBVIOUS
    <3>2. [e \in Entries |-> 0] \in [Entries -> MaybeVersion]
      BY <3>1
    <3>3. updater = NoUpdater
      OBVIOUS
    <3> HIDE DEF Init, MaybeVersion, Entries
    <3>4. QED BY <3>1, <3>2, <3>3 DEF UpdaterType
  <2>3. running \in MaybeVersion /\ ran \in MaybeVersion
    BY <1>1
  <2>4. /\ table \in [Sessions -> MaybeVersion] /\ shown = table
        /\ begun \in [Sessions -> 0..2] /\ package \in MaybeVersion
    OBVIOUS
  <2>5. damaged \in BOOLEAN
    OBVIOUS
  <2>6. install \in [Entries -> MaybeVersion] /\ before = install
    <3>1. install = [e \in Entries |-> running] /\ before = install
      OBVIOUS
    <3> HIDE DEF Init, Entries, MaybeVersion
    <3>2. QED BY <2>3, <3>1
  <2> HIDE DEF Init
  <2>7. QED BY <2>1, <2>2, <2>3, <2>4, <2>6, <2>5 DEF TypeOK
<1>3. SessionOK
  BY DEF SessionOK, Checking
<1>4. TableOK
  <2>1. Held = {}
    BY DEF Held
  <2>2. QED BY <2>1, FS_EmptySet DEF TableOK
<1>5. VersionOK
  BY <1>1 DEF VersionOK
<1>6. UpdaterOK /\ InstallationWhole
  BY DEF UpdaterOK, InstallationWhole
<1>7. QED BY <1>2, <1>3, <1>4, <1>5, <1>6 DEF IInv

(* A release that is offered is newer than the one that runs.              *)
LEMMA OfferIsNewer ==
  ASSUME NEW pre \in BOOLEAN
  PROVE  /\ Offer(pre) \in MaybeVersion
         /\ Offer(pre) # 0 => Offer(pre) > running
<1>1. CASE \E v \in Versions : First(pre, v) /\ v > running
  <2> DEFINE o == CHOOSE v \in Versions : First(pre, v) /\ v > running
  <2>1. o \in Versions /\ o > running
    BY <1>1
  <2>2. Offer(pre) = o
    BY <1>1 DEF Offer
  <2> HIDE DEF o
  <2>3. QED BY <2>1, <2>2, UpdateAssumption DEF Versions, MaybeVersion
<1>2. CASE ~\E v \in Versions : First(pre, v) /\ v > running
  BY <1>2, UpdateAssumption DEF Offer, MaybeVersion
<1>3. QED BY <1>1, <1>2

(* Once the table has been swept there is room for one more session.       *)
LEMMA RoomForOne ==
  ASSUME TableOK, NEW expired \in SUBSET Held,
         NEW evicted \in Evictions(Held \ expired),
         NEW stay \in SUBSET (Held \ (expired \cup evicted))
  PROVE  IsFiniteSet(stay) /\ Cardinality(stay) < MaxSessions
<1> DEFINE young == Held \ expired
<1>1. /\ IsFiniteSet(Held) /\ Cardinality(Held) <= MaxSessions
      /\ Cardinality(Held) \in Nat /\ MaxSessions \in Nat
  BY UpdateAssumption, FS_CardinalityType DEF TableOK
<1>2. /\ IsFiniteSet(young) /\ Cardinality(young) <= MaxSessions
      /\ Cardinality(young) \in Nat
  <2>1. young \subseteq Held
    OBVIOUS
  <2>2. QED BY <1>1, <2>1, FS_Subset, FS_CardinalityType
<1>3. CASE Cardinality(young) < MaxSessions
  <2>1. stay \subseteq young
    OBVIOUS
  <2>2. /\ IsFiniteSet(stay) /\ Cardinality(stay) \in Nat
        /\ Cardinality(stay) <= Cardinality(young)
    BY <1>2, <2>1, FS_Subset, FS_CardinalityType
  <2>3. QED BY <1>1, <1>2, <1>3, <2>2
<1>4. CASE ~(Cardinality(young) < MaxSessions)
  <2>1. PICK s \in young : evicted = {s}
    BY <1>4 DEF Evictions
  <2>2. stay \subseteq young \ {s}
    BY <2>1
  <2>3. /\ IsFiniteSet(young \ {s})
        /\ Cardinality(young \ {s}) = Cardinality(young) - 1
    BY <1>2, <2>1, FS_RemoveElement
  <2>4. /\ IsFiniteSet(stay) /\ Cardinality(stay) \in Nat
        /\ Cardinality(stay) <= Cardinality(young \ {s})
    BY <2>2, <2>3, FS_Subset, FS_CardinalityType
  <2> HIDE DEF young
  <2>5. QED BY <1>1, <1>2, <2>3, <2>4
<1>5. QED BY <1>3, <1>4

(* A session leaves the table.                                             *)
LEMMA FewerHeld == ASSUME TableOK, Held' \subseteq Held PROVE TableOK'
<1>1. IsFiniteSet(Held') /\ Cardinality(Held') <= Cardinality(Held)
  BY FS_Subset DEF TableOK
<1>2. /\ Cardinality(Held) \in Nat /\ Cardinality(Held') \in Nat
      /\ MaxSessions \in Nat
  BY <1>1, UpdateAssumption, FS_CardinalityType DEF TableOK
<1>3. QED BY <1>1, <1>2 DEF TableOK

(* A check discards its session's earlier result.                          *)
LEMMA CheckBeginsKeepsIInv ==
  ASSUME IInv, NEW c \in Calls, NEW s \in Sessions, CheckBegins(c, s)
  PROVE  IInv'
<1> USE UpdateAssumption
    DEF MaybeVersion, Versions, Entries, NoCall, NoUpdater, files, sessions,
        server, CheckBegins, Discard, Using
<1>0. /\ TypeOK /\ SessionOK /\ TableOK /\ VersionOK /\ UpdaterOK
      /\ InstallationWhole
  BY DEF IInv
<1>1. TypeOK'
  <2>1. TypeOK
    BY <1>0
  <2>2. running' \in MaybeVersion /\ ran' \in MaybeVersion
    BY <2>1 DEF TypeOK, CallType, UpdaterType
  <2>3. table' \in [Sessions -> MaybeVersion]
    BY <2>1 DEF TypeOK, CallType, UpdaterType
  <2>4. call' \in [Calls -> CallType]
    BY <2>1 DEF TypeOK, CallType, UpdaterType
  <2>5. shown' \in [Sessions -> MaybeVersion] /\ begun' \in [Sessions -> 0..2]
    BY <2>1 DEF TypeOK, CallType, UpdaterType
  <2>6. package' \in MaybeVersion /\ install' \in [Entries -> MaybeVersion]
    BY <2>1 DEF TypeOK, CallType, UpdaterType
  <2>7. updater' \in UpdaterType
    BY <2>1 DEF TypeOK, CallType, UpdaterType
  <2>8. before' \in [Entries -> MaybeVersion] /\ damaged' \in BOOLEAN
    BY <2>1 DEF TypeOK, CallType, UpdaterType
  <2> HIDE DEF CheckBegins
  <2>9. QED
    BY <2>2, <2>3, <2>4, <2>5, <2>6, <2>7, <2>8
       DEF TypeOK, CallType, UpdaterType
<1>2. SessionOK'
  BY <1>0 DEF TypeOK, CallType, SessionOK, Checking
<1>3. TableOK'
  BY <1>0, FewerHeld DEF Held
<1>4. VersionOK'
  BY <1>0 DEF TypeOK, CallType, UpdaterType, SessionOK, VersionOK, UpdaterOK
<1>5. UpdaterOK'
  BY <1>0 DEF TypeOK, UpdaterType, SessionOK, UpdaterOK, Whole
<1>6. InstallationWhole'
  BY <1>0 DEF TypeOK, UpdaterType, UpdaterOK, InstallationWhole, Whole
<1>7. QED BY <1>1, <1>2, <1>3, <1>4, <1>5, <1>6 DEF IInv

(* GitHub answers.                                                         *)
LEMMA CheckAnswersKeepsIInv ==
  ASSUME IInv, NEW c \in Calls, NEW pre \in BOOLEAN, CheckAnswers(c, pre)
  PROVE  IInv'
<1> USE UpdateAssumption
    DEF MaybeVersion, Versions, Entries, NoCall, NoUpdater, files, sessions,
        server, CheckAnswers
<1>0. /\ TypeOK /\ SessionOK /\ TableOK /\ VersionOK /\ UpdaterOK
      /\ InstallationWhole
  BY DEF IInv
<1>1. Offer(pre) \in MaybeVersion /\ (Offer(pre) # 0 => Offer(pre) > running)
  BY OfferIsNewer
<1>2. TypeOK'
  <2>1. TypeOK
    BY <1>0
  <2>2. running' \in MaybeVersion /\ ran' \in MaybeVersion
    BY <2>1 DEF TypeOK, CallType, UpdaterType
  <2>3. table' \in [Sessions -> MaybeVersion]
    BY <2>1 DEF TypeOK, CallType, UpdaterType
  <2>4. call' \in [Calls -> CallType]
    <3> DEFINE after == IF Offer(pre) = 0 THEN NoCall
                        ELSE [call[c] EXCEPT !.at = "insert",
                                             !.version = Offer(pre)]
    <3>1. call \in [Calls -> CallType] /\ after \in CallType
      BY <2>1, <1>1 DEF TypeOK, CallType
    <3>2. call' = [call EXCEPT ![c] = after]
      OBVIOUS
    <3> HIDE DEF after, CallType, CheckAnswers
    <3>3. QED BY <3>1, <3>2
  <2>5. shown' \in [Sessions -> MaybeVersion] /\ begun' \in [Sessions -> 0..2]
    BY <2>1 DEF TypeOK, CallType, UpdaterType
  <2>6. package' \in MaybeVersion /\ install' \in [Entries -> MaybeVersion]
    BY <2>1 DEF TypeOK, CallType, UpdaterType
  <2>7. updater' \in UpdaterType
    BY <2>1 DEF TypeOK, CallType, UpdaterType
  <2>8. before' \in [Entries -> MaybeVersion] /\ damaged' \in BOOLEAN
    BY <2>1 DEF TypeOK, CallType, UpdaterType
  <2> HIDE DEF CheckAnswers
  <2>9. QED
    BY <2>2, <2>3, <2>4, <2>5, <2>6, <2>7, <2>8
       DEF TypeOK, CallType, UpdaterType
<1>3. SessionOK'
  BY <1>0, <1>1 DEF TypeOK, CallType, SessionOK, Checking
<1>4. TableOK'
  BY <1>0, <1>1, FewerHeld DEF Held
<1>5. VersionOK'
  BY <1>0, <1>1
     DEF TypeOK, CallType, UpdaterType, SessionOK, VersionOK, UpdaterOK
<1>6. UpdaterOK'
  BY <1>0, <1>1 DEF TypeOK, UpdaterType, SessionOK, UpdaterOK, Whole
<1>7. InstallationWhole'
  BY <1>0, <1>1 DEF TypeOK, UpdaterType, UpdaterOK, InstallationWhole, Whole
<1>8. QED BY <1>2, <1>3, <1>4, <1>5, <1>6, <1>7 DEF IInv

(* The check's result is put in the table.                                 *)
LEMMA InsertSessionKeepsIInv ==
  ASSUME IInv, NEW c \in Calls, InsertSession(c)
  PROVE  IInv'
<1> USE UpdateAssumption
    DEF MaybeVersion, Versions, Entries, NoCall, NoUpdater, files, sessions,
        server, InsertSession, Insert
<1>0. /\ TypeOK /\ SessionOK /\ TableOK /\ VersionOK /\ UpdaterOK
      /\ InstallationWhole
  BY DEF IInv
<1>1. PICK expired \in SUBSET Held :
         \E evicted \in Evictions(Held \ expired) :
           Insert(call[c].session, call[c].version,
                  Held \ (expired \cup evicted \cup {call[c].session}))
  OBVIOUS
<1>2. PICK evicted \in Evictions(Held \ expired) :
        Insert(call[c].session, call[c].version,
               Held \ (expired \cup evicted \cup {call[c].session}))
  BY <1>1
<1> DEFINE stay == Held \ (expired \cup evicted \cup {call[c].session})
<1>3. IsFiniteSet(stay) /\ Cardinality(stay) < MaxSessions
  BY <1>0, RoomForOne
<1>4. /\ call[c] \in CallType /\ call[c].version \in MaybeVersion
       /\ call[c].session \in Sessions /\ call[c].version > ran
       /\ ran \in MaybeVersion
  BY <1>0 DEF TypeOK, CallType, SessionOK, VersionOK
<1>5. table' = [t \in Sessions |->
                  IF t = call[c].session THEN call[c].version
                  ELSE IF t \in stay THEN table[t] ELSE 0]
  BY <1>2
<1>6. TypeOK'
  <2>1. TypeOK
    BY <1>0
  <2>2. running' \in MaybeVersion /\ ran' \in MaybeVersion
    BY <2>1 DEF TypeOK, CallType, UpdaterType
  <2>3. table' \in [Sessions -> MaybeVersion]
    BY <1>4, <1>5, <2>1 DEF TypeOK
  <2>4. call' \in [Calls -> CallType]
    BY <2>1 DEF TypeOK, CallType, UpdaterType
  <2>5. shown' \in [Sessions -> MaybeVersion] /\ begun' \in [Sessions -> 0..2]
    BY <1>4, <2>1 DEF TypeOK
  <2>6. package' \in MaybeVersion /\ install' \in [Entries -> MaybeVersion]
    BY <2>1 DEF TypeOK, CallType, UpdaterType
  <2>7. updater' \in UpdaterType
    BY <2>1 DEF TypeOK, CallType, UpdaterType
  <2>8. before' \in [Entries -> MaybeVersion] /\ damaged' \in BOOLEAN
    BY <2>1 DEF TypeOK, CallType, UpdaterType
  <2> HIDE DEF InsertSession
  <2>9. QED
    BY <2>2, <2>3, <2>4, <2>5, <2>6, <2>7, <2>8
       DEF TypeOK, CallType, UpdaterType
<1>7. SessionOK'
  BY <1>0 DEF TypeOK, CallType, SessionOK, Checking, VersionOK
<1>8. TableOK'
  <2>1. Held' = stay \cup {call[c].session} /\ call[c].session \notin stay
    BY <1>4, <1>5 DEF Held
  <2> HIDE DEF stay
  <2>2. /\ IsFiniteSet(Held')
        /\ Cardinality(Held') = Cardinality(stay) + 1
    BY <1>3, <2>1, FS_AddElement
  <2>3. Cardinality(stay) \in Nat /\ MaxSessions \in Nat
    BY <1>3, FS_CardinalityType
  <2>4. QED BY <1>3, <2>2, <2>3 DEF TableOK
<1>9. VersionOK'
  BY <1>0 DEF TypeOK, CallType, UpdaterType, SessionOK, VersionOK, UpdaterOK
<1>10. UpdaterOK'
  BY <1>0 DEF TypeOK, UpdaterType, SessionOK, UpdaterOK, Whole
<1>11. InstallationWhole'
  BY <1>0 DEF TypeOK, UpdaterType, UpdaterOK, InstallationWhole, Whole
<1>12. QED BY <1>6, <1>7, <1>8, <1>9, <1>10, <1>11 DEF IInv

(* A call fails.                                                           *)
LEMMA CallFailsKeepsIInv ==
  ASSUME IInv, NEW c \in Calls, CallFails(c)
  PROVE  IInv'
<1> USE UpdateAssumption
    DEF MaybeVersion, Versions, Entries, NoCall, NoUpdater, files, sessions,
        server, CallFails
<1>0. /\ TypeOK /\ SessionOK /\ TableOK /\ VersionOK /\ UpdaterOK
      /\ InstallationWhole
  BY DEF IInv
<1>1. TypeOK'
  BY <1>0 DEF TypeOK, CallType, UpdaterType
<1>2. SessionOK'
  BY <1>0 DEF TypeOK, CallType, SessionOK, Checking
<1>3. TableOK'
  BY <1>0, FewerHeld DEF Held
<1>4. VersionOK'
  BY <1>0 DEF TypeOK, CallType, UpdaterType, SessionOK, VersionOK, UpdaterOK
<1>5. UpdaterOK'
  BY <1>0 DEF TypeOK, UpdaterType, SessionOK, UpdaterOK, Whole
<1>6. InstallationWhole'
  BY <1>0 DEF TypeOK, UpdaterType, UpdaterOK, InstallationWhole, Whole
<1>7. QED BY <1>1, <1>2, <1>3, <1>4, <1>5, <1>6 DEF IInv

(* A download consumes its session.                                        *)
LEMMA DownloadKeepsIInv ==
  ASSUME IInv, NEW c \in Calls, NEW s \in Sessions, Download(c, s)
  PROVE  IInv'
<1> USE UpdateAssumption
    DEF MaybeVersion, Versions, Entries, NoCall, NoUpdater, files, sessions,
        server, Download, Discard, MayDownload, Using, Fetch
<1>0. /\ TypeOK /\ SessionOK /\ TableOK /\ VersionOK /\ UpdaterOK
      /\ InstallationWhole
  BY DEF IInv
<1>1. TypeOK'
  BY <1>0 DEF TypeOK, CallType, UpdaterType
<1>2. SessionOK'
  <2>1. CASE table[s] \in Unsummed
    <3>1. /\ UNCHANGED <<running, call, shown, begun>>
          /\ table' = [table EXCEPT ![s] = 0]
          /\ table \in [Sessions -> MaybeVersion]
      BY <1>0, <2>1 DEF TypeOK
    <3> HIDE DEF Download
    <3>2. QED BY <1>0, <3>1 DEF SessionOK, Checking
  <2>2. CASE table[s] \notin Unsummed
    <3>1. /\ table[s] # 0 /\ call[c] = NoCall
          /\ \A d \in Calls : call[d].session = s => call[d].at = "fetch"
          /\ call' = [call EXCEPT ![c] =
                       [at |-> "fetch", session |-> s, version |-> table[s]]]
          /\ begun' = [begun EXCEPT ![s] =
                         IF begun[s] < 2 THEN begun[s] + 1 ELSE 2]
          /\ table' = [table EXCEPT ![s] = 0]
          /\ UNCHANGED <<running, shown>>
      BY <2>2
    <3>2. /\ call \in [Calls -> CallType] /\ begun \in [Sessions -> 0..2]
          /\ table \in [Sessions -> MaybeVersion]
      BY <1>0 DEF TypeOK, CallType
    <3> HIDE DEF Download, MayDownload, Fetch, Discard, Using
    <3>3. SessionOK
      BY <1>0
    <3>4. /\ call'[c] = [at |-> "fetch", session |-> s, version |-> table[s]]
          /\ \A d \in Calls \ {c} : call'[d] = call[d]
          /\ begun[s] = 0 /\ begun'[s] = 1 /\ table'[s] = 0
          /\ \A t \in Sessions \ {s} :
               begun'[t] = begun[t] /\ table'[t] = table[t]
      BY <3>1, <3>2, <3>3 DEF SessionOK
    <3>5. /\ shown' = shown /\ running' = running /\ running # 0
          /\ shown[s] = table[s] /\ table[s] # 0
          /\ \A d \in Calls : call[d].session = s => call[d].at = "fetch"
      BY <3>1, <3>3 DEF SessionOK
    <3> HIDE <3>1
    <3>6. \A d \in Calls : Checking(d)' <=> d # c /\ Checking(d)
      BY <3>4 DEF Checking
    <3>7. \A d \in Calls : call'[d].at # "idle" =>
            running' # 0 /\ call'[d].session \in Sessions
      BY <3>3, <3>4, <3>5 DEF SessionOK
    <3>8. \A d, e \in Calls :
            Checking(d)' /\ call'[e].session = call'[d].session => e = d
      <4> SUFFICES ASSUME NEW d \in Calls, NEW e \in Calls, Checking(d)',
                          call'[e].session = call'[d].session
                   PROVE  e = d
        OBVIOUS
      <4>1. d # c /\ Checking(d) /\ call'[d] = call[d]
        BY <3>4, <3>6
      <4>2. call[d].session # s
        BY <3>5, <4>1 DEF Checking
      <4>3. e # c /\ call'[e] = call[e]
        BY <3>4, <4>1, <4>2
      <4>4. QED BY <3>3, <4>1, <4>3 DEF SessionOK
    <3>9. \A d \in Calls : call'[d].at = "fetch" =>
            call'[d].version = shown'[call'[d].session]
      BY <3>3, <3>4, <3>5 DEF SessionOK
    <3>10. \A t \in Sessions : table'[t] # 0 =>
             shown'[t] = table'[t] /\ running' # 0
      BY <3>3, <3>4, <3>5 DEF SessionOK
    <3>11. \A t \in Sessions :
             \/ begun'[t] = 0
             \/ /\ begun'[t] = 1 /\ table'[t] = 0
                /\ \A d \in Calls : Checking(d)' => call'[d].session # t
      <4>1. \A d \in Calls : Checking(d)' => call'[d].session # s
        BY <3>4, <3>5, <3>6 DEF Checking
      <4>2. QED BY <3>3, <3>4, <3>6, <4>1 DEF SessionOK
    <3>12. QED BY <3>7, <3>8, <3>9, <3>10, <3>11 DEF SessionOK
  <2>3. QED BY <2>1, <2>2
<1>3. TableOK'
  BY <1>0, FewerHeld DEF Held
<1>4. VersionOK'
  BY <1>0 DEF TypeOK, CallType, UpdaterType, SessionOK, VersionOK, UpdaterOK
<1>5. UpdaterOK'
  BY <1>0 DEF TypeOK, UpdaterType, SessionOK, UpdaterOK, Whole
<1>6. InstallationWhole'
  BY <1>0 DEF TypeOK, UpdaterType, UpdaterOK, InstallationWhole, Whole
<1>7. QED BY <1>1, <1>2, <1>3, <1>4, <1>5, <1>6 DEF IInv

(* The package is renamed into place.                                      *)
LEMMA PlacePackageKeepsIInv ==
  ASSUME IInv, NEW c \in Calls, PlacePackage(c)
  PROVE  IInv'
<1> USE UpdateAssumption
    DEF MaybeVersion, Versions, Entries, NoCall, NoUpdater, files, sessions,
        server, PlacePackage
<1>0. /\ TypeOK /\ SessionOK /\ TableOK /\ VersionOK /\ UpdaterOK
      /\ InstallationWhole
  BY DEF IInv
<1>1. TypeOK'
  BY <1>0 DEF TypeOK, CallType, UpdaterType
<1>2. SessionOK'
  BY <1>0 DEF TypeOK, CallType, SessionOK, Checking
<1>3. TableOK'
  BY <1>0, FewerHeld DEF Held
<1>4. VersionOK'
  BY <1>0 DEF TypeOK, CallType, UpdaterType, SessionOK, VersionOK, UpdaterOK
<1>5. UpdaterOK'
  BY <1>0 DEF TypeOK, UpdaterType, SessionOK, UpdaterOK, Whole
<1>6. InstallationWhole'
  BY <1>0 DEF TypeOK, UpdaterType, UpdaterOK, InstallationWhole, Whole
<1>7. QED BY <1>1, <1>2, <1>3, <1>4, <1>5, <1>6 DEF IInv

(* The application ends.                                                   *)
LEMMA AppClosesKeepsIInv ==
  ASSUME IInv, AppCloses
  PROVE  IInv'
<1> USE UpdateAssumption
    DEF MaybeVersion, Versions, Entries, NoCall, NoUpdater, files, sessions,
        server, AppCloses
<1>0. /\ TypeOK /\ SessionOK /\ TableOK /\ VersionOK /\ UpdaterOK
      /\ InstallationWhole
  BY DEF IInv
<1>1. TypeOK'
  BY <1>0 DEF TypeOK, CallType, UpdaterType
<1>2. SessionOK'
  BY <1>0 DEF TypeOK, CallType, SessionOK, Checking
<1>3. TableOK'
  BY <1>0, FewerHeld DEF Held
<1>4. VersionOK'
  BY <1>0 DEF TypeOK, CallType, UpdaterType, SessionOK, VersionOK, UpdaterOK
<1>5. UpdaterOK'
  BY <1>0 DEF TypeOK, UpdaterType, SessionOK, UpdaterOK, Whole
<1>6. InstallationWhole'
  BY <1>0 DEF TypeOK, UpdaterType, UpdaterOK, InstallationWhole, Whole
<1>7. QED BY <1>1, <1>2, <1>3, <1>4, <1>5, <1>6 DEF IInv

(* It is opened.                                                           *)
LEMMA AppOpensKeepsIInv ==
  ASSUME IInv, AppOpens
  PROVE  IInv'
<1> USE UpdateAssumption
    DEF MaybeVersion, Versions, Entries, NoCall, NoUpdater, files, sessions,
        server, AppOpens
<1>0. /\ TypeOK /\ SessionOK /\ TableOK /\ VersionOK /\ UpdaterOK
      /\ InstallationWhole
  BY DEF IInv
<1>1. TypeOK'
  BY <1>0 DEF TypeOK, CallType, UpdaterType
<1>2. SessionOK'
  BY <1>0 DEF TypeOK, CallType, SessionOK, Checking
<1>3. TableOK'
  BY <1>0, FewerHeld DEF Held
<1>4. VersionOK'
  BY <1>0 DEF TypeOK, CallType, UpdaterType, SessionOK, VersionOK, UpdaterOK
<1>5. UpdaterOK'
  BY <1>0 DEF TypeOK, UpdaterType, SessionOK, UpdaterOK, Whole
<1>6. InstallationWhole'
  BY <1>0 DEF TypeOK, UpdaterType, UpdaterOK, InstallationWhole, Whole
<1>7. QED BY <1>1, <1>2, <1>3, <1>4, <1>5, <1>6 DEF IInv

(* The updater finds a package.                                            *)
LEMMA UpdaterBeginsKeepsIInv ==
  ASSUME IInv, UpdaterBegins
  PROVE  IInv'
<1> USE UpdateAssumption
    DEF MaybeVersion, Versions, Entries, NoCall, NoUpdater, files, sessions,
        server, UpdaterBegins
<1>0. /\ TypeOK /\ SessionOK /\ TableOK /\ VersionOK /\ UpdaterOK
      /\ InstallationWhole
  BY DEF IInv
<1>1. TypeOK'
  BY <1>0 DEF TypeOK, CallType, UpdaterType
<1>2. SessionOK'
  BY <1>0 DEF TypeOK, CallType, SessionOK, Checking
<1>3. TableOK'
  BY <1>0, FewerHeld DEF Held
<1>4. VersionOK'
  BY <1>0 DEF TypeOK, CallType, UpdaterType, SessionOK, VersionOK, UpdaterOK
<1>5. UpdaterOK'
  BY <1>0 DEF TypeOK, UpdaterType, SessionOK, UpdaterOK, Whole
<1>6. InstallationWhole'
  BY <1>0 DEF TypeOK, UpdaterType, UpdaterOK, InstallationWhole, Whole
<1>7. QED BY <1>1, <1>2, <1>3, <1>4, <1>5, <1>6 DEF IInv

(* An entry is set aside.                                                  *)
LEMMA BackUpKeepsIInv ==
  ASSUME IInv, NEW e \in Entries, BackUp(e)
  PROVE  IInv'
<1> USE UpdateAssumption
    DEF MaybeVersion, Versions, Entries, NoCall, NoUpdater, files, sessions,
        server, BackUp
<1>0. /\ TypeOK /\ SessionOK /\ TableOK /\ VersionOK /\ UpdaterOK
      /\ InstallationWhole
  BY DEF IInv
<1>1. TypeOK'
  <2>1. TypeOK
    BY <1>0
  <2>2. running' \in MaybeVersion /\ ran' \in MaybeVersion
    BY <2>1 DEF TypeOK, CallType, UpdaterType
  <2>3. table' \in [Sessions -> MaybeVersion]
    BY <2>1 DEF TypeOK, CallType, UpdaterType
  <2>4. call' \in [Calls -> CallType]
    BY <2>1 DEF TypeOK, CallType, UpdaterType
  <2>5. shown' \in [Sessions -> MaybeVersion] /\ begun' \in [Sessions -> 0..2]
    BY <2>1 DEF TypeOK, CallType, UpdaterType
  <2>6. package' \in MaybeVersion /\ install' \in [Entries -> MaybeVersion]
    BY <2>1 DEF TypeOK, CallType, UpdaterType
  <2>7. updater' \in UpdaterType
    <3> DEFINE b == [updater.backup EXCEPT ![e] = install[e]]
               left == updater.todo \ {e}
    <3>1. /\ updater \in UpdaterType
          /\ updater.backup \in [Entries -> MaybeVersion]
          /\ left \in SUBSET Entries /\ install[e] \in MaybeVersion
      BY <2>1 DEF TypeOK, UpdaterType
    <3>2. b \in [Entries -> MaybeVersion]
      BY <3>1
    <3>3. updater' = [updater EXCEPT !.todo = left, !.backup = b]
      BY <3>1 DEF UpdaterType
    <3> HIDE DEF b, left, BackUp, Entries, MaybeVersion
    <3>4. QED BY <3>1, <3>2, <3>3 DEF UpdaterType
  <2>8. before' \in [Entries -> MaybeVersion] /\ damaged' \in BOOLEAN
    BY <2>1 DEF TypeOK, CallType, UpdaterType
  <2> HIDE DEF BackUp
  <2>9. QED
    BY <2>2, <2>3, <2>4, <2>5, <2>6, <2>7, <2>8
       DEF TypeOK, CallType, UpdaterType
<1>2. SessionOK'
  BY <1>0 DEF TypeOK, CallType, SessionOK, Checking
<1>3. TableOK'
  BY <1>0, FewerHeld DEF Held
<1>4. VersionOK'
  BY <1>0 DEF TypeOK, CallType, UpdaterType, SessionOK, VersionOK, UpdaterOK
<1>5. UpdaterOK'
  BY <1>0 DEF TypeOK, UpdaterType, SessionOK, UpdaterOK, Whole
<1>6. InstallationWhole'
  BY <1>0 DEF TypeOK, UpdaterType, UpdaterOK, InstallationWhole, Whole
<1>7. QED BY <1>1, <1>2, <1>3, <1>4, <1>5, <1>6 DEF IInv

(* All are.                                                                *)
LEMMA BackedUpKeepsIInv ==
  ASSUME IInv, BackedUp
  PROVE  IInv'
<1> USE UpdateAssumption
    DEF MaybeVersion, Versions, Entries, NoCall, NoUpdater, files, sessions,
        server, BackedUp
<1>0. /\ TypeOK /\ SessionOK /\ TableOK /\ VersionOK /\ UpdaterOK
      /\ InstallationWhole
  BY DEF IInv
<1>1. TypeOK'
  BY <1>0 DEF TypeOK, CallType, UpdaterType
<1>2. SessionOK'
  BY <1>0 DEF TypeOK, CallType, SessionOK, Checking
<1>3. TableOK'
  BY <1>0, FewerHeld DEF Held
<1>4. VersionOK'
  BY <1>0 DEF TypeOK, CallType, UpdaterType, SessionOK, VersionOK, UpdaterOK
<1>5. UpdaterOK'
  BY <1>0 DEF TypeOK, UpdaterType, SessionOK, UpdaterOK, Whole
<1>6. InstallationWhole'
  BY <1>0 DEF TypeOK, UpdaterType, UpdaterOK, InstallationWhole, Whole
<1>7. QED BY <1>1, <1>2, <1>3, <1>4, <1>5, <1>6 DEF IInv

(* An entry is put in place.                                               *)
LEMMA InstallEntryKeepsIInv ==
  ASSUME IInv, NEW e \in Entries, InstallEntry(e)
  PROVE  IInv'
<1> USE UpdateAssumption
    DEF MaybeVersion, Versions, Entries, NoCall, NoUpdater, files, sessions,
        server, InstallEntry
<1>0. /\ TypeOK /\ SessionOK /\ TableOK /\ VersionOK /\ UpdaterOK
      /\ InstallationWhole
  BY DEF IInv
<1>1. TypeOK'
  BY <1>0 DEF TypeOK, CallType, UpdaterType
<1>2. SessionOK'
  BY <1>0 DEF TypeOK, CallType, SessionOK, Checking
<1>3. TableOK'
  BY <1>0, FewerHeld DEF Held
<1>4. VersionOK'
  BY <1>0 DEF TypeOK, CallType, UpdaterType, SessionOK, VersionOK, UpdaterOK
<1>5. UpdaterOK'
  BY <1>0 DEF TypeOK, UpdaterType, SessionOK, UpdaterOK, Whole
<1>6. InstallationWhole'
  BY <1>0 DEF TypeOK, UpdaterType, UpdaterOK, InstallationWhole, Whole
<1>7. QED BY <1>1, <1>2, <1>3, <1>4, <1>5, <1>6 DEF IInv

(* A rename fails.                                                         *)
LEMMA RollbackKeepsIInv ==
  ASSUME IInv, NEW stuck \in SUBSET Entries, Rollback(stuck)
  PROVE  IInv'
<1> USE UpdateAssumption
    DEF MaybeVersion, Versions, Entries, NoCall, NoUpdater, files, sessions,
        server, Rollback, Ended
<1>0. /\ TypeOK /\ SessionOK /\ TableOK /\ VersionOK /\ UpdaterOK
      /\ InstallationWhole
  BY DEF IInv
<1>1. TypeOK'
  BY <1>0 DEF TypeOK, CallType, UpdaterType
<1>2. SessionOK'
  BY <1>0 DEF TypeOK, CallType, SessionOK, Checking
<1>3. TableOK'
  BY <1>0, FewerHeld DEF Held
<1>4. VersionOK'
  BY <1>0 DEF TypeOK, CallType, UpdaterType, SessionOK, VersionOK, UpdaterOK
<1>5. UpdaterOK'
  BY <1>0 DEF TypeOK, UpdaterType, SessionOK, UpdaterOK, Whole
<1>6. InstallationWhole'
  <2> SUFFICES ASSUME ~damaged' PROVE install' = before
    BY <1>0 DEF InstallationWhole
  <2>1. /\ install \in [Entries -> MaybeVersion]
        /\ before \in [Entries -> MaybeVersion]
        /\ updater.backup \in [Entries -> MaybeVersion]
    BY <1>0 DEF TypeOK, UpdaterType
  <2>2. \A e \in stuck : updater.backup[e] = 0
    OBVIOUS
  <2>3. install' = [e \in Entries |->
          IF updater.backup[e] # 0 /\ e \notin stuck THEN updater.backup[e]
          ELSE IF updater.at = "install" THEN 0 ELSE install[e]]
    OBVIOUS
  <2>4. updater.at \in {"backup", "install"}
    OBVIOUS
  <2>5. UpdaterOK
    BY <1>0
  <2> HIDE DEF Rollback
  <2>6. \A e \in Entries : install'[e] = before[e]
    <3>1. CASE updater.at = "backup"
      BY <2>2, <2>3, <2>5, <3>1 DEF UpdaterOK
    <3>2. CASE updater.at = "install"
      BY <2>2, <2>3, <2>5, <3>2 DEF UpdaterOK
    <3>3. QED BY <2>4, <3>1, <3>2
  <2>7. QED BY <2>1, <2>3, <2>6
<1>7. QED BY <1>1, <1>2, <1>3, <1>4, <1>5, <1>6 DEF IInv

(* Everything is in place.                                                 *)
LEMMA CommitKeepsIInv ==
  ASSUME IInv, Commit
  PROVE  IInv'
<1> USE UpdateAssumption
    DEF MaybeVersion, Versions, Entries, NoCall, NoUpdater, files, sessions,
        server, Commit
<1>0. /\ TypeOK /\ SessionOK /\ TableOK /\ VersionOK /\ UpdaterOK
      /\ InstallationWhole
  BY DEF IInv
<1>1. TypeOK'
  BY <1>0 DEF TypeOK, CallType, UpdaterType
<1>2. SessionOK'
  BY <1>0 DEF TypeOK, CallType, SessionOK, Checking
<1>3. TableOK'
  BY <1>0, FewerHeld DEF Held
<1>4. VersionOK'
  BY <1>0 DEF TypeOK, CallType, UpdaterType, SessionOK, VersionOK, UpdaterOK
<1>5. UpdaterOK'
  BY <1>0 DEF TypeOK, UpdaterType, SessionOK, UpdaterOK, Whole
<1>6. InstallationWhole'
  BY <1>0 DEF TypeOK, UpdaterType, UpdaterOK, InstallationWhole, Whole
<1>7. QED BY <1>1, <1>2, <1>3, <1>4, <1>5, <1>6 DEF IInv

(* The package is removed.                                                 *)
LEMMA RemovePackageKeepsIInv ==
  ASSUME IInv, RemovePackage
  PROVE  IInv'
<1> USE UpdateAssumption
    DEF MaybeVersion, Versions, Entries, NoCall, NoUpdater, files, sessions,
        server, RemovePackage, Ended
<1>0. /\ TypeOK /\ SessionOK /\ TableOK /\ VersionOK /\ UpdaterOK
      /\ InstallationWhole
  BY DEF IInv
<1>1. TypeOK'
  BY <1>0 DEF TypeOK, CallType, UpdaterType
<1>2. SessionOK'
  BY <1>0 DEF TypeOK, CallType, SessionOK, Checking
<1>3. TableOK'
  BY <1>0, FewerHeld DEF Held
<1>4. VersionOK'
  BY <1>0 DEF TypeOK, CallType, UpdaterType, SessionOK, VersionOK, UpdaterOK
<1>5. UpdaterOK'
  BY <1>0 DEF TypeOK, UpdaterType, SessionOK, UpdaterOK, Whole
<1>6. InstallationWhole'
  BY <1>0 DEF TypeOK, UpdaterType, UpdaterOK, InstallationWhole, Whole
<1>7. QED BY <1>1, <1>2, <1>3, <1>4, <1>5, <1>6 DEF IInv

(* The updater is killed.                                                  *)
LEMMA UpdaterDiesKeepsIInv ==
  ASSUME IInv, UpdaterDies
  PROVE  IInv'
<1> USE UpdateAssumption
    DEF MaybeVersion, Versions, Entries, NoCall, NoUpdater, files, sessions,
        server, UpdaterDies, Ended, Replaced
<1>0. /\ TypeOK /\ SessionOK /\ TableOK /\ VersionOK /\ UpdaterOK
      /\ InstallationWhole
  BY DEF IInv
<1>1. TypeOK'
  BY <1>0 DEF TypeOK, CallType, UpdaterType
<1>2. SessionOK'
  BY <1>0 DEF TypeOK, CallType, SessionOK, Checking
<1>3. TableOK'
  BY <1>0, FewerHeld DEF Held
<1>4. VersionOK'
  BY <1>0 DEF TypeOK, CallType, UpdaterType, SessionOK, VersionOK, UpdaterOK
<1>5. UpdaterOK'
  BY <1>0 DEF TypeOK, UpdaterType, SessionOK, UpdaterOK, Whole
<1>6. InstallationWhole'
  <2> SUFFICES ASSUME ~damaged'
               PROVE  install' = before' \/ \E v \in Versions : Whole(v)'
    BY DEF InstallationWhole, Whole
  <2>1. install' = install /\ before' = before
    OBVIOUS
  <2>2. install = before \/ Whole(updater.version)
    BY DEF Whole
  <2>3. updater.version \in Versions
    BY <1>0 DEF TypeOK, UpdaterOK
  <2> HIDE DEF UpdaterDies
  <2>4. QED BY <2>1, <2>2, <2>3 DEF Whole
<1>7. QED BY <1>1, <1>2, <1>3, <1>4, <1>5, <1>6 DEF IInv

(* Whatever happens, the invariant is kept.                                *)
LEMMA NextKeepsIInv == IInv /\ [Next]_vars => IInv'
<1> SUFFICES ASSUME IInv, [Next]_vars PROVE IInv'
  OBVIOUS
<1>1. CASE Serve
  BY <1>1, CheckBeginsKeepsIInv, CheckAnswersKeepsIInv,
     InsertSessionKeepsIInv, CallFailsKeepsIInv, DownloadKeepsIInv,
     PlacePackageKeepsIInv DEF Serve
<1>2. CASE Replace
  BY <1>2, UpdaterBeginsKeepsIInv, BackedUpKeepsIInv, CommitKeepsIInv,
     RemovePackageKeepsIInv, UpdaterDiesKeepsIInv, BackUpKeepsIInv,
     InstallEntryKeepsIInv, RollbackKeepsIInv DEF Replace
<1>3. CASE AppCloses \/ AppOpens
  BY <1>3, AppClosesKeepsIInv, AppOpensKeepsIInv
<1>4. ASSUME \/ \E v \in Versions : Publish(v)
             \/ UNCHANGED vars
      PROVE  IInv'
  <2>1. UNCHANGED <<running, server, files, updater, before, ran, damaged>>
    BY <1>4 DEF Publish, vars
  <2> USE <2>1 DEF server, sessions, files
  <2>2. TypeOK' /\ SessionOK'
    BY DEF IInv, TypeOK, SessionOK, Checking
  <2>3. Held' = Held
    BY DEF Held
  <2>4. TableOK'
    BY <2>3 DEF IInv, TableOK
  <2>5. VersionOK'
    BY DEF IInv, VersionOK
  <2>6. UpdaterOK' /\ InstallationWhole'
    BY DEF IInv, UpdaterOK, Whole, InstallationWhole
  <2>7. QED BY <2>2, <2>4, <2>5, <2>6 DEF IInv
<1>5. QED BY <1>1, <1>2, <1>3, <1>4 DEF Next

(* The invariant holds in every reachable state.                           *)
THEOREM Invariance == Spec => []IInv
BY InitIInv, NextKeepsIInv, PTL DEF Spec

-----------------------------------------------------------------------------
(* A check is downloaded at most once, and the table of what may still be  *)
(* downloaded stays within its limit.                                      *)
THEOREM DownloadedOnce == Spec => []OneDownloadPerCheck
<1>1. IInv => OneDownloadPerCheck
  BY DEF IInv, SessionOK, TableOK, TypeOK, OneDownloadPerCheck
<1>2. QED BY <1>1, Invariance, PTL

(* An updater that ends without damage leaves the old or the new entries.  *)
THEOREM WholeInstallation == Spec => []InstallationWhole
<1>1. IInv => InstallationWhole
  BY DEF IInv
<1>2. QED BY <1>1, Invariance, PTL

(* The package a session downloads is the one its check was shown.         *)
THEOREM ShownIsDownloaded == Spec => DownloadsWhatWasShown
<1>1. IInv /\ [Next]_vars =>
        [\A c \in Calls :
           call[c].at = "fetch" /\ call'[c] # call[c] /\ package' # package
             => package' = shown[call[c].session]]_vars
  <2> SUFFICES ASSUME IInv, [Next]_vars,
                      NEW c \in Calls, call[c].at = "fetch",
                      call'[c] # call[c], package' # package
               PROVE  package' = shown[call[c].session]
    OBVIOUS
  <2>1. call \in [Calls -> CallType]
    BY DEF IInv, TypeOK
  <2>2. CASE \E d \in Calls : PlacePackage(d)
    <3>1. PICK d \in Calls : PlacePackage(d)
      BY <2>2
    <3>2. d = c /\ package' = call[c].version
      BY <2>1, <3>1 DEF PlacePackage
    <3>3. QED BY <3>2 DEF IInv, SessionOK
  <2>3. CASE RemovePackage
    BY <2>3 DEF RemovePackage, server
  <2>4. ASSUME \/ Serve /\ ~\E d \in Calls : PlacePackage(d)
               \/ Replace /\ ~RemovePackage
               \/ AppCloses \/ AppOpens
               \/ \E v \in Versions : Publish(v)
               \/ UNCHANGED vars
        PROVE  FALSE
    <3>1. CASE Serve /\ ~\E d \in Calls : PlacePackage(d)
      BY <3>1 DEF Serve, CheckBegins, CheckAnswers, InsertSession, CallFails,
                  Download, Fetch, files
    <3>2. CASE Replace /\ ~RemovePackage
      BY <3>2 DEF Replace, UpdaterBegins, BackUp, BackedUp, InstallEntry,
                  Rollback, Commit, UpdaterDies, files
    <3>3. QED BY <2>4, <3>1, <3>2 DEF AppCloses, AppOpens, Publish, vars, files
  <2>5. QED BY <2>2, <2>3, <2>4 DEF Next
<1>2. QED BY <1>1, Invariance, PTL DEF Spec, DownloadsWhatWasShown

(* The version that runs is never older than the one that ran before it.   *)
THEOREM NoDowngrade == Spec => NeverDowngrades
<1>1. IInv /\ [Next]_vars => [ran' >= ran]_vars
  <2> SUFFICES ASSUME IInv, [Next]_vars PROVE ran' >= ran
    OBVIOUS
  <2>1. ran \in Nat
    BY UpdateAssumption DEF IInv, TypeOK, MaybeVersion
  <2>2. CASE AppOpens
    BY <2>2 DEF AppOpens, IInv, VersionOK
  <2>3. CASE ~AppOpens
    <3>1. ran' = ran
      BY <2>3 DEF Next, Serve, CheckBegins, CheckAnswers, InsertSession,
                  CallFails, Download, Fetch, PlacePackage, Replace,
                  UpdaterBegins, BackUp, BackedUp, InstallEntry, Rollback,
                  Commit, RemovePackage, UpdaterDies, AppCloses, Publish, vars
    <3>2. QED BY <2>1, <3>1
  <2>4. QED BY <2>2, <2>3
<1>2. QED BY <1>1, Invariance, PTL DEF Spec, NeverDowngrades
=============================================================================
