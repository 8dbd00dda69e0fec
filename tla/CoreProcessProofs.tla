------------------------- MODULE CoreProcessProofs -------------------------
(***************************************************************************)
(* Proofs about CoreProcess, for any number of applications, calls and     *)
(* cores: callers share one attempt, the endpoint is the running core's,   *)
(* no live core is forgotten that no stop has given up on; and, for one    *)
(* application, a core that is left alone is in the pid file, if its pid   *)
(* could be written.                                                       *)
(*                                                                         *)
(* None is inductive.  AttemptOK ties _starting to the one client inside   *)
(* _start, PublishedOK says what _process and _endpoint may be during an   *)
(* attempt and between two, HandOK who has the core of an attempt in hand  *)
(* when _process was cleared under it.                                     *)
(***************************************************************************)
EXTENDS CoreProcess, FiniteSetTheorems, TLAPS

Labels == Starting \cup {"idle", "join", "quit.kill", "quit.clear", "exit"}
MaybeCore == Cores \cup {Nil}

TypeOK ==
  /\ open \in [Apps -> BOOLEAN] /\ hollow \in [Apps -> BOOLEAN]
  /\ process \in [Apps -> MaybeCore] /\ endpoint \in [Apps -> MaybeCore]
  /\ sub \in [Apps -> MaybeCore] /\ starting \in [Apps -> Clients \cup {Nil}]
  /\ pc \in [Clients -> Labels]
  /\ mine \in [Clients -> MaybeCore] /\ stale \in [Clients -> MaybeCore]
  /\ join \in [Clients -> Clients \cup {Nil}]
  /\ ready \in [Clients -> {"none", "port", "error"}]
  /\ alive \subseteq Cores /\ used \subseteq Cores
  /\ parent \in [Cores -> Apps \cup {Nil}]
  /\ pidFile \in MaybeCore
  /\ wedged \subseteq Cores /\ unrecorded \subseteq Cores

(* Between Adopt and the end of _start's wait. *)
Adopted == {"record", "stdin", "ready"}

(* What anybody knows of a core is a core that was spawned. *)
UsedOK ==
  /\ alive \subseteq used
  /\ \A c \in Clients : mine[c] \in used \cup {Nil}
  /\ \A a \in Apps : process[a] \in used \cup {Nil}
  /\ \A k \in Cores \ used : parent[k] = Nil
  /\ \A c \in Clients : pc[c] \in {"adopt"} \cup Adopted => mine[c] \in Cores

(* Attempts, and who waits for them, are of one application. *)
JoinOK ==
  /\ \A a \in Apps : starting[a] # Nil => App(starting[a]) = a
  /\ \A c \in Clients :
       pc[c] = "join" => join[c] \in Clients /\ App(join[c]) = App(c)

(* A core that was killed does not come back, or was given up on. *)
KilledOK == \A c \in Clients :
  pc[c] \in {"clear", "quit.clear"} => mine[c] \notin alive \ wedged

(* _starting is the client inside _start. *)
AttemptOK == \A c \in Clients : ~hollow[App(c)] =>
  (pc[c] \in Starting <=> starting[App(c)] = c)

Published(a) ==
  /\ starting[a] = Nil => endpoint[a] = process[a]
  /\ starting[a] # Nil =>
       /\ endpoint[a] = Nil
       /\ \/ process[a] = Nil
          \/ /\ pc[starting[a]] \in Adopted
             /\ process[a] = mine[starting[a]]

PublishedOK == \A a \in Apps : ~hollow[a] => Published(a)

(* A core that was adopted is _process until it is dead, or _quit is about *)
(* to kill it, or has given up on it.                                      *)
HandOK == \A c \in Clients :
  ~hollow[App(c)] /\ pc[c] \in Adopted /\ mine[c] \in alive \ wedged =>
    \/ process[App(c)] = mine[c]
    \/ \E d \in Clients :
         App(d) = App(c) /\ pc[d] = "quit.kill" /\ mine[d] = mine[c]

IInv ==
  /\ TypeOK
  /\ UsedOK
  /\ JoinOK
  /\ KilledOK
  /\ AttemptOK
  /\ PublishedOK
  /\ HandOK
  /\ NoCoreForgotten

Quitting(a) == \E d \in Clients :
  App(d) = a /\ pc[d] \in {"quit.kill", "quit.clear", "exit"}

(* With one application: _process is in the pid file from Record on, if it *)
(* could be written.                                                       *)
RecordedOK == \A a \in Apps :
  ~hollow[a] /\ ~Quitting(a) /\ process[a] \notin unrecorded \cup {Nil} =>
    \/ pidFile = process[a]
    \/ starting[a] # Nil /\ pc[starting[a]] = "record"

-----------------------------------------------------------------------------
(* Nil is no core, no client, no application; a client is in one.          *)
LEMMA Identities ==
  /\ Nil \notin Cores /\ Nil \notin Clients /\ Nil \notin Apps
  /\ \A c \in Clients : App(c) \in Apps
BY ProcessAssumption DEF Clients, App

(* The start satisfies the invariant.                                      *)
LEMMA InitIInv == Init => IInv
<1> SUFFICES ASSUME Init PROVE IInv
  OBVIOUS
<1> USE Identities DEF Init, Labels, MaybeCore, Starting, Adopted, Published
<1>1. TypeOK
  BY DEF TypeOK
<1>2. UsedOK /\ JoinOK /\ KilledOK
  BY DEF UsedOK, JoinOK, KilledOK
<1>3. AttemptOK /\ PublishedOK /\ HandOK /\ NoCoreForgotten
  BY DEF AttemptOK, PublishedOK, HandOK, NoCoreForgotten
<1>4. QED BY <1>1, <1>2, <1>3 DEF IInv

(* A step that moves clients within the reaping or within the adopted part *)
(* of _start, and may end cores.                                           *)
Reaping == {"reap", "consume", "check", "slay", "spawn"}
Quiet ==
  /\ UNCHANGED <<process, endpoint, starting, used, parent, hollow, wedged,
                 mine, join>>
  /\ alive' \subseteq alive
  /\ \A c \in Clients : \/ pc'[c] = pc[c]
                        \/ pc[c] \in Reaping /\ pc'[c] \in Reaping
                        \/ pc[c] \in Adopted /\ pc'[c] \in Adopted

(* Such a step keeps the invariant.                                        *)
LEMMA QuietSteps == ASSUME IInv, TypeOK', Quiet PROVE IInv'
<1> USE Identities
    DEF Quiet, Labels, MaybeCore, Starting, Adopted, Published, Reaping
<1>0. /\ TypeOK /\ UsedOK /\ JoinOK /\ KilledOK /\ AttemptOK /\ PublishedOK
      /\ HandOK /\ NoCoreForgotten
  BY DEF IInv
<1>1. UsedOK' /\ JoinOK' /\ KilledOK'
  BY <1>0 DEF TypeOK, UsedOK, JoinOK, KilledOK
<1>2. AttemptOK' /\ PublishedOK'
  BY <1>0 DEF TypeOK, AttemptOK, PublishedOK
<1>3. HandOK'
  BY <1>0 DEF TypeOK, HandOK
<1>4. \A c \in Clients : pc[c] \in Holding => pc'[c] \in Holding
  BY DEF Holding
<1>5. NoCoreForgotten'
  BY <1>0, <1>4 DEF NoCoreForgotten
<1>6. QED BY <1>1, <1>2, <1>3, <1>5 DEF IInv

(* The end of an attempt, whoever waits for it.                            *)
EndsFor(c) ==
  /\ pc' \in [Clients -> Labels] /\ pc'[c] = "idle"
  /\ \A d \in Clients \ {c} :
       \/ pc'[d] = pc[d]
       \/ /\ pc[d] = "join" /\ App(d) = App(c)
          /\ pc'[d] \in {"idle", "reap"}
  /\ starting' \in [Apps -> Clients \cup {Nil}]
  /\ \A a \in Apps \ {App(c)} : starting'[a] = starting[a]
  /\ starting'[App(c)] # Nil => App(starting'[App(c)]) = App(c)
  /\ mine' = [mine EXCEPT ![c] = Nil]
  /\ stale' \in [Clients -> MaybeCore]
  /\ join' \in [Clients -> Clients \cup {Nil}]
  /\ \A d \in Clients : pc'[d] = "join" => join'[d] = join[d]
  /\ ready' \in [Clients -> {"none", "port", "error"}]

LEMMA AttemptEndsFor ==
  ASSUME TypeOK, JoinOK, NEW c \in Clients, pc[c] # "join",
         NEW ok \in BOOLEAN, AttemptEnds(c, ok)
  PROVE  EndsFor(c)
<1> DEFINE waiting == {d \in Clients : pc[d] = "join" /\ join[d] = c}
           again == IF ok /\ process[App(c)] = Nil THEN waiting ELSE {}
<1> USE Identities DEF Labels, Starting, MaybeCore
<1>1. /\ pc' = [d \in Clients |-> IF d \in again THEN "reap"
                                  ELSE IF d \in waiting \cup {c} THEN "idle"
                                  ELSE pc[d]]
      /\ join' = [d \in Clients |-> IF d \in waiting THEN Nil ELSE join[d]]
      /\ mine' = [mine EXCEPT ![c] = Nil]
      /\ stale' = [stale EXCEPT ![c] = Nil]
      /\ ready' = [ready EXCEPT ![c] = "none"]
      /\ \E last \in IF again = {} THEN {Nil} ELSE again :
           starting' = [starting EXCEPT ![App(c)] = last]
  BY DEF AttemptEnds
<1>2. again \subseteq waiting /\ waiting \subseteq Clients
  OBVIOUS
<1>3. \A d \in waiting : pc[d] = "join" /\ App(d) = App(c)
  BY DEF JoinOK
<1> HIDE DEF waiting, again
<1>4. pc' \in [Clients -> Labels]
  BY <1>1, <1>2 DEF TypeOK
<1>5. pc'[c] = "idle"
  BY <1>1, <1>2, <1>3
<1>6. \A d \in Clients \ {c} :
        \/ pc'[d] = pc[d]
        \/ /\ pc[d] = "join" /\ App(d) = App(c)
           /\ pc'[d] \in {"idle", "reap"}
  <2> TAKE d \in Clients \ {c}
  <2>1. CASE d \in again
    BY <1>1, <1>2, <1>3, <2>1
  <2>2. CASE d \in waiting \ again
    BY <1>1, <1>3, <2>2
  <2>3. CASE d \notin waiting
    <3>1. pc'[d] = IF d \in again THEN "reap"
                   ELSE IF d \in waiting \cup {c} THEN "idle" ELSE pc[d]
      BY <1>1
    <3>2. QED BY <1>2, <2>3, <3>1
  <2>4. QED BY <2>1, <2>2, <2>3
<1>7. PICK last \in Clients \cup {Nil} :
        /\ starting' = [starting EXCEPT ![App(c)] = last]
        /\ last # Nil => last \in again
  BY <1>1, <1>2
<1>8. /\ starting' \in [Apps -> Clients \cup {Nil}]
      /\ \A a \in Apps \ {App(c)} : starting'[a] = starting[a]
      /\ starting'[App(c)] # Nil => App(starting'[App(c)]) = App(c)
  BY <1>2, <1>3, <1>7 DEF TypeOK
<1>9. /\ stale' \in [Clients -> MaybeCore]
      /\ join' \in [Clients -> Clients \cup {Nil}]
      /\ ready' \in [Clients -> {"none", "port", "error"}]
  BY <1>1 DEF TypeOK
<1>10. \A d \in Clients : pc'[d] = "join" => join'[d] = join[d]
  BY <1>1, <1>2, <1>3
<1>11. QED BY <1>1, <1>4, <1>5, <1>6, <1>8, <1>9, <1>10 DEF EndsFor

(* One that failed, or whose core is still there: none begins another.     *)
EndsForAll(c) ==
  /\ starting' = [starting EXCEPT ![App(c)] = Nil]
  /\ \A d \in Clients \ {c} : \/ pc'[d] = pc[d]
                              \/ pc[d] = "join" /\ pc'[d] = "idle"

LEMMA AttemptEndsForAll ==
  ASSUME TypeOK, NEW c \in Clients, pc[c] # "join", NEW ok \in BOOLEAN,
         AttemptEnds(c, ok), ok => process[App(c)] # Nil
  PROVE  EndsForAll(c)
<1> DEFINE waiting == {d \in Clients : pc[d] = "join" /\ join[d] = c}
<1>1. /\ pc' = [d \in Clients |-> IF d \in {} THEN "reap"
                                  ELSE IF d \in waiting \cup {c} THEN "idle"
                                  ELSE pc[d]]
      /\ \E last \in {Nil} : starting' = [starting EXCEPT ![App(c)] = last]
  BY Zenon DEF AttemptEnds
<1>2. starting' = [starting EXCEPT ![App(c)] = Nil]
  BY <1>1
<1>3. ASSUME NEW d \in Clients \ {c}
      PROVE  \/ pc'[d] = pc[d]
             \/ pc[d] = "join" /\ pc'[d] = "idle"
  <2>1. pc'[d] = IF d \in waiting \cup {c} THEN "idle" ELSE pc[d]
    BY <1>1
  <2>2. QED BY <2>1
<1>4. QED BY <1>2, <1>3 DEF EndsForAll


(* The end of an attempt in one application changes no other's.            *)
LEMMA EndElsewhere ==
  ASSUME TypeOK, JoinOK, NEW c \in Clients, EndsFor(c),
         NEW a \in Apps \ {App(c)}, Published(a),
         process'[a] = process[a], endpoint'[a] = endpoint[a]
  PROVE  Published(a)'
<1> USE Identities
<1>1. starting'[a] = starting[a]
  BY DEF EndsFor
<1>2. CASE starting[a] = Nil
  BY <1>1, <1>2 DEF Published
<1>3. CASE starting[a] # Nil
  <2> DEFINE d == starting[a]
  <2>1. d \in Clients /\ App(d) = a
    BY <1>3 DEF TypeOK, JoinOK
  <2>2. d \in Clients \ {c} /\ pc'[d] = pc[d] /\ mine'[d] = mine[d]
    BY <2>1 DEF EndsFor, TypeOK
  <2>3. QED BY <1>1, <1>3, <2>2 DEF Published
<1>4. QED BY <1>2, <1>3

(* It forgets no core, if the one it had in hand is not lost.              *)
LEMMA EndForgetsNoCore ==
  ASSUME TypeOK, NoCoreForgotten, NEW c \in Clients, EndsFor(c),
         UNCHANGED <<process, alive, parent, wedged>>,
         \A a \in Apps : ~hollow'[a] => ~hollow[a],
         ~hollow'[App(c)] /\ pc[c] \in Holding /\ mine[c] \in alive \ wedged =>
           \/ process[App(c)] = mine[c]
           \/ \E d \in Clients \ {c} :
                /\ App(d) = App(c) /\ pc[d] \in Holding
                /\ mine[d] = mine[c]
  PROVE  NoCoreForgotten'
<1> USE Identities
<1>1. SUFFICES ASSUME NEW a \in Apps, NEW k \in alive \ wedged, ~hollow'[a],
                      parent[k] = a, process[a] # k
               PROVE  \E e \in Clients : /\ App(e) = a /\ pc'[e] \in Holding
                                        /\ mine'[e] = k
  BY DEF NoCoreForgotten
<1>2. PICK d \in Clients : App(d) = a /\ pc[d] \in Holding /\ mine[d] = k
  BY <1>1 DEF NoCoreForgotten
<1>3. PICK e \in Clients \ {c} :
        App(e) = a /\ pc[e] \in Holding /\ mine[e] = k
  BY <1>1, <1>2
<1>4. pc'[e] = pc[e] /\ mine'[e] = mine[e]
  BY <1>3 DEF EndsFor, TypeOK, Holding
<1>5. QED BY <1>3, <1>4
(* ensureStarted joins an attempt or begins one.                           *)
LEMMA EnsureStartedKeepsIInv ==
  ASSUME IInv, NEW c \in Clients, EnsureStarted(c)
  PROVE  IInv'
<1> USE Identities
    DEF Labels, MaybeCore, Starting, Adopted, Published, Goto, Forget, Victim,
        fields, locals, cores, events, history, EnsureStarted
<1>0. /\ TypeOK /\ UsedOK /\ JoinOK /\ KilledOK /\ AttemptOK /\ PublishedOK
      /\ HandOK /\ NoCoreForgotten
  BY DEF IInv
<1>1. TypeOK'
  BY <1>0 DEF TypeOK
<1>2. UsedOK'
  BY <1>0 DEF TypeOK, UsedOK
<1>3. JoinOK'
  BY <1>0 DEF TypeOK, UsedOK, JoinOK
<1>4. KilledOK'
  BY <1>0 DEF TypeOK, UsedOK, KilledOK
<1>5. AttemptOK'
  BY <1>0 DEF TypeOK, JoinOK, AttemptOK
<1>6. PublishedOK'
  <2> SUFFICES ASSUME NEW a \in Apps, ~hollow[a]
               PROVE  /\ starting'[a] = Nil => endpoint[a] = process[a]
                      /\ starting'[a] # Nil =>
                           /\ endpoint[a] = Nil
                           /\ \/ process[a] = Nil
                              \/ /\ pc'[starting'[a]] \in Adopted
                                 /\ process[a] = mine'[starting'[a]]
    BY DEF PublishedOK, Published
  <2>1. CASE starting'[a] = starting[a]
    BY <1>0, <2>1 DEF TypeOK, PublishedOK
  <2>2. CASE starting'[a] # starting[a]
    <3>1. a = App(c) /\ starting[a] = Nil /\ starting'[a] = c /\ ~Running(a)
      BY <1>0, <2>2 DEF TypeOK
    <3>2. QED BY <1>0, <3>1 DEF PublishedOK, Running
  <2>3. QED BY <2>1, <2>2
<1>7. HandOK'
  BY <1>0 DEF TypeOK, AttemptOK, PublishedOK, HandOK, UsedOK
<1>8. NoCoreForgotten'
  BY <1>0
     DEF TypeOK, AttemptOK, PublishedOK, HandOK, UsedOK, KilledOK,
         NoCoreForgotten, Holding
<1>9. QED BY <1>1, <1>2, <1>3, <1>4, <1>5, <1>6, <1>7, <1>8 DEF IInv

(* The core cannot be spawned.                                             *)
LEMMA SpawnFailsKeepsIInv ==
  ASSUME IInv, NEW c \in Clients, SpawnFails(c)
  PROVE  IInv'
<1> USE Identities
    DEF Labels, MaybeCore, Starting, Adopted, Published, Goto, fields, locals,
        cores, events, history
<1>0. /\ TypeOK /\ UsedOK /\ JoinOK /\ KilledOK /\ AttemptOK /\ PublishedOK
      /\ HandOK /\ NoCoreForgotten
  BY DEF IInv
<1>1. EndsFor(c) /\ EndsForAll(c)
  BY <1>0, AttemptEndsFor, AttemptEndsForAll DEF SpawnFails
<1>2. TypeOK'
  BY <1>0, <1>1 DEF SpawnFails, TypeOK, EndsFor
<1>3. UsedOK'
  BY <1>0, <1>1 DEF SpawnFails, TypeOK, EndsFor, UsedOK
<1>4. JoinOK'
  BY <1>0, <1>1 DEF SpawnFails, TypeOK, EndsFor, JoinOK
<1>5. KilledOK'
  BY <1>0, <1>1 DEF SpawnFails, TypeOK, EndsFor, KilledOK
<1>6. AttemptOK'
  BY <1>0, <1>1 DEF SpawnFails, TypeOK, EndsFor, EndsForAll, AttemptOK
<1>7. PublishedOK'
  BY <1>0, <1>1
     DEF SpawnFails, TypeOK, EndsFor, EndsForAll, AttemptOK, PublishedOK
<1>8. HandOK'
  BY <1>0, <1>1 DEF SpawnFails, TypeOK, EndsFor, AttemptOK, HandOK
<1>9. NoCoreForgotten'
  BY <1>0, <1>1, EndForgetsNoCore DEF SpawnFails, Holding
<1>10. QED
  BY <1>2, <1>3, <1>4, <1>5, <1>6, <1>7, <1>8, <1>9 DEF IInv

(* A core is spawned.                                                      *)
LEMMA SpawnKeepsIInv ==
  ASSUME IInv, NEW c \in Clients, NEW k \in Cores, Spawn(c, k)
  PROVE  IInv'
<1> USE Identities
    DEF Labels, MaybeCore, Starting, Adopted, Published, Goto, Forget, Victim,
        fields, locals, cores, events, history, Spawn
<1>0. /\ TypeOK /\ UsedOK /\ JoinOK /\ KilledOK /\ AttemptOK /\ PublishedOK
      /\ HandOK /\ NoCoreForgotten
  BY DEF IInv
<1>1. TypeOK'
  BY <1>0 DEF TypeOK
<1>2. UsedOK'
  BY <1>0 DEF TypeOK, UsedOK
<1>3. JoinOK'
  BY <1>0 DEF TypeOK, UsedOK, JoinOK
<1>4. KilledOK'
  BY <1>0 DEF TypeOK, UsedOK, KilledOK
<1>5. AttemptOK'
  BY <1>0 DEF TypeOK, JoinOK, AttemptOK
<1>6. PublishedOK'
  BY <1>0 DEF TypeOK, JoinOK, AttemptOK, PublishedOK, UsedOK
<1>7. HandOK'
  BY <1>0 DEF TypeOK, AttemptOK, PublishedOK, HandOK, UsedOK
<1>8. NoCoreForgotten'
  BY <1>0
     DEF TypeOK, AttemptOK, PublishedOK, HandOK, UsedOK, KilledOK,
         NoCoreForgotten, Holding
<1>9. QED BY <1>1, <1>2, <1>3, <1>4, <1>5, <1>6, <1>7, <1>8 DEF IInv

(* It becomes _process.                                                    *)
LEMMA AdoptKeepsIInv ==
  ASSUME IInv, NEW c \in Clients, Adopt(c)
  PROVE  IInv'
<1> USE Identities
    DEF Labels, MaybeCore, Starting, Adopted, Published, Goto, Forget, Victim,
        fields, locals, cores, events, history, Adopt
<1>0. /\ TypeOK /\ UsedOK /\ JoinOK /\ KilledOK /\ AttemptOK /\ PublishedOK
      /\ HandOK /\ NoCoreForgotten
  BY DEF IInv
<1>1. TypeOK'
  BY <1>0 DEF TypeOK
<1>2. UsedOK'
  BY <1>0 DEF TypeOK, UsedOK
<1>3. JoinOK'
  BY <1>0 DEF TypeOK, UsedOK, JoinOK
<1>4. KilledOK'
  BY <1>0 DEF TypeOK, UsedOK, KilledOK
<1>5. AttemptOK'
  BY <1>0 DEF TypeOK, JoinOK, AttemptOK
<1>6. PublishedOK'
  BY <1>0 DEF TypeOK, JoinOK, AttemptOK, PublishedOK, UsedOK
<1>7. HandOK'
  BY <1>0 DEF TypeOK, AttemptOK, PublishedOK, HandOK, UsedOK
<1>8. NoCoreForgotten'
  BY <1>0
     DEF TypeOK, AttemptOK, PublishedOK, HandOK, UsedOK, KilledOK,
         NoCoreForgotten, Holding
<1>9. QED BY <1>1, <1>2, <1>3, <1>4, <1>5, <1>6, <1>7, <1>8 DEF IInv

(* A core's exit is heard of.                                              *)
LEMMA ExitArrivesKeepsIInv ==
  ASSUME IInv, NEW k \in Cores, ExitArrives(k)
  PROVE  IInv'
<1> USE Identities
    DEF Labels, MaybeCore, Starting, Adopted, Published, Goto, Forget, Victim,
        fields, locals, cores, events, history, ExitArrives, Complete
<1>0. /\ TypeOK /\ UsedOK /\ JoinOK /\ KilledOK /\ AttemptOK /\ PublishedOK
      /\ HandOK /\ NoCoreForgotten
  BY DEF IInv
<1>1. TypeOK'
  BY <1>0 DEF TypeOK
<1>2. UsedOK'
  BY <1>0 DEF TypeOK, UsedOK
<1>3. JoinOK'
  BY <1>0 DEF TypeOK, UsedOK, JoinOK
<1>4. KilledOK'
  BY <1>0 DEF TypeOK, UsedOK, KilledOK
<1>5. AttemptOK'
  BY <1>0 DEF TypeOK, JoinOK, AttemptOK
<1>6. PublishedOK'
  BY <1>0 DEF TypeOK, JoinOK, AttemptOK, PublishedOK, UsedOK
<1>7. HandOK'
  BY <1>0 DEF TypeOK, AttemptOK, PublishedOK, HandOK, UsedOK
<1>8. NoCoreForgotten'
  BY <1>0
     DEF TypeOK, AttemptOK, PublishedOK, HandOK, UsedOK, KilledOK,
         NoCoreForgotten, Holding
<1>9. QED BY <1>1, <1>2, <1>3, <1>4, <1>5, <1>6, <1>7, <1>8 DEF IInv

(* _start succeeds.                                                        *)
LEMMA StartedKeepsIInv ==
  ASSUME IInv, NEW c \in Clients, Started(c)
  PROVE  IInv'
<1> USE Identities
    DEF Labels, MaybeCore, Starting, Adopted, Published, Goto, fields, locals,
        cores, events, history
<1>0. /\ TypeOK /\ UsedOK /\ JoinOK /\ KilledOK /\ AttemptOK /\ PublishedOK
      /\ HandOK /\ NoCoreForgotten
  BY DEF IInv
<1>1. EndsFor(c)
  BY <1>0, AttemptEndsFor DEF Started
<1>2. ~hollow'[App(c)] => process[App(c)] = mine[c] /\ EndsForAll(c)
  BY <1>0, AttemptEndsForAll DEF Started, TypeOK, UsedOK
<1>3. TypeOK'
  BY <1>0, <1>1, <1>2 DEF Started, TypeOK, EndsFor
<1>4. UsedOK'
  BY <1>0, <1>1, <1>2 DEF Started, TypeOK, EndsFor, UsedOK
<1>5. JoinOK'
  BY <1>0, <1>1, <1>2 DEF Started, TypeOK, EndsFor, JoinOK
<1>6. KilledOK'
  BY <1>0, <1>1, <1>2 DEF Started, TypeOK, EndsFor, KilledOK
<1>7. AttemptOK'
  BY <1>0, <1>1, <1>2 DEF Started, TypeOK, EndsFor, EndsForAll, AttemptOK
<1>8. PublishedOK'
  <2> SUFFICES ASSUME NEW a \in Apps, ~hollow'[a] PROVE Published(a)'
    BY DEF PublishedOK
  <2>1. CASE a = App(c)
    BY <1>0, <1>2, <2>1 DEF Started, EndsForAll, TypeOK
  <2>2. CASE a # App(c)
    <3>1. ~hollow[a] /\ process'[a] = process[a] /\ endpoint'[a] = endpoint[a]
      BY <1>0, <2>2 DEF Started, TypeOK
    <3>2. Published(a)
      BY <1>0, <3>1 DEF PublishedOK
    <3> HIDE DEF Published
    <3>3. QED BY <1>0, <1>1, <2>2, <3>1, <3>2, EndElsewhere
  <2>3. QED BY <2>1, <2>2
<1>9. HandOK'
  BY <1>0, <1>1, <1>2 DEF Started, TypeOK, EndsFor, AttemptOK, HandOK
<1>10. NoCoreForgotten'
  <2>1. \A a \in Apps : ~hollow'[a] => ~hollow[a]
    BY <1>0 DEF Started, TypeOK
  <2>2. UNCHANGED <<process, alive, parent, wedged>>
    BY DEF Started
  <2>3. QED BY <1>0, <1>1, <1>2, <2>1, <2>2, EndForgetsNoCore
<1>11. QED
  BY <1>3, <1>4, <1>5, <1>6, <1>7, <1>8, <1>9, <1>10 DEF IInv

(* _start fails.                                                           *)
LEMMA GiveUpKeepsIInv ==
  ASSUME IInv, NEW c \in Clients, GiveUp(c)
  PROVE  IInv'
<1> USE Identities
    DEF Labels, MaybeCore, Starting, Adopted, Published, Goto, fields, locals,
        cores, events, history
<1>0. /\ TypeOK /\ UsedOK /\ JoinOK /\ KilledOK /\ AttemptOK /\ PublishedOK
      /\ HandOK /\ NoCoreForgotten
  BY DEF IInv
<1>1. /\ pc[c] = "ready" /\ Forget(App(c))
       /\ UNCHANGED <<alive, parent, hollow, wedged>>
  BY DEF GiveUp
<1> USE DEF Forget
<1>2. CASE process[App(c)] = Nil
  <2>1. EndsFor(c) /\ EndsForAll(c)
    BY <1>0, <1>2, AttemptEndsFor, AttemptEndsForAll DEF GiveUp
  <2>2. TypeOK'
    BY <1>0, <1>2, <2>1 DEF GiveUp, TypeOK, EndsFor
  <2>3. UsedOK'
    BY <1>0, <1>2, <2>1 DEF GiveUp, TypeOK, EndsFor, UsedOK
  <2>4. JoinOK'
    BY <1>0, <1>2, <2>1 DEF GiveUp, TypeOK, EndsFor, JoinOK
  <2>5. KilledOK'
    BY <1>0, <1>2, <2>1 DEF GiveUp, TypeOK, EndsFor, KilledOK
  <2>6. AttemptOK'
    BY <1>0, <1>2, <2>1 DEF GiveUp, TypeOK, EndsFor, EndsForAll, AttemptOK
  <2>7. PublishedOK'
    <3> SUFFICES ASSUME NEW a \in Apps, ~hollow[a] PROVE Published(a)'
      BY <1>1 DEF PublishedOK
    <3>1. CASE a = App(c)
      BY <1>0, <1>1, <2>1, <3>1 DEF EndsForAll, TypeOK
    <3>2. CASE a # App(c)
      <4>1. process'[a] = process[a] /\ endpoint'[a] = endpoint[a]
        BY <1>0, <1>1, <3>2 DEF TypeOK
      <4>2. Published(a)
        BY <1>0 DEF PublishedOK
      <4> HIDE DEF Published
      <4>3. QED BY <1>0, <2>1, <3>2, <4>1, <4>2, EndElsewhere
    <3>3. QED BY <3>1, <3>2
  <2>8. HandOK'
    BY <1>0, <1>2, <2>1 DEF GiveUp, TypeOK, EndsFor, AttemptOK, HandOK
  <2>9. NoCoreForgotten'
    <3>1. process' = process
      BY <1>0, <1>1, <1>2 DEF TypeOK
    <3>2. ~hollow[App(c)] /\ mine[c] \in alive \ wedged =>
            \/ process[App(c)] = mine[c]
            \/ \E d \in Clients \ {c} : /\ App(d) = App(c) /\ pc[d] \in Holding
                                       /\ mine[d] = mine[c]
      BY <1>0, <1>1 DEF HandOK, Holding
    <3>3. QED BY <1>0, <1>1, <2>1, <3>1, <3>2, EndForgetsNoCore
  <2>10. QED
    BY <2>2, <2>3, <2>4, <2>5, <2>6, <2>7, <2>8, <2>9 DEF IInv
<1>3. CASE process[App(c)] # Nil
  <2>1. /\ pc' = [pc EXCEPT ![c] = "kill"]
        /\ mine' = [mine EXCEPT ![c] = process[App(c)]]
        /\ UNCHANGED <<stale, join, ready, starting>>
    BY <1>3 DEF GiveUp, Victim
  <2>2. TypeOK'
    BY <1>0, <1>3, <2>1 DEF GiveUp, TypeOK, EndsFor
  <2>3. UsedOK'
    BY <1>0, <1>3, <2>1 DEF GiveUp, TypeOK, EndsFor, UsedOK
  <2>4. JoinOK'
    BY <1>0, <1>3, <2>1 DEF GiveUp, TypeOK, EndsFor, JoinOK
  <2>5. KilledOK'
    BY <1>0, <1>3, <2>1 DEF GiveUp, TypeOK, EndsFor, KilledOK
  <2>6. AttemptOK'
    BY <1>0, <1>3, <2>1 DEF GiveUp, TypeOK, EndsFor, EndsForAll, AttemptOK
  <2>7. PublishedOK'
    <3> SUFFICES ASSUME NEW a \in Apps, ~hollow[a] PROVE Published(a)'
      BY <1>1 DEF PublishedOK
    <3>1. CASE a = App(c)
      <4>1. starting[a] = c /\ process'[a] = Nil /\ endpoint'[a] = Nil
        BY <1>0, <1>1, <3>1 DEF AttemptOK, TypeOK
      <4>2. QED BY <2>1, <4>1
    <3>2. CASE a # App(c)
      <4>1. process'[a] = process[a] /\ endpoint'[a] = endpoint[a]
        BY <1>0, <1>1, <3>2 DEF TypeOK
      <4>2. Published(a)
        BY <1>0 DEF PublishedOK
      <4>3. starting[a] # c
        BY <1>0, <3>2 DEF JoinOK
      <4>4. QED BY <1>0, <2>1, <4>1, <4>2, <4>3 DEF TypeOK
    <3>3. QED BY <3>1, <3>2
  <2>8. HandOK'
    BY <1>0, <1>3, <2>1 DEF GiveUp, TypeOK, EndsFor, AttemptOK, HandOK
  <2>9. NoCoreForgotten'
    BY <1>0, <1>3, <2>1
       DEF GiveUp, TypeOK, EndsFor, AttemptOK, HandOK, KilledOK, PublishedOK,
           NoCoreForgotten, Holding
  <2>10. QED
    BY <2>2, <2>3, <2>4, <2>5, <2>6, <2>7, <2>8, <2>9 DEF IInv
<1>4. QED BY <1>2, <1>3

(* stop kills the core.                                                    *)
LEMMA KillKeepsIInv ==
  ASSUME IInv, NEW c \in Clients, Kill(c)
  PROVE  IInv'
<1> USE Identities
    DEF Labels, MaybeCore, Starting, Adopted, Published, Goto, Forget, Victim,
        fields, locals, cores, events, history, Kill,
        AfterKill
<1>0. /\ TypeOK /\ UsedOK /\ JoinOK /\ KilledOK /\ AttemptOK /\ PublishedOK
      /\ HandOK /\ NoCoreForgotten
  BY DEF IInv
<1>1. TypeOK'
  BY <1>0 DEF TypeOK
<1>2. UsedOK'
  BY <1>0 DEF TypeOK, UsedOK
<1>3. JoinOK'
  BY <1>0 DEF TypeOK, UsedOK, JoinOK
<1>4. KilledOK'
  BY <1>0 DEF TypeOK, UsedOK, KilledOK
<1>5. AttemptOK'
  BY <1>0 DEF TypeOK, JoinOK, AttemptOK
<1>6. PublishedOK'
  BY <1>0 DEF TypeOK, JoinOK, AttemptOK, PublishedOK, UsedOK
<1>7. HandOK'
  BY <1>0 DEF TypeOK, AttemptOK, PublishedOK, HandOK, UsedOK
<1>8. NoCoreForgotten'
  BY <1>0
     DEF TypeOK, AttemptOK, PublishedOK, HandOK, UsedOK, KilledOK,
         NoCoreForgotten, Holding
<1>9. QED BY <1>1, <1>2, <1>3, <1>4, <1>5, <1>6, <1>7, <1>8 DEF IInv

(* stop kills the core and does not see it exit.                           *)
LEMMA KillTimesOutKeepsIInv ==
  ASSUME IInv, NEW c \in Clients, KillTimesOut(c)
  PROVE  IInv'
<1> USE Identities
    DEF Labels, MaybeCore, Starting, Adopted, Published, Goto, Forget, Victim,
        fields, locals, cores, events, history,
        KillTimesOut, AfterKill
<1>0. /\ TypeOK /\ UsedOK /\ JoinOK /\ KilledOK /\ AttemptOK /\ PublishedOK
      /\ HandOK /\ NoCoreForgotten
  BY DEF IInv
<1>1. TypeOK'
  BY <1>0 DEF TypeOK
<1>2. UsedOK'
  BY <1>0 DEF TypeOK, UsedOK
<1>3. JoinOK'
  BY <1>0 DEF TypeOK, UsedOK, JoinOK
<1>4. KilledOK'
  BY <1>0 DEF TypeOK, UsedOK, KilledOK
<1>5. AttemptOK'
  BY <1>0 DEF TypeOK, JoinOK, AttemptOK
<1>6. PublishedOK'
  BY <1>0 DEF TypeOK, JoinOK, AttemptOK, PublishedOK, UsedOK
<1>7. HandOK'
  BY <1>0 DEF TypeOK, AttemptOK, PublishedOK, HandOK, UsedOK
<1>8. NoCoreForgotten'
  BY <1>0
     DEF TypeOK, AttemptOK, PublishedOK, HandOK, UsedOK, KilledOK,
         NoCoreForgotten, Holding
<1>9. QED BY <1>1, <1>2, <1>3, <1>4, <1>5, <1>6, <1>7, <1>8 DEF IInv

(* stop clears the pid file.                                               *)
LEMMA ClearPidKeepsIInv ==
  ASSUME IInv, NEW c \in Clients, ClearPid(c)
  PROVE  IInv'
<1> USE Identities
    DEF Labels, MaybeCore, Starting, Adopted, Published, Goto, fields, locals,
        cores, events, history
<1>0. /\ TypeOK /\ UsedOK /\ JoinOK /\ KilledOK /\ AttemptOK /\ PublishedOK
      /\ HandOK /\ NoCoreForgotten
  BY DEF IInv
<1>1. CASE pc[c] = "clear"
  <2>1. EndsFor(c) /\ EndsForAll(c)
    BY <1>0, <1>1, AttemptEndsFor, AttemptEndsForAll DEF ClearPid
  <2>2. TypeOK'
    BY <1>0, <1>1, <2>1 DEF ClearPid, TypeOK, EndsFor
  <2>3. UsedOK'
    BY <1>0, <1>1, <2>1 DEF ClearPid, TypeOK, EndsFor, UsedOK
  <2>4. JoinOK'
    BY <1>0, <1>1, <2>1 DEF ClearPid, TypeOK, EndsFor, JoinOK
  <2>5. KilledOK'
    BY <1>0, <1>1, <2>1 DEF ClearPid, TypeOK, EndsFor, KilledOK
  <2>6. AttemptOK'
    BY <1>0, <1>1, <2>1 DEF ClearPid, TypeOK, EndsFor, EndsForAll, AttemptOK
  <2>7. PublishedOK'
    BY <1>0, <1>1, <2>1
       DEF ClearPid, TypeOK, EndsFor, EndsForAll, AttemptOK, PublishedOK
  <2>8. HandOK'
    BY <1>0, <1>1, <2>1 DEF ClearPid, TypeOK, EndsFor, AttemptOK, HandOK
  <2>9. NoCoreForgotten'
    <3>1. mine[c] \notin alive \ wedged
      BY <1>0, <1>1 DEF KilledOK
    <3>2. UNCHANGED <<process, alive, parent, hollow, wedged>>
      BY DEF ClearPid
    <3>3. QED BY <1>0, <2>1, <3>1, <3>2, EndForgetsNoCore
  <2>10. QED
    BY <2>2, <2>3, <2>4, <2>5, <2>6, <2>7, <2>8, <2>9 DEF IInv
<1>2. CASE pc[c] = "quit.clear"
  <2>1. /\ pc' = [pc EXCEPT ![c] = "exit"]
        /\ UNCHANGED <<mine, stale, join, ready, starting>>
    BY <1>2 DEF ClearPid
  <2>2. TypeOK'
    BY <1>0, <1>2, <2>1 DEF ClearPid, TypeOK, EndsFor
  <2>3. UsedOK'
    BY <1>0, <1>2, <2>1 DEF ClearPid, TypeOK, EndsFor, UsedOK
  <2>4. JoinOK'
    BY <1>0, <1>2, <2>1 DEF ClearPid, TypeOK, EndsFor, JoinOK
  <2>5. KilledOK'
    BY <1>0, <1>2, <2>1 DEF ClearPid, TypeOK, EndsFor, KilledOK
  <2>6. AttemptOK'
    BY <1>0, <1>2, <2>1 DEF ClearPid, TypeOK, EndsFor, EndsForAll, AttemptOK
  <2>7. PublishedOK'
    BY <1>0, <1>2, <2>1
       DEF ClearPid, TypeOK, EndsFor, EndsForAll, AttemptOK, PublishedOK
  <2>8. HandOK'
    BY <1>0, <1>2, <2>1 DEF ClearPid, TypeOK, EndsFor, AttemptOK, HandOK
  <2>9. NoCoreForgotten'
    BY <1>0, <1>2, <2>1
       DEF ClearPid, TypeOK, EndsFor, AttemptOK, HandOK, KilledOK, PublishedOK,
           NoCoreForgotten, Holding
  <2>10. QED
    BY <2>2, <2>3, <2>4, <2>5, <2>6, <2>7, <2>8, <2>9 DEF IInv
<1>3. QED BY <1>1, <1>2 DEF ClearPid

(* _quit stops the core.                                                   *)
LEMMA QuitKeepsIInv ==
  ASSUME IInv, NEW c \in Clients, Quit(c)
  PROVE  IInv'
<1> USE Identities
    DEF Labels, MaybeCore, Starting, Adopted, Published, Goto, Forget, Victim,
        fields, locals, cores, events, history, Quit
<1>0. /\ TypeOK /\ UsedOK /\ JoinOK /\ KilledOK /\ AttemptOK /\ PublishedOK
      /\ HandOK /\ NoCoreForgotten
  BY DEF IInv
<1>1. TypeOK'
  BY <1>0 DEF TypeOK
<1>2. UsedOK'
  BY <1>0 DEF TypeOK, UsedOK
<1>3. JoinOK'
  BY <1>0 DEF TypeOK, UsedOK, JoinOK
<1>4. KilledOK'
  BY <1>0 DEF TypeOK, UsedOK, KilledOK
<1>5. AttemptOK'
  BY <1>0 DEF TypeOK, JoinOK, AttemptOK
<1>6. PublishedOK'
  BY <1>0 DEF TypeOK, JoinOK, AttemptOK, PublishedOK, UsedOK
<1>7. HandOK'
  BY <1>0 DEF TypeOK, AttemptOK, PublishedOK, HandOK, UsedOK
<1>8. NoCoreForgotten'
  BY <1>0
     DEF TypeOK, AttemptOK, PublishedOK, HandOK, UsedOK, KilledOK,
         NoCoreForgotten, Holding
<1>9. QED BY <1>1, <1>2, <1>3, <1>4, <1>5, <1>6, <1>7, <1>8 DEF IInv

(* The application ends.                                                   *)
LEMMA AppEndsKeepsIInv ==
  ASSUME IInv, NEW a \in Apps, AppEnds(a)
  PROVE  IInv'
<1> USE Identities
    DEF Labels, MaybeCore, Starting, Adopted, Published, Goto, Forget, Victim,
        fields, locals, cores, events, history, AppEnds
<1>0. /\ TypeOK /\ UsedOK /\ JoinOK /\ KilledOK /\ AttemptOK /\ PublishedOK
      /\ HandOK /\ NoCoreForgotten
  BY DEF IInv
<1>1. TypeOK'
  BY <1>0 DEF TypeOK
<1>2. UsedOK'
  BY <1>0 DEF TypeOK, UsedOK
<1>3. JoinOK'
  BY <1>0 DEF TypeOK, UsedOK, JoinOK
<1>4. KilledOK'
  BY <1>0 DEF TypeOK, UsedOK, KilledOK
<1>5. AttemptOK'
  BY <1>0 DEF TypeOK, JoinOK, AttemptOK
<1>6. PublishedOK'
  BY <1>0 DEF TypeOK, JoinOK, AttemptOK, PublishedOK, UsedOK
<1>7. HandOK'
  BY <1>0 DEF TypeOK, AttemptOK, PublishedOK, HandOK, UsedOK
<1>8. NoCoreForgotten'
  BY <1>0
     DEF TypeOK, AttemptOK, PublishedOK, HandOK, UsedOK, KilledOK,
         NoCoreForgotten, Holding
<1>9. QED BY <1>1, <1>2, <1>3, <1>4, <1>5, <1>6, <1>7, <1>8 DEF IInv

(* The client's steps that are quiet.                                      *)
LEMMA QuietClientKeepsIInv ==
  ASSUME IInv, NEW c \in Clients,
         \/ ReapRead(c) \/ ReapConsume(c) \/ ReapCheck(c) \/ ReapKill(c)
         \/ Record(c) \/ CloseStdin(c)
  PROVE  IInv'
<1> USE Identities DEF Goto, fields, locals, cores, events, history
<1>1. TypeOK' /\ Quiet
  <2> USE DEF IInv, TypeOK, UsedOK, Labels, Starting, MaybeCore, Quiet,
              Reaping, Adopted
  <2>1. CASE ReapRead(c)
    BY <2>1 DEF ReapRead
  <2>2. CASE ReapConsume(c)
    BY <2>2 DEF ReapConsume
  <2>3. CASE ReapCheck(c)
    BY <2>3 DEF ReapCheck
  <2>4. CASE ReapKill(c)
    BY <2>4 DEF ReapKill
  <2>5. CASE Record(c)
    BY <2>5 DEF Record, Listen
  <2>6. CASE CloseStdin(c)
    BY <2>6 DEF CloseStdin
  <2>7. QED BY <2>1, <2>2, <2>3, <2>4, <2>5, <2>6
<1>2. QED BY <1>1, QuietSteps

(* What a core does, and an application that opens.                        *)
LEMMA QuietWorldKeepsIInv ==
  ASSUME IInv,
         \/ \E k \in Cores : LineArrives(k) \/ CorePrints(k) \/ CoreDies(k)
         \/ \E a \in Apps : AppOpens(a)
  PROVE  IInv'
<1> USE Identities DEF fields, locals, cores, events, history
<1>1. TypeOK' /\ Quiet
  <2> USE DEF IInv, TypeOK, Labels, Starting, MaybeCore, Quiet
  <2>1. ASSUME NEW k \in Cores, LineArrives(k) PROVE TypeOK' /\ Quiet
    BY <2>1 DEF LineArrives, Complete
  <2>2. ASSUME NEW k \in Cores, CorePrints(k) \/ CoreDies(k)
        PROVE  TypeOK' /\ Quiet
    BY <2>2 DEF CorePrints, CoreDies
  <2>3. ASSUME NEW a \in Apps, AppOpens(a) PROVE TypeOK' /\ Quiet
    BY <2>3 DEF AppOpens
  <2>4. QED BY <2>1, <2>2, <2>3
<1>2. QED BY <1>1, QuietSteps

(* No step breaks the invariant.                                           *)
LEMMA NextKeepsIInv == ASSUME IInv, [Next]_vars PROVE IInv'
<1>1. ASSUME NEW c \in Clients, EnsureStarted(c) \/ StartStep(c) \/ Quit(c)
      PROVE  IInv'
  <2>1. CASE EnsureStarted(c) \/ Quit(c)
    BY <2>1, EnsureStartedKeepsIInv, QuitKeepsIInv
  <2>2. CASE \E k \in Cores : Spawn(c, k)
    BY <2>2, SpawnKeepsIInv
  <2>3. CASE \/ ReapRead(c) \/ ReapConsume(c) \/ ReapCheck(c) \/ ReapKill(c)
             \/ Record(c) \/ CloseStdin(c)
    BY <2>3, QuietClientKeepsIInv
  <2>4. CASE SpawnFails(c) \/ Adopt(c) \/ Started(c)
    BY <2>4, SpawnFailsKeepsIInv, AdoptKeepsIInv, StartedKeepsIInv
  <2>5. CASE GiveUp(c) \/ Kill(c) \/ KillTimesOut(c) \/ ClearPid(c)
    BY <2>5, GiveUpKeepsIInv, KillKeepsIInv, KillTimesOutKeepsIInv,
       ClearPidKeepsIInv
  <2>6. QED BY <1>1, <2>1, <2>2, <2>3, <2>4, <2>5 DEF StartStep
<1>2. ASSUME NEW k \in Cores,
             LineArrives(k) \/ ExitArrives(k) \/ CorePrints(k) \/ CoreDies(k)
      PROVE  IInv'
  BY <1>2, ExitArrivesKeepsIInv, QuietWorldKeepsIInv
<1>3. ASSUME NEW a \in Apps, AppOpens(a) \/ AppEnds(a) PROVE IInv'
  BY <1>3, AppEndsKeepsIInv, QuietWorldKeepsIInv
<1>4. CASE UNCHANGED vars
  BY <1>4 DEF vars, fields, locals, cores, events, history, IInv, TypeOK,
              UsedOK, JoinOK, KilledOK, AttemptOK, PublishedOK, Published, HandOK,
              NoCoreForgotten
<1>5. QED BY <1>1, <1>2, <1>3, <1>4 DEF Next

(* Every reachable state satisfies the invariant: who is inside _start is  *)
(* _starting, what is published is the running core, and a live core is    *)
(* known to its application, unless a stop has given up on it.             *)
THEOREM Invariance == Spec => []IInv
<1>1. Init => IInv
  BY InitIInv
<1>2. IInv /\ [Next]_vars => IInv'
  BY NextKeepsIInv
<1>3. QED BY <1>1, <1>2, PTL DEF Spec

(* ensureStarted: concurrent callers share one attempt, as long as no      *)
(* start has returned a core that was no longer _process.                  *)
THEOREM SharedAttempt == Spec => []OneAttempt
<1>1. IInv => OneAttempt
  <2> SUFFICES ASSUME IInv, NEW a \in Apps, ~hollow[a]
               PROVE  Cardinality({c \in Clients :
                                     App(c) = a /\ pc[c] \in Starting}) <= 1
    BY DEF OneAttempt
  <2> DEFINE S == {c \in Clients : App(c) = a /\ pc[c] \in Starting}
  <2>1. \A c \in S : c = starting[a]
    BY DEF IInv, AttemptOK
  <2>2. CASE S = {}
    BY <2>2, FS_EmptySet
  <2>3. CASE S # {}
    <3>1. S = {starting[a]}
      BY <2>1, <2>3
    <3> HIDE DEF S
    <3>2. Cardinality(S) = 1
      BY <3>1, FS_Singleton
    <3>3. QED BY <3>2 DEF S
  <2>4. QED BY <2>2, <2>3
<1>2. QED BY <1>1, Invariance, PTL

(* The endpoint a caller is given is the address of the core that runs:    *)
(* the exit callback and stop take both away together.                     *)
THEOREM CurrentEndpoint == Spec => []EndpointCurrent
<1>1. IInv => EndpointCurrent
  BY Identities
     DEF IInv, PublishedOK, Published, EndpointCurrent, Running, TypeOK
<1>2. QED BY <1>1, Invariance, PTL

(* The supervisor knows every core it has spawned and that is alive, those *)
(* excepted whose exit a stop has waited for in vain.                      *)
THEOREM KnownCores == Spec => []NoCoreForgotten
<1>1. IInv => NoCoreForgotten
  BY DEF IInv
<1>2. QED BY <1>1, Invariance, PTL

-----------------------------------------------------------------------------
(* The pid file, with one instance of the application.                     *)
OneApp == \A a, b \in Apps : a = b

(* A step that leaves the file and the client at "record" alone.           *)
Unrecording ==
  /\ UNCHANGED <<pidFile, unrecorded>>
  /\ \A a \in Apps : /\ ~hollow'[a] => ~hollow[a]
                     /\ process'[a] \in {process[a], Nil}
  /\ \A d \in Clients :
       pc[d] \in {"quit.kill", "quit.clear", "exit"} =>
       pc'[d] \in {"quit.kill", "quit.clear", "exit"}
  /\ \A a \in Apps :
       ~hollow[a] /\ starting[a] # Nil /\ pc[starting[a]] = "record" =>
       starting'[a] = starting[a] /\ pc'[starting[a]] = "record"

(* Such a step keeps what is said of the file.                             *)
LEMMA UnrecordingSteps == ASSUME RecordedOK, Unrecording PROVE RecordedOK'
BY DEF RecordedOK, Unrecording, Quitting

(* So does the end of an attempt that is not at "record".                  *)
LEMMA EndUnrecords ==
  ASSUME IInv, NEW c \in Clients, EndsFor(c),
         pc[c] \in Starting \ {"record"}, UNCHANGED <<pidFile, unrecorded>>,
         \A a \in Apps : /\ ~hollow'[a] => ~hollow[a]
                         /\ process'[a] \in {process[a], Nil}
  PROVE  Unrecording
<1> USE Identities DEF Starting
<1>1. \A d \in Clients :
        pc[d] \in {"quit.kill", "quit.clear", "exit"} =>
        pc'[d] \in {"quit.kill", "quit.clear", "exit"}
  BY DEF EndsFor
<1>2. ASSUME NEW a \in Apps, ~hollow[a], starting[a] # Nil,
             pc[starting[a]] = "record"
      PROVE  starting'[a] = starting[a] /\ pc'[starting[a]] = "record"
  <2>1. starting[a] \in Clients /\ App(starting[a]) = a
    BY <1>2 DEF IInv, TypeOK, JoinOK
  <2>2. App(c) # a
    BY <1>2 DEF IInv, AttemptOK
  <2>3. QED BY <1>2, <2>1, <2>2 DEF EndsFor
<1>3. QED BY <1>1, <1>2 DEF Unrecording

(* With one application no step breaks it.                                 *)
LEMMA NextKeepsRecordedOK ==
  ASSUME OneApp, IInv, RecordedOK, [Next]_vars
  PROVE  RecordedOK'
<1> USE Identities DEF Goto, fields, locals, cores, events, history
<1>0. /\ TypeOK /\ UsedOK /\ JoinOK /\ KilledOK /\ AttemptOK /\ PublishedOK
      /\ HandOK
  BY DEF IInv
<1>1. ASSUME NEW c \in Clients, EnsureStarted(c) \/ StartStep(c) \/ Quit(c)
      PROVE  RecordedOK'
  <2>1. App(c) \in Apps /\ \A a \in Apps : a = App(c)
    BY DEF OneApp
  <2>2. CASE EnsureStarted(c)
    BY <1>0, <2>2, UnrecordingSteps DEF EnsureStarted, TypeOK, Unrecording
  <2>3. CASE ReapRead(c) \/ ReapCheck(c) \/ ReapKill(c) \/ CloseStdin(c)
    <3>1. Unrecording
      BY <1>0, <2>3
         DEF ReapRead, ReapCheck, ReapKill, CloseStdin, TypeOK, Unrecording
    <3>2. QED BY <3>1, UnrecordingSteps
  <2>4. CASE ReapConsume(c)
    <3>1. ~hollow[App(c)] => process[App(c)] = Nil
      BY <1>0, <2>4
         DEF ReapConsume, AttemptOK, PublishedOK, Published, Starting, Adopted
    <3>2. QED BY <2>1, <2>4, <3>1 DEF ReapConsume, RecordedOK
  <2>5. CASE SpawnFails(c)
    <3>1. EndsFor(c)
      BY <1>0, <2>5, AttemptEndsFor DEF SpawnFails
    <3>2. QED
      BY <2>5, <3>1, EndUnrecords, UnrecordingSteps DEF SpawnFails, Starting
  <2>6. CASE \E k \in Cores : Spawn(c, k)
    <3>1. Unrecording
      BY <1>0, <2>6 DEF Spawn, TypeOK, Unrecording
    <3>2. QED BY <3>1, UnrecordingSteps
  <2>7. CASE Adopt(c)
    <3>1. ~hollow[App(c)] => starting[App(c)] = c
      BY <1>0, <2>7 DEF Adopt, AttemptOK, Starting
    <3>2. QED BY <1>0, <2>1, <2>7, <3>1 DEF Adopt, RecordedOK, TypeOK
  <2>8. CASE Record(c)
    <3>1. ~hollow[App(c)] => process[App(c)] \in {mine[c], Nil}
      BY <1>0, <2>8
         DEF Record, AttemptOK, PublishedOK, Published, Starting, Adopted
    <3>2. QED BY <2>1, <2>8, <3>1 DEF Record, Listen, RecordedOK
  <2>9. CASE Started(c)
    <3>1. EndsFor(c)
      BY <1>0, <2>9, AttemptEndsFor DEF Started
    <3>2. \A a \in Apps : ~hollow'[a] => ~hollow[a]
      BY <1>0, <2>9 DEF Started, TypeOK
    <3>3. QED
      BY <2>9, <3>1, <3>2, EndUnrecords, UnrecordingSteps DEF Started, Starting
  <2>10. CASE GiveUp(c)
    <3>1. pc[c] = "ready" /\ Forget(App(c)) /\ UNCHANGED <<pidFile, hollow>>
      BY <2>10 DEF GiveUp
    <3>2. \A a \in Apps : process'[a] = Nil
      BY <1>0, <2>1, <3>1 DEF Forget, TypeOK
    <3>3. QED BY <3>2 DEF RecordedOK
  <2>11. CASE Kill(c) \/ KillTimesOut(c)
    <3>1. Unrecording
      BY <1>0, <2>11 DEF Kill, KillTimesOut, AfterKill, TypeOK, Unrecording
    <3>2. QED BY <3>1, UnrecordingSteps
  <2>12. CASE ClearPid(c)
    <3>1. CASE pc[c] = "clear"
      <4>1. ~hollow[App(c)] => process[App(c)] = Nil
        BY <1>0, <3>1
           DEF AttemptOK, PublishedOK, Published, Starting, Adopted
      <4>2. QED BY <2>1, <2>12, <4>1 DEF ClearPid, RecordedOK
    <3>2. CASE pc[c] = "quit.clear"
      <4>1. pc' = [pc EXCEPT ![c] = "exit"]
        BY <2>12, <3>2 DEF ClearPid
      <4>2. Quitting(App(c))'
        BY <1>0, <4>1 DEF Quitting, TypeOK
      <4>3. QED BY <2>1, <4>2 DEF RecordedOK
    <3>3. QED BY <2>12, <3>1, <3>2 DEF ClearPid
  <2>13. CASE Quit(c)
    <3>1. \A a \in Apps : process'[a] = Nil
      BY <1>0, <2>1, <2>13 DEF Quit, Forget, TypeOK
    <3>2. QED BY <3>1 DEF RecordedOK
  <2>14. QED
    BY <1>1, <2>2, <2>3, <2>4, <2>5, <2>6, <2>7, <2>8, <2>9, <2>10, <2>11,
       <2>12, <2>13
       DEF StartStep
<1>2. ASSUME NEW k \in Cores,
             LineArrives(k) \/ ExitArrives(k) \/ CorePrints(k) \/ CoreDies(k)
      PROVE  RecordedOK'
  <2>1. Unrecording
    BY <1>0, <1>2
       DEF LineArrives, ExitArrives, CorePrints, CoreDies, TypeOK, Unrecording
  <2>2. QED BY <2>1, UnrecordingSteps
<1>3. ASSUME NEW a \in Apps, AppOpens(a) PROVE RecordedOK'
  <2>1. Unrecording
    BY <1>0, <1>3 DEF AppOpens, TypeOK, Unrecording
  <2>2. QED BY <2>1, UnrecordingSteps
<1>4. ASSUME NEW a \in Apps, AppEnds(a) PROVE RecordedOK'
  <2>1. \A b \in Apps : process'[b] = Nil
    BY <1>0, <1>4 DEF AppEnds, TypeOK, OneApp
  <2>2. QED BY <2>1 DEF RecordedOK
<1>5. CASE UNCHANGED vars
  BY <1>5 DEF vars, RecordedOK, Quitting
<1>6. QED BY <1>1, <1>2, <1>3, <1>4, <1>5 DEF Next

(* core.pid: with one instance of the application, a core that lives while *)
(* no start and no stop is under way is in the file, so that a later run   *)
(* can reap it; unless its pid could not be written, or a stop has given   *)
(* up on it.                                                               *)
THEOREM RecordedCore == ASSUME OneApp PROVE Spec => []RecordedAtRest
<1>1. Init => IInv /\ RecordedOK
  BY InitIInv DEF Init, RecordedOK
<1>2. IInv /\ RecordedOK /\ [Next]_vars => (IInv /\ RecordedOK)'
  BY NextKeepsIInv, NextKeepsRecordedOK
<1>3. IInv /\ RecordedOK => RecordedAtRest
  <2> SUFFICES ASSUME IInv, RecordedOK, NEW a \in Apps, ~hollow[a],
                      \A c \in Clients : App(c) = a => pc[c] = "idle",
                      NEW k \in alive \ (wedged \cup unrecorded), parent[k] = a
               PROVE  pidFile = k
    BY DEF RecordedAtRest, AtRest
  <2>1. process[a] = k
    BY DEF IInv, NoCoreForgotten, Holding
  <2>2. k # Nil
    BY Identities DEF IInv, TypeOK
  <2>3. starting[a] = Nil
    BY Identities DEF IInv, TypeOK, JoinOK, AttemptOK, Starting
  <2>4. ~Quitting(a)
    BY DEF Quitting
  <2>5. QED BY <2>1, <2>2, <2>3, <2>4 DEF RecordedOK
<1>4. QED BY <1>1, <1>2, <1>3, PTL DEF Spec
=============================================================================
