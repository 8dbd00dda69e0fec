---------------------------- MODULE CoreProcess ----------------------------
(***************************************************************************)
(* The desktop supervisor of the core process (core_process.dart):         *)
(* ensureStarted with its shared attempt, _start, stop, and the pid file   *)
(* by which a later run of the application reaps what an earlier one left. *)
(* Dart runs one callback at a time: an action is what happens between two *)
(* awaits, the awaiting callers' resumption (microtasks) included.         *)
(*                                                                         *)
(* The processes are external: a core prints its address at some time, and *)
(* dies at some time; one that is killed dies before the killer's timeouts *)
(* have passed, or later, or never.  Any operation on the pid file may     *)
(* fail: the code swallows the exception.  Pids are not reused here.       *)
(***************************************************************************)
EXTENDS Naturals, FiniteSets

CONSTANTS Apps,     \* instances of the application (they share the pid file)
          Callers,  \* calls in progress in one of them
          Cores,    \* core processes; a bound on the spawns
          Nil

ASSUME ProcessAssumption ==
  Nil \notin Cores /\ Nil \notin Apps \X Callers /\ Nil \notin Apps

Clients == Apps \X Callers
App(c) == c[1]

VARIABLES
  open,      \* the application runs
  process,   \* _process
  endpoint,  \* _endpoint: the core whose address it is
  starting,  \* _starting: the client whose attempt it is
  sub,       \* _stdoutSub: the core it listens to
  pc,        \* where each client is
  mine,      \* the core its _start spawned, or that its stop kills
  stale,     \* the pid its reaper has read
  join,      \* the attempt it waits for
  ready,     \* the completer of its _start
  alive,     \* the cores that run
  used,      \* the cores that were ever spawned
  printed,   \* the cores that have printed their address
  parent,    \* the running application a core was spawned by, or Nil
  heard,     \* the cores whose output is listened to
  watched,   \* the cores whose exit callback has yet to run
  pidFile,   \* core.pid
  hollow,    \* history: this run of the application has had a start that
             \*   returned although its core was no longer _process
  wedged,    \* history: the cores a stop has given up on
  unrecorded \* history: the cores whose pid could not be written

fields == <<process, endpoint, starting, sub>>
locals == <<pc, mine, stale, join, ready>>
cores == <<alive, used, printed, parent>>
events == <<heard, watched>>
history == <<hollow, wedged, unrecorded>>
vars == <<open, fields, locals, cores, events, pidFile, history>>

Init ==
  /\ open = [a \in Apps |-> FALSE]
  /\ process = [a \in Apps |-> Nil] /\ endpoint = process
  /\ starting = process /\ sub = process
  /\ pc = [c \in Clients |-> "idle"]
  /\ mine = [c \in Clients |-> Nil] /\ stale = mine /\ join = mine
  /\ ready = [c \in Clients |-> "none"]
  /\ alive = {} /\ used = {} /\ printed = {}
  /\ parent = [k \in Cores |-> Nil]
  /\ heard = {} /\ watched = {}
  /\ pidFile = Nil
  /\ hollow = [a \in Apps |-> FALSE] /\ wedged = {} /\ unrecorded = {}

Goto(c, label) ==
  /\ pc' = [pc EXCEPT ![c] = label]
  /\ UNCHANGED <<mine, stale, join, ready>>

-----------------------------------------------------------------------------
(* ensureStarted.  (With an endpoint and a process it returns at once.)    *)

Running(a) == endpoint[a] # Nil /\ process[a] # Nil

(* Mutant: an attempt under way is not looked for. *)
EnsureStartedAlone(c) ==
  LET a == App(c)
  IN /\ open[a] /\ pc[c] = "idle" /\ ~Running(a)
     /\ Goto(c, "reap")
     /\ starting' = [starting EXCEPT ![a] = c]
     /\ UNCHANGED <<open, process, endpoint, sub, cores, events, pidFile, history>>

EnsureStarted(c) ==
  LET a == App(c)
  IN /\ open[a] /\ pc[c] = "idle" /\ ~Running(a)
     /\ IF starting[a] # Nil
        THEN /\ pc' = [pc EXCEPT ![c] = "join"]
             /\ join' = [join EXCEPT ![c] = starting[a]]
             /\ UNCHANGED <<mine, stale, ready, starting>>
        ELSE /\ Goto(c, "reap")
             /\ starting' = [starting EXCEPT ![a] = c]
     /\ UNCHANGED <<open, process, endpoint, sub, cores, events, pidFile, history>>

(* The attempt of c ends, and the finally clears _starting, whosever it is.*)
(* Those who waited fail or return with it; but if it succeeded and no     *)
(* process is there, each of them begins an attempt of its own.            *)
AttemptEnds(c, ok) ==
  LET a == App(c)
      waiting == {d \in Clients : pc[d] = "join" /\ join[d] = c}
      again == IF ok /\ process[a] = Nil THEN waiting ELSE {}
  IN /\ pc' = [d \in Clients |-> IF d \in again THEN "reap"
                                 ELSE IF d \in waiting \cup {c} THEN "idle"
                                 ELSE pc[d]]
     /\ join' = [d \in Clients |-> IF d \in waiting THEN Nil ELSE join[d]]
     /\ mine' = [mine EXCEPT ![c] = Nil]
     /\ stale' = [stale EXCEPT ![c] = Nil]
     /\ ready' = [ready EXCEPT ![c] = "none"]
     /\ \E last \in IF again = {} THEN {Nil} ELSE again :
          starting' = [starting EXCEPT ![a] = last]

-----------------------------------------------------------------------------
(* _reapStaleCore.                                                         *)

(* There is no file, or it cannot be read; or its pid is taken.            *)
ReapRead(c) ==
  /\ pc[c] = "reap"
  /\ \/ Goto(c, "spawn")
     \/ /\ pidFile # Nil
        /\ stale' = [stale EXCEPT ![c] = pidFile]
        /\ pc' = [pc EXCEPT ![c] = "consume"]
        /\ UNCHANGED <<mine, join, ready>>
  /\ UNCHANGED <<open, fields, cores, events, pidFile, history>>

ReapConsume(c) ==
  /\ pc[c] = "consume"
  /\ pidFile' \in {Nil, pidFile}
  /\ Goto(c, "check")
  /\ UNCHANGED <<open, fields, cores, events, history>>

(* _isOwnCoreProcess, which says no when it cannot tell. *)
ReapCheck(c) ==
  /\ pc[c] = "check"
  /\ \/ Goto(c, "spawn")
     \/ stale[c] \in alive /\ Goto(c, "slay")
  /\ UNCHANGED <<open, fields, cores, events, pidFile, history>>

(* The result of the kill is not looked at. *)
ReapKill(c) ==
  /\ pc[c] = "slay"
  /\ alive' \in {alive, alive \ {stale[c]}}
  /\ Goto(c, "spawn")
  /\ UNCHANGED <<open, fields, used, printed, parent, events, pidFile, history>>

-----------------------------------------------------------------------------
(* _start, once the way is clear.                                          *)

(* No executable, or it cannot be spawned. *)
SpawnFails(c) ==
  /\ pc[c] = "spawn"
  /\ AttemptEnds(c, FALSE)
  /\ UNCHANGED <<open, process, endpoint, sub, cores, events, pidFile, history>>

Spawn(c, k) ==
  /\ pc[c] = "spawn" /\ k \notin used
  /\ used' = used \cup {k} /\ alive' = alive \cup {k}
  /\ parent' = [parent EXCEPT ![k] = App(c)]
  /\ mine' = [mine EXCEPT ![c] = k]
  /\ pc' = [pc EXCEPT ![c] = "adopt"]
  /\ UNCHANGED <<open, fields, stale, join, ready, printed, events, pidFile,
                 history>>

(* Process.start has returned. *)
Adopt(c) ==
  /\ pc[c] = "adopt"
  /\ process' = [process EXCEPT ![App(c)] = mine[c]]
  /\ Goto(c, "record")
  /\ UNCHANGED <<open, endpoint, starting, sub, cores, events, pidFile, history>>

Listen(c) ==
  /\ heard' = heard \cup {mine[c]} /\ watched' = watched \cup {mine[c]}
  /\ sub' = [sub EXCEPT ![App(c)] = mine[c]]

(* Mutant: the pid is not recorded. *)
RecordNothing(c) ==
  /\ pc[c] = "record"
  /\ Listen(c)
  /\ Goto(c, "stdin")
  /\ UNCHANGED <<open, process, endpoint, starting, cores, pidFile, history>>

(* _recordCorePid, which may fail before or after it has truncated the     *)
(* file; then the listeners on its output and its exit.                    *)
Record(c) ==
  /\ pc[c] = "record"
  /\ pidFile' \in {mine[c], pidFile, Nil}
  /\ unrecorded' =
       IF pidFile' = mine[c] THEN unrecorded ELSE unrecorded \cup {mine[c]}
  /\ Listen(c)
  /\ Goto(c, "stdin")
  /\ UNCHANGED <<open, process, endpoint, starting, cores, hollow, wedged>>

CloseStdin(c) ==
  /\ pc[c] = "stdin"
  /\ Goto(c, "ready")
  /\ UNCHANGED <<open, fields, cores, events, pidFile, history>>

Complete(k, result) ==
  ready' = [c \in Clients |->
              IF pc[c] \in {"stdin", "ready"} /\ mine[c] = k /\ ready[c] = "none"
              THEN result ELSE ready[c]]

(* handleLine *)
LineArrives(k) ==
  /\ k \in printed \cap heard
  /\ Complete(k, "port")
  /\ UNCHANGED <<open, fields, pc, mine, stale, join, cores, events, pidFile,
                 history>>

(* Mutant: the endpoint of a core that has died is kept. *)
ExitArrivesKeepsEndpoint(k) ==
  /\ k \in watched /\ k \notin alive
  /\ watched' = watched \ {k}
  /\ Complete(k, "error")
  /\ process' = [a \in Apps |-> IF process[a] = k THEN Nil ELSE process[a]]
  /\ UNCHANGED <<open, endpoint, starting, sub, pc, mine, stale, join, cores,
                 heard, pidFile, history>>

(* The exit callback. *)
ExitArrives(k) ==
  /\ k \in watched /\ k \notin alive
  /\ watched' = watched \ {k}
  /\ Complete(k, "error")
  /\ process' = [a \in Apps |-> IF process[a] = k THEN Nil ELSE process[a]]
  /\ endpoint' = [a \in Apps |-> IF process[a] = k THEN Nil ELSE endpoint[a]]
  /\ UNCHANGED <<open, starting, sub, pc, mine, stale, join, cores, heard,
                 pidFile, history>>

(* The address is there: _start and ensureStarted return it, without       *)
(* looking whether the core is still _process.                             *)
Started(c) ==
  LET a == App(c)
  IN /\ pc[c] = "ready" /\ ready[c] = "port"
     /\ endpoint' = [endpoint EXCEPT ![a] = mine[c]]
     /\ AttemptEnds(c, TRUE)
     /\ hollow' = [hollow EXCEPT ![a] = @ \/ process[a] # mine[c]]
     /\ UNCHANGED <<open, process, sub, cores, events, pidFile, wedged,
                    unrecorded>>

-----------------------------------------------------------------------------
(* stop, for a start that fails and for _quit.                             *)

(* Its first callback forgets the process and cancels the subscriptions. *)
Forget(a) ==
  /\ process' = [process EXCEPT ![a] = Nil]
  /\ endpoint' = [endpoint EXCEPT ![a] = Nil]
  /\ sub' = [sub EXCEPT ![a] = Nil]
  /\ heard' = heard \ {sub[a]}

Victim(c, label) ==
  /\ pc' = [pc EXCEPT ![c] = label]
  /\ mine' = [mine EXCEPT ![c] = process[App(c)]]
  /\ UNCHANGED <<stale, join, ready>>

(* Mutants: the failed start leaves its core; it waits without a timeout.  *)
GiveUpNoStop(c) ==
  /\ pc[c] = "ready" /\ ready[c] # "port"
  /\ Forget(App(c)) /\ AttemptEnds(c, FALSE)
  /\ UNCHANGED <<open, cores, watched, pidFile, history>>

GiveUpNoTimeout(c) ==
  /\ pc[c] = "ready" /\ ready[c] = "error"
  /\ Forget(App(c))
  /\ IF process[App(c)] = Nil THEN AttemptEnds(c, FALSE)
     ELSE Victim(c, "kill") /\ UNCHANGED starting
  /\ UNCHANGED <<open, cores, watched, pidFile, history>>

(* The core died, or 20 seconds have passed: stop, and rethrow. *)
GiveUp(c) ==
  /\ pc[c] = "ready" /\ ready[c] # "port"
  /\ Forget(App(c))
  /\ IF process[App(c)] = Nil THEN AttemptEnds(c, FALSE)
     ELSE Victim(c, "kill") /\ UNCHANGED starting
  /\ UNCHANGED <<open, cores, watched, pidFile, history>>

AfterKill(c) == Goto(c, IF pc[c] = "kill" THEN "clear" ELSE "quit.clear")

(* The core exits before the last timeout of stop... *)
Kill(c) ==
  /\ pc[c] \in {"kill", "quit.kill"}
  /\ alive' = alive \ {mine[c]}
  /\ AfterKill(c)
  /\ UNCHANGED <<open, fields, used, printed, parent, events, pidFile, history>>

(* ... or it does not, and stop goes on all the same. *)
KillTimesOut(c) ==
  /\ pc[c] \in {"kill", "quit.kill"} /\ mine[c] \in alive
  /\ wedged' = wedged \cup {mine[c]}
  /\ AfterKill(c)
  /\ UNCHANGED <<open, fields, cores, events, pidFile, hollow, unrecorded>>

(* _clearCorePid, whatever pid is recorded by now. *)
ClearPid(c) ==
  /\ pc[c] \in {"clear", "quit.clear"}
  /\ pidFile' \in {Nil, pidFile}
  /\ IF pc[c] = "clear" THEN AttemptEnds(c, FALSE)
     ELSE Goto(c, "exit") /\ UNCHANGED starting
  /\ UNCHANGED <<open, process, endpoint, sub, cores, events, history>>

Quit(c) ==
  /\ open[App(c)] /\ pc[c] = "idle"
  /\ Forget(App(c))
  /\ Victim(c, IF process[App(c)] = Nil THEN "exit" ELSE "quit.kill")
  /\ UNCHANGED <<open, starting, cores, watched, pidFile, history>>

-----------------------------------------------------------------------------
(* Processes.                                                              *)

AppOpens(a) ==
  /\ ~open[a] /\ open' = [open EXCEPT ![a] = TRUE]
  /\ UNCHANGED <<fields, locals, cores, events, pidFile, history>>

(* The application crashes, or _quit's exit(0), which waits for stop with  *)
(* a timeout only: all it knew is gone and its cores are orphans.          *)
AppEnds(a) ==
  /\ open[a] /\ open' = [open EXCEPT ![a] = FALSE]
  /\ process' = [process EXCEPT ![a] = Nil]
  /\ endpoint' = [endpoint EXCEPT ![a] = Nil]
  /\ starting' = [starting EXCEPT ![a] = Nil]
  /\ sub' = [sub EXCEPT ![a] = Nil]
  /\ LET Cleared(f, v) == [c \in Clients |-> IF App(c) = a THEN v ELSE f[c]]
     IN /\ pc' = Cleared(pc, "idle") /\ ready' = Cleared(ready, "none")
        /\ mine' = Cleared(mine, Nil) /\ stale' = Cleared(stale, Nil)
        /\ join' = Cleared(join, Nil)
  /\ parent' = [k \in Cores |-> IF parent[k] = a THEN Nil ELSE parent[k]]
  /\ heard' = {k \in heard : parent[k] # a}
  /\ watched' = {k \in watched : parent[k] # a}
  /\ hollow' = [hollow EXCEPT ![a] = FALSE]
  /\ UNCHANGED <<alive, used, printed, pidFile, wedged, unrecorded>>

CorePrints(k) ==
  /\ k \in alive \ printed /\ printed' = printed \cup {k}
  /\ UNCHANGED <<open, fields, locals, alive, used, parent, events, pidFile,
                 history>>

(* It crashes, cannot bind its port, or watchParent sees its parent gone. *)
CoreDies(k) ==
  /\ k \in alive /\ alive' = alive \ {k}
  /\ UNCHANGED <<open, fields, locals, used, printed, parent, events, pidFile,
                 history>>

-----------------------------------------------------------------------------
StartStep(c) ==
  \/ ReapRead(c) \/ ReapConsume(c) \/ ReapCheck(c) \/ ReapKill(c)
  \/ SpawnFails(c) \/ (\E k \in Cores : Spawn(c, k))
  \/ Adopt(c) \/ Record(c) \/ CloseStdin(c) \/ Started(c)
  \/ GiveUp(c) \/ Kill(c) \/ KillTimesOut(c) \/ ClearPid(c)

Next ==
  \/ \E c \in Clients : EnsureStarted(c) \/ StartStep(c) \/ Quit(c)
  \/ \E k \in Cores :
       LineArrives(k) \/ ExitArrives(k) \/ CorePrints(k) \/ CoreDies(k)
  \/ \E a \in Apps : AppOpens(a) \/ AppEnds(a)

Spec == Init /\ [][Next]_vars

(* The event loop runs, and every await of _start and stop ends.  The ones *)
(* for the address and for the exit have timeouts; of the others (the pid  *)
(* file, Process.start, stdin.close, tasklist and the first taskkill) it   *)
(* is assumed that they return.                                            *)
FairSpec == Spec /\ \A c \in Clients : WF_vars(StartStep(c))

-----------------------------------------------------------------------------
(* Properties.                                                             *)

Holding == {"adopt", "record", "stdin", "ready", "kill", "clear", "quit.kill",
            "quit.clear"}
Starting == {"reap", "consume", "check", "slay", "spawn", "adopt", "record",
             "stdin", "ready", "kill", "clear"}

(* "Concurrent callers share a single start attempt"                       *)
(* (core_process.dart:61): true unless a start has returned whose core was *)
(* no longer _process; then each caller that waited for it begins one.     *)
OneAttempt ==
  \A a \in Apps : ~hollow[a] =>
    Cardinality({c \in Clients : App(c) = a /\ pc[c] \in Starting}) <= 1

(* The endpoint callers are given is that of the process that runs.        *)
EndpointCurrent ==
  \A a \in Apps : ~hollow[a] /\ Running(a) => endpoint[a] = process[a]

(* The supervisor never forgets a core that is up: it is _process, or a    *)
(* start or a stop has it in hand; unless a stop has killed it and did not *)
(* see it exit in its time (core_process.dart:221, 235).                   *)
NoCoreForgotten ==
  \A a \in Apps, k \in alive \ wedged : ~hollow[a] /\ parent[k] = a =>
    \/ process[a] = k
    \/ \E c \in Clients : App(c) = a /\ pc[c] \in Holding /\ mine[c] = k

AtRest(a) ==
  open[a] /\ \A c \in Clients : App(c) = a => pc[c] = "idle"

(* "Records the live core pid so a later run can reap it if this one dies  *)
(* without stopping it" (core_process.dart:242): with one instance of the  *)
(* application, whenever no start or stop is under way, every core of this *)
(* run that lives is the recorded one; unless its pid could not be written *)
(* or a stop has given it up.  (Of that the code says "Already gone or     *)
(* wedged; the stale-pid reaper covers next launch", line 223; but line    *)
(* 239 deletes the file, and the next launch finds no pid to reap.)        *)
RecordedAtRest ==
  \A a \in Apps : AtRest(a) /\ ~hollow[a] =>
    \A k \in alive \ (wedged \cup unrecorded) : parent[k] = a => pidFile = k

(* Every call of ensureStarted returns, one that waits for another's       *)
(* attempt included (or ends with the application).  Said of one client:   *)
(* the specification treats them all alike.                                *)
EveryStartReturns ==
  LET c == CHOOSE c \in Clients : TRUE
  IN pc[c] \in Starting \cup {"join"} ~> pc[c] = "idle"
=============================================================================
