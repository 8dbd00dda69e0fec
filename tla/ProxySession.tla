---------------------------- MODULE ProxySession ----------------------------
(***************************************************************************)
(* The desktop client's use of the core: the start, hot-switch and stop    *)
(* flows of the node list (home_page.dart) and of the dashboard            *)
(* (connections_page.dart), the system-proxy switch (settings.dart), and   *)
(* _quit (app.dart).  Each is a Dart async function: it runs alone between *)
(* two awaits and interleaves with every other flow, with the core and     *)
(* with the operating system at each of them.                              *)
(*                                                                         *)
(* The core is seen through its RPCs, each executed in one step (it holds  *)
(* instanceMu throughout), as CoreService says, which CoreInstance         *)
(* implements.  All configs ask for the same inbound port, so that an      *)
(* unreachable box makes every later Start fail.                           *)
(***************************************************************************)
EXTENDS Naturals

CONSTANTS Profiles,  \* proxy nodes
          Flows,     \* start/stop flows that may be in progress together
          Toggles,   \* setSystemProxy calls that may be in progress together
          Scenes,    \* what a user does and what may go wrong around the
                     \*   client: a behaviour has one of these
          Nil        \* no profile (connectedProfile 0), no box

ASSUME SessionAssumption ==
  /\ Nil \notin Profiles
  /\ Scenes \subseteq
       [flows : SUBSET Flows, toggles : SUBSET Toggles, nodes : SUBSET Profiles,
        settings : SUBSET BOOLEAN,    \* the system-proxy setting at first
        faults : SUBSET {"crash",     \* the core process dies
                         "command",   \* an OS proxy command fails
                         "save",      \* the settings cannot be written
                         "answer",    \* an RPC's deadline passes
                         "late"}]     \* ... and the core runs it afterwards

VARIABLES
  scene,      \* the scene, which does not change
  process,    \* the core process is up and reachable
  active,     \* the profile of the core's instance
  lost,       \* the profile of a box that a rejected Start made unreachable
  late,       \* requests the client gave up and the core may yet run
  connected,  \* connectedProfile: the node the UI shows as running
  busy,       \* the dashboard's _isStartingOrStopping
  setting,    \* settings.systemProxy
  osProxy,    \* the OS sends its traffic to the mixed port
  at,         \* where each flow is
  dash,       \* whether it was begun on the dashboard
  want,       \* the profile it starts
  snap,       \* the systemProxy setting it read when it began
  rpc,        \* the answer to its Start or Stop RPC
  toggle,     \* the setSystemProxy calls
  quit,       \* progress of _quit
  doubt,      \* history: the core died or an answer was lost since the last
              \*   flow that heard from the core
  unsaved,    \* history: the last flip of the switch took in the OS and was
              \*   not stored, and no start has enabled the proxy since
  crossed     \* history: two flows, a flow and the switch or two flips of it
              \*   were in progress together, a request ran after its
              \*   deadline, or an OS command of a flow failed

core == <<process, active, lost, late>>
flowVars == <<at, dash, want, snap, rpc>>
history == <<doubt, unsaved, crossed>>
vars == <<scene, core, connected, busy, setting, osProxy, flowVars, toggle, quit,
          history>>

Requests == [kind : {"start", "stop"}, profile : Profiles \cup {Nil}]

(* The app has connected to the core; nothing has been started yet. *)
Init ==
  /\ scene \in Scenes
  /\ process = TRUE
  /\ active = Nil /\ lost = Nil /\ late = {}
  /\ connected = Nil /\ busy = FALSE
  /\ setting \in scene.settings /\ osProxy = FALSE
  /\ at = [f \in Flows |-> "idle"]
  /\ dash = [f \in Flows |-> FALSE]
  /\ want = [f \in Flows |-> Nil]
  /\ snap = [f \in Flows |-> FALSE]
  /\ rpc = [f \in Flows |-> "none"]
  /\ toggle = [t \in Toggles |-> [at |-> "idle", value |-> FALSE]]
  /\ quit = "no"
  /\ doubt = FALSE /\ unsaved = FALSE /\ crossed = FALSE

-----------------------------------------------------------------------------
(* The core, as CoreService describes it.                                  *)

StopsInstance == active' = Nil /\ UNCHANGED <<process, lost>>

(* A Start rejected because of a running instance loses that instance; one *)
(* that finds the port taken, or a config sing-box refuses, changes nothing*)
StartsInstance(p, ok) ==
  /\ UNCHANGED process
  /\ \/ /\ active # Nil /\ ~ok
        /\ lost' = active /\ active' = Nil
     \/ /\ active = Nil /\ ~ok
        /\ UNCHANGED <<active, lost>>
     \/ /\ active = Nil /\ lost = Nil /\ ok
        /\ active' = p /\ UNCHANGED lost

CoreStart(f) ==
  /\ at[f] = "start" /\ rpc[f] = "sent" /\ process
  /\ \E ok \in BOOLEAN :
       /\ StartsInstance(want[f], ok)
       /\ rpc' = [rpc EXCEPT ![f] = IF ok THEN "ok" ELSE "failed"]
  /\ UNCHANGED <<late, connected, busy, setting, osProxy, at, dash, want, snap,
                 toggle, quit, history>>

CoreStop(f) ==
  /\ at[f] \in {"stop", "halt"} /\ rpc[f] = "sent" /\ process
  /\ StopsInstance
  /\ rpc' = [rpc EXCEPT ![f] = "ok"]
  /\ UNCHANGED <<late, connected, busy, setting, osProxy, at, dash, want, snap,
                 toggle, quit, history>>

(* A request whose caller has gone runs all the same. *)
CoreRunsLate ==
  /\ process
  /\ \E r \in late :
       /\ late' = late \ {r}
       /\ IF r.kind = "stop" THEN StopsInstance
          ELSE \E ok \in BOOLEAN : StartsInstance(r.profile, ok)
  /\ crossed' = TRUE
  /\ UNCHANGED <<connected, busy, setting, osProxy, flowVars, toggle, quit,
                 doubt, unsaved>>

(* The process and everything in it is gone; unanswered calls fail. *)
ProcessDies ==
  /\ process' = FALSE
  /\ active' = Nil /\ lost' = Nil /\ late' = {}
  /\ rpc' = [f \in Flows |-> IF rpc[f] = "sent" THEN "failed" ELSE rpc[f]]

Crash ==
  /\ "crash" \in scene.faults /\ process
  /\ ProcessDies
  /\ doubt' = TRUE
  /\ UNCHANGED <<connected, busy, setting, osProxy, at, dash, want, snap, toggle,
                 quit, unsaved, crossed>>

-----------------------------------------------------------------------------
(* RPCs, as the client sees them.                                          *)

Send(f, label) ==
  /\ at' = [at EXCEPT ![f] = label]
  /\ rpc' = [rpc EXCEPT ![f] = "sent"]
  /\ UNCHANGED <<dash, want, snap>>

Unreachable(f) ==
  /\ rpc[f] = "sent" /\ ~process
  /\ rpc' = [rpc EXCEPT ![f] = "failed"]
  /\ UNCHANGED <<core, connected, busy, setting, osProxy, at, dash, want, snap,
                 toggle, quit, history>>

(* The deadline passes: before the core has run the request, or after. *)
AnswerLost(f) ==
  /\ "answer" \in scene.faults
  /\ rpc[f] \in {"sent", "ok"}
  /\ rpc' = [rpc EXCEPT ![f] = "failed"]
  /\ late' = IF "late" \in scene.faults /\ rpc[f] = "sent" /\ process
             THEN late \cup {[kind |-> IF at[f] = "start" THEN "start" ELSE "stop",
                              profile |-> want[f]]}
             ELSE late
  /\ doubt' = TRUE
  /\ UNCHANGED <<process, active, lost, connected, busy, setting, osProxy, at,
                 dash, want, snap, toggle, quit, unsaved, crossed>>

FlowsAtRest == \A f \in Flows : at[f] = "idle"
SwitchAtRest == \A t \in Toggles : toggle[t].at = "idle"

-----------------------------------------------------------------------------
(* _start and _startService.                                               *)

Joins == crossed' = (crossed \/ ~FlowsAtRest \/ ~SwitchAtRest)

(* Nothing keeps a second flow from beginning: the node list has no guard, *)
(* and the dashboard's node menu does not look at _isStartingOrStopping.   *)
BeginStart(f, p, d) ==
  /\ at[f] = "idle"
  /\ at' = [at EXCEPT ![f] = "ensure"]
  /\ dash' = [dash EXCEPT ![f] = d]
  /\ want' = [want EXCEPT ![f] = p]
  /\ snap' = [snap EXCEPT ![f] = setting]
  /\ busy' = (busy \/ d)
  /\ Joins
  /\ UNCHANGED <<core, connected, setting, osProxy, rpc, toggle, quit, doubt,
                 unsaved>>

(* Mutant: the switch does not stop the running node first. *)
EnsureConnectedNoStop(f) ==
  /\ at[f] = "ensure"
  /\ process' = TRUE
  /\ at' = [at EXCEPT ![f] = "build"]
  /\ UNCHANGED <<active, lost, late, connected, busy, setting, osProxy, dash,
                 want, snap, rpc, toggle, quit, history>>

(* A core that has died is started again; then stopCore is called. *)
EnsureConnected(f) ==
  /\ at[f] = "ensure"
  /\ process' = TRUE
  /\ Send(f, "stop")
  /\ UNCHANGED <<active, lost, late, connected, busy, setting, osProxy, toggle,
                 quit, history>>

StopAnswered(f) ==
  /\ at[f] = "stop" /\ rpc[f] = "ok"
  /\ connected' = Nil
  /\ doubt' = FALSE
  /\ at' = [at EXCEPT ![f] = "build"]
  /\ rpc' = [rpc EXCEPT ![f] = "none"]
  /\ UNCHANGED <<core, busy, setting, osProxy, dash, want, snap, toggle, quit,
                 unsaved, crossed>>

BuildConfig(f) ==
  /\ at[f] = "build"
  /\ Send(f, "start")
  /\ UNCHANGED <<core, connected, busy, setting, osProxy, toggle, quit, history>>

(* The flow ends; the dashboard's finally block clears its flag. *)
End(f) ==
  /\ at' = [at EXCEPT ![f] = "idle"]
  /\ rpc' = [rpc EXCEPT ![f] = "none"]
  /\ want' = [want EXCEPT ![f] = Nil]
  /\ snap' = [snap EXCEPT ![f] = FALSE]
  /\ dash' = [dash EXCEPT ![f] = FALSE]
  /\ busy' = (busy /\ ~dash[f])

(* The core is down and cannot be started, or it is up and does not answer.*)
EnsureFails(f) ==
  /\ at[f] = "ensure"
  /\ ~process \/ "answer" \in scene.faults
  /\ connected' = Nil
  /\ doubt' = (doubt \/ process)
  /\ End(f)
  /\ UNCHANGED <<core, setting, osProxy, toggle, quit, unsaved, crossed>>

(* Mutant: an error answer to Start is not noticed. *)
AbortIgnoresStart(f) ==
  /\ at[f] = "build" \/ (at[f] = "stop" /\ rpc[f] = "failed")
  /\ connected' = Nil
  /\ End(f)
  /\ UNCHANGED <<core, setting, osProxy, toggle, quit, history>>

(* The config cannot be built, or an RPC failed: the catch block resets    *)
(* the status but leaves the system proxy as it is.                        *)
Abort(f) ==
  /\ \/ at[f] = "build"
     \/ at[f] \in {"stop", "start"} /\ rpc[f] = "failed"
  /\ connected' = Nil
  /\ End(f)
  /\ UNCHANGED <<core, setting, osProxy, toggle, quit, history>>

(* Mutant: the system proxy is left to the user. *)
StartAnsweredNoProxy(f) ==
  /\ at[f] = "start" /\ rpc[f] = "ok"
  /\ connected' = want[f] /\ End(f)
  /\ UNCHANGED <<core, setting, osProxy, toggle, quit, history>>

(* The core serves the node; the proxy is set before the UI is told. *)
StartAnswered(f) ==
  /\ at[f] = "start" /\ rpc[f] = "ok"
  /\ IF snap[f]
     THEN /\ at' = [at EXCEPT ![f] = "enable"]
          /\ rpc' = [rpc EXCEPT ![f] = "none"]
          /\ UNCHANGED <<connected, busy, dash, want, snap>>
     ELSE connected' = want[f] /\ End(f)
  /\ UNCHANGED <<core, setting, osProxy, toggle, quit, history>>

(* An OS command does its work or, swallowed, nothing. *)
SetOsProxy(v) ==
  /\ UNCHANGED doubt
  /\ \/ osProxy' = v /\ unsaved' = (unsaved /\ ~v) /\ UNCHANGED crossed
     \/ /\ "command" \in scene.faults
        /\ crossed' = TRUE /\ UNCHANGED <<osProxy, unsaved>>

EnableProxy(f) ==
  /\ at[f] = "enable"
  /\ SetOsProxy(TRUE)
  /\ connected' = want[f] /\ End(f)
  /\ UNCHANGED <<core, setting, toggle, quit>>

-----------------------------------------------------------------------------
(* _stop and _stopService.                                                 *)

BeginStop(f, d) ==
  /\ at[f] = "idle"
  /\ d => ~busy /\ connected # Nil
  /\ dash' = [dash EXCEPT ![f] = d]
  /\ busy' = (busy \/ d)
  /\ IF setting THEN at' = [at EXCEPT ![f] = "disable"] /\ UNCHANGED rpc
     ELSE at' = [at EXCEPT ![f] = "halt"] /\ rpc' = [rpc EXCEPT ![f] = "sent"]
  /\ Joins
  /\ UNCHANGED <<core, connected, setting, osProxy, want, snap, toggle, quit,
                 doubt, unsaved>>

DisableProxy(f) ==
  /\ at[f] = "disable"
  /\ SetOsProxy(FALSE)
  /\ Send(f, "halt")
  /\ UNCHANGED <<core, connected, busy, setting, toggle, quit>>

(* Mutant: the status is not reset. *)
HaltAnsweredKeepsStatus(f) ==
  /\ at[f] = "halt" /\ rpc[f] \in {"ok", "failed"}
  /\ doubt' = (doubt /\ rpc[f] = "failed")
  /\ End(f)
  /\ UNCHANGED <<core, connected, setting, osProxy, toggle, quit, unsaved,
                 crossed>>

(* A failed Stop leaves the status alone: the node may still be running. *)
HaltAnswered(f) ==
  /\ at[f] = "halt" /\ rpc[f] \in {"ok", "failed"}
  /\ IF rpc[f] = "ok" THEN connected' = Nil /\ doubt' = FALSE
     ELSE UNCHANGED <<connected, doubt>>
  /\ End(f)
  /\ UNCHANGED <<core, setting, osProxy, toggle, quit, unsaved, crossed>>

-----------------------------------------------------------------------------
(* setSystemProxy, from the dashboard or the tray; works with no core too. *)

BeginToggle(t) ==
  /\ toggle[t].at = "idle"
  /\ toggle' = [toggle EXCEPT ![t] = [at |-> "apply", value |-> ~setting]]
  /\ Joins
  /\ UNCHANGED <<core, connected, busy, setting, osProxy, flowVars, quit, doubt,
                 unsaved>>

(* Only stored if it took. *)
ApplyToggle(t) ==
  /\ toggle[t].at = "apply"
  /\ \/ /\ osProxy' = toggle[t].value
        /\ toggle' = [toggle EXCEPT ![t].at = "save"]
     \/ /\ "command" \in scene.faults
        /\ UNCHANGED osProxy
        /\ toggle' = [toggle EXCEPT ![t].at = "idle"]
  /\ UNCHANGED <<core, connected, busy, setting, flowVars, quit, history>>

(* The state follows the file: neither changes if it cannot be written.    *)
SaveToggle(t) ==
  /\ toggle[t].at = "save"
  /\ toggle' = [toggle EXCEPT ![t].at = "idle"]
  /\ \/ setting' = toggle[t].value /\ unsaved' = FALSE
     \/ "save" \in scene.faults /\ unsaved' = TRUE /\ UNCHANGED setting
  /\ UNCHANGED <<core, connected, busy, osProxy, flowVars, quit, doubt, crossed>>

-----------------------------------------------------------------------------
(* _quit: proxy off if the setting says on, core down, exit(0).            *)

BeginQuit ==
  /\ quit = "no"
  /\ quit' = IF setting THEN "disable" ELSE "kill"
  /\ UNCHANGED <<core, connected, busy, setting, osProxy, flowVars, toggle,
                 history>>

QuitDisables ==
  /\ quit = "disable"
  /\ SetOsProxy(FALSE)
  /\ quit' = "kill"
  /\ UNCHANGED <<core, connected, busy, setting, flowVars, toggle>>

QuitKillsCore ==
  /\ quit = "kill"
  /\ ProcessDies
  /\ quit' = "exit"
  /\ UNCHANGED <<connected, busy, setting, osProxy, at, dash, want, snap, toggle,
                 history>>

(* The process ends with whatever its flows were doing; a core that one of *)
(* them started meanwhile follows its parent (watchParent, grpc.go:111).   *)
QuitExits ==
  /\ quit = "exit"
  /\ quit' = "done"
  /\ process' = FALSE /\ active' = Nil /\ lost' = Nil /\ late' = {}
  /\ UNCHANGED <<connected, busy, setting, osProxy, flowVars, toggle, history>>

-----------------------------------------------------------------------------
FlowStep(f) ==
  \/ CoreStart(f) \/ CoreStop(f) \/ Unreachable(f)
  \/ EnsureConnected(f) \/ EnsureFails(f) \/ StopAnswered(f)
  \/ BuildConfig(f) \/ Abort(f)
  \/ StartAnswered(f) \/ EnableProxy(f) \/ DisableProxy(f) \/ HaltAnswered(f)

Begin(f) ==
  /\ f \in scene.flows
  /\ \/ \E p \in scene.nodes, d \in BOOLEAN : BeginStart(f, p, d)
     \/ \E d \in BOOLEAN : BeginStop(f, d)

Open == quit # "done"

Next ==
  /\ Open /\ UNCHANGED scene
  /\ \/ \E f \in Flows : Begin(f) \/ FlowStep(f) \/ AnswerLost(f)
     \/ \E t \in scene.toggles : BeginToggle(t) \/ ApplyToggle(t) \/ SaveToggle(t)
     \/ CoreRunsLate \/ Crash
     \/ BeginQuit \/ QuitDisables \/ QuitKillsCore \/ QuitExits

Spec == Init /\ [][Next]_vars

(* RPCs have deadlines, OS commands and Dart's event loop get on. *)
FairSpec == Spec /\ \A f \in Flows : WF_vars(Open /\ UNCHANGED scene /\ FlowStep(f))

-----------------------------------------------------------------------------
(* Properties.                                                             *)

AtRest == FlowsAtRest /\ SwitchAtRest /\ quit = "no"

(* A client whose flows do not overlap never loses a box: _start's stopCore*)
(* comes first, so that its Start is not rejected, even when the answers   *)
(* to earlier calls were lost or the core was restarted.                   *)
NoBoxLost == ~crossed => lost = Nil

(* At rest the UI shows the node the core serves, unless the core died or  *)
(* an answer was lost; the next flow that hears from the core mends it.    *)
StatusHonest == AtRest /\ ~doubt /\ ~crossed => connected = active

(* With the system proxy on, a node shown as running has the OS's traffic, *)
(* whatever flows, flips of the switch and failures came before.  (A flip  *)
(* during a flow breaks it: the flow may undo the flip, having read the    *)
(* setting before; so may two flips that overlap, which set and store in   *)
(* different orders; and so does a flip to off that took in the OS but     *)
(* could not be stored, until the next start enables the proxy again.)     *)
ConnectedMeansProxied ==
  AtRest /\ ~doubt /\ ~unsaved /\ ~crossed /\ setting /\ connected # Nil
    => osProxy

(* No flow hangs, so that the dashboard's buttons come back: _start, _stop *)
(* and their twins end whatever the core does.                             *)
EveryFlowEnds == \A f \in Flows : at[f] # "idle" ~> at[f] = "idle" \/ ~Open
=============================================================================
