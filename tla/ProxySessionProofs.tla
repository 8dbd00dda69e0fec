------------------------- MODULE ProxySessionProofs -------------------------
(***************************************************************************)
(* Proofs about ProxySession, for any number of nodes, flows, flips of the *)
(* switch and scenes: without overlap no box is lost, the status is the    *)
(* core's and a node shown as running has the OS's traffic.                *)
(*                                                                         *)
(* AloneOK says that what overlaps is recorded in crossed, CoreOK what the *)
(* core holds, FlowOK what a flow may rely on at each of its awaits,       *)
(* StatusOK how the status, the core and the answer to the last request    *)
(* fit together, ProxyOK the same of the setting and the OS's proxy.       *)
(***************************************************************************)
EXTENDS ProxySession, TLAPS

MaybeNode == Profiles \cup {Nil}
Places == {"idle", "ensure", "stop", "build", "start", "enable", "disable",
           "halt"}

TypeOK ==
  /\ process \in BOOLEAN
  /\ active \in MaybeNode /\ lost \in MaybeNode
  /\ late \subseteq Requests
  /\ connected \in MaybeNode
  /\ setting \in BOOLEAN /\ osProxy \in BOOLEAN
  /\ at \in [Flows -> Places]
  /\ want \in [Flows -> MaybeNode]
  /\ snap \in [Flows -> BOOLEAN]
  /\ rpc \in [Flows -> {"none", "sent", "ok", "failed"}]
  /\ toggle \in [Toggles -> [at : {"idle", "apply", "save"}, value : BOOLEAN]]
  /\ quit \in {"no", "disable", "kill", "exit", "done"}
  /\ doubt \in BOOLEAN /\ unsaved \in BOOLEAN /\ crossed \in BOOLEAN

(* What has overlapped is in crossed. *)
AloneOK == ~crossed =>
  /\ \A f, g \in Flows : at[f] # "idle" /\ at[g] # "idle" => f = g
  /\ \A t, u \in Toggles :
       toggle[t].at # "idle" /\ toggle[u].at # "idle" => t = u
  /\ \A f \in Flows, t \in Toggles : at[f] # "idle" => toggle[t].at = "idle"

(* A core that is down has nothing, and a box is lost when none is active. *)
CoreOK ==
  /\ ~process => active = Nil /\ lost = Nil
  /\ active = Nil \/ lost = Nil
  /\ ~crossed => lost = Nil

(* A Start is sent when nothing is active. *)
FlowOK == ~crossed => \A f \in Flows :
  /\ at[f] = "build" => active = Nil
  /\ at[f] = "start" /\ rpc[f] = "sent" => active = Nil
  /\ at[f] \in {"stop", "halt"} /\ rpc[f] = "ok" => active = Nil

(* The client has heard of all that happened to the core. *)
Sure == ~crossed /\ ~doubt /\ quit = "no"

StatusOK == Sure =>
  /\ (\A f \in Flows : at[f] = "idle") => connected = active
  /\ \A f \in Flows :
       /\ at[f] \in {"ensure", "disable"} => connected = active
       /\ at[f] = "halt" /\ rpc[f] \in {"sent", "failed"} => connected = active
       /\ at[f] \in {"stop", "start", "halt"} /\ rpc[f] = "failed"
            => active = Nil
       /\ at[f] = "start" /\ rpc[f] = "ok" => active = want[f]
       /\ at[f] = "enable" => active = want[f]

(* The setting a flow read is the setting, and the OS's proxy follows it.  *)
ProxyOK == ~crossed /\ quit = "no" =>
  /\ \A f \in Flows :
       at[f] \notin {"idle", "disable", "halt"} => snap[f] = setting
  /\ \A t \in Toggles : toggle[t].at = "save" => osProxy = toggle[t].value
  /\ \/ doubt \/ unsaved \/ ~setting \/ connected = Nil \/ osProxy
     \/ \E t \in Toggles : toggle[t].at = "save"
     \/ \E f \in Flows : at[f] = "halt"

IInv ==
  /\ scene \in Scenes
  /\ TypeOK
  /\ AloneOK
  /\ CoreOK
  /\ FlowOK
  /\ StatusOK
  /\ ProxyOK

-----------------------------------------------------------------------------
(* The start satisfies the invariant.                                      *)
LEMMA InitIInv == Init => IInv
<1> SUFFICES ASSUME Init PROVE IInv
  OBVIOUS
<1> USE DEF Init, MaybeNode, Places
<1>1. TypeOK
  BY SessionAssumption DEF TypeOK
<1>2. AloneOK /\ CoreOK /\ FlowOK
  BY DEF AloneOK, CoreOK, FlowOK
<1>3. StatusOK /\ ProxyOK
  BY DEF StatusOK, ProxyOK, Sure
<1>4. QED BY <1>1, <1>2, <1>3 DEF IInv

(* The core runs a Start.                                                  *)
LEMMA CoreStartKeepsIInv ==
  ASSUME IInv, UNCHANGED scene, NEW f \in Flows, CoreStart(f)
  PROVE  IInv'
<1> USE SessionAssumption
    DEF MaybeNode, Places, core, flowVars, history, CoreStart, StartsInstance
<1>0. TypeOK /\ AloneOK /\ CoreOK /\ FlowOK /\ StatusOK /\ ProxyOK
  BY DEF IInv
<1>1. TypeOK'
  BY <1>0 DEF TypeOK
<1>2. AloneOK'
  BY <1>0 DEF TypeOK, AloneOK
<1>3. CoreOK'
  BY <1>0 DEF TypeOK, AloneOK, CoreOK, FlowOK
<1>4. FlowOK'
  BY <1>0 DEF TypeOK, AloneOK, CoreOK, FlowOK
<1>5. StatusOK'
  BY <1>0 DEF TypeOK, AloneOK, CoreOK, FlowOK, StatusOK, Sure
<1>6. ProxyOK'
  BY <1>0 DEF TypeOK, AloneOK, CoreOK, FlowOK, StatusOK, Sure, ProxyOK
<1>7. QED BY <1>1, <1>2, <1>3, <1>4, <1>5, <1>6 DEF IInv

(* The core runs a Stop.                                                   *)
LEMMA CoreStopKeepsIInv ==
  ASSUME IInv, UNCHANGED scene, NEW f \in Flows, CoreStop(f)
  PROVE  IInv'
<1> USE SessionAssumption
    DEF MaybeNode, Places, core, flowVars, history, CoreStop, StopsInstance
<1>0. TypeOK /\ AloneOK /\ CoreOK /\ FlowOK /\ StatusOK /\ ProxyOK
  BY DEF IInv
<1>1. TypeOK'
  BY <1>0 DEF TypeOK
<1>2. AloneOK'
  BY <1>0 DEF TypeOK, AloneOK
<1>3. CoreOK'
  BY <1>0 DEF TypeOK, AloneOK, CoreOK, FlowOK
<1>4. FlowOK'
  BY <1>0 DEF TypeOK, AloneOK, CoreOK, FlowOK
<1>5. StatusOK'
  BY <1>0 DEF TypeOK, AloneOK, CoreOK, FlowOK, StatusOK, Sure
<1>6. ProxyOK'
  BY <1>0 DEF TypeOK, AloneOK, CoreOK, FlowOK, StatusOK, Sure, ProxyOK
<1>7. QED BY <1>1, <1>2, <1>3, <1>4, <1>5, <1>6 DEF IInv

(* It runs a request whose caller has gone.                                *)
LEMMA CoreRunsLateKeepsIInv ==
  ASSUME IInv, UNCHANGED scene, CoreRunsLate
  PROVE  IInv'
<1> USE SessionAssumption
    DEF MaybeNode, Places, core, flowVars, history, CoreRunsLate,
        StopsInstance, StartsInstance
<1>0. TypeOK /\ AloneOK /\ CoreOK /\ FlowOK /\ StatusOK /\ ProxyOK
  BY DEF IInv
<1>1. TypeOK'
  <2>1. PICK r \in Requests :
          /\ late' = late \ {r}
          /\ \/ StopsInstance
             \/ \E ok \in BOOLEAN : StartsInstance(r.profile, ok)
    BY <1>0 DEF TypeOK
  <2>2. r.profile \in Profiles \cup {Nil}
    BY DEF Requests
  <2>3. active' \in MaybeNode /\ lost' \in MaybeNode /\ process' = process
    BY <1>0, <2>1, <2>2 DEF TypeOK
  <2>4. QED BY <1>0, <2>1, <2>3 DEF TypeOK
<1>2. AloneOK'
  BY <1>0 DEF TypeOK, AloneOK
<1>3. CoreOK'
  BY <1>0 DEF TypeOK, AloneOK, CoreOK, FlowOK
<1>4. FlowOK'
  BY <1>0 DEF TypeOK, AloneOK, CoreOK, FlowOK
<1>5. StatusOK'
  BY <1>0 DEF TypeOK, AloneOK, CoreOK, FlowOK, StatusOK, Sure
<1>6. ProxyOK'
  BY <1>0 DEF TypeOK, AloneOK, CoreOK, FlowOK, StatusOK, Sure, ProxyOK
<1>7. QED BY <1>1, <1>2, <1>3, <1>4, <1>5, <1>6 DEF IInv

(* It dies.                                                                *)
LEMMA CrashKeepsIInv ==
  ASSUME IInv, UNCHANGED scene, Crash
  PROVE  IInv'
<1> USE SessionAssumption
    DEF MaybeNode, Places, core, flowVars, history, Crash, ProcessDies
<1>0. TypeOK /\ AloneOK /\ CoreOK /\ FlowOK /\ StatusOK /\ ProxyOK
  BY DEF IInv
<1>1. TypeOK'
  BY <1>0 DEF TypeOK
<1>2. AloneOK'
  BY <1>0 DEF TypeOK, AloneOK
<1>3. CoreOK'
  BY <1>0 DEF TypeOK, AloneOK, CoreOK, FlowOK
<1>4. FlowOK'
  BY <1>0 DEF TypeOK, AloneOK, CoreOK, FlowOK
<1>5. StatusOK'
  BY <1>0 DEF TypeOK, AloneOK, CoreOK, FlowOK, StatusOK, Sure
<1>6. ProxyOK'
  BY <1>0 DEF TypeOK, AloneOK, CoreOK, FlowOK, StatusOK, Sure, ProxyOK
<1>7. QED BY <1>1, <1>2, <1>3, <1>4, <1>5, <1>6 DEF IInv

(* There is no core to answer.                                             *)
LEMMA UnreachableKeepsIInv ==
  ASSUME IInv, UNCHANGED scene, NEW f \in Flows, Unreachable(f)
  PROVE  IInv'
<1> USE SessionAssumption
    DEF MaybeNode, Places, core, flowVars, history, Unreachable
<1>0. TypeOK /\ AloneOK /\ CoreOK /\ FlowOK /\ StatusOK /\ ProxyOK
  BY DEF IInv
<1>1. TypeOK'
  BY <1>0 DEF TypeOK
<1>2. AloneOK'
  BY <1>0 DEF TypeOK, AloneOK
<1>3. CoreOK'
  BY <1>0 DEF TypeOK, AloneOK, CoreOK, FlowOK
<1>4. FlowOK'
  BY <1>0 DEF TypeOK, AloneOK, CoreOK, FlowOK
<1>5. StatusOK'
  BY <1>0 DEF TypeOK, AloneOK, CoreOK, FlowOK, StatusOK, Sure
<1>6. ProxyOK'
  BY <1>0 DEF TypeOK, AloneOK, CoreOK, FlowOK, StatusOK, Sure, ProxyOK
<1>7. QED BY <1>1, <1>2, <1>3, <1>4, <1>5, <1>6 DEF IInv

(* The deadline passes.                                                    *)
LEMMA AnswerLostKeepsIInv ==
  ASSUME IInv, UNCHANGED scene, NEW f \in Flows, AnswerLost(f)
  PROVE  IInv'
<1> USE SessionAssumption
    DEF MaybeNode, Places, core, flowVars, history, AnswerLost, Requests
<1>0. TypeOK /\ AloneOK /\ CoreOK /\ FlowOK /\ StatusOK /\ ProxyOK
  BY DEF IInv
<1>1. TypeOK'
  BY <1>0 DEF TypeOK
<1>2. AloneOK'
  BY <1>0 DEF TypeOK, AloneOK
<1>3. CoreOK'
  BY <1>0 DEF TypeOK, AloneOK, CoreOK, FlowOK
<1>4. FlowOK'
  BY <1>0 DEF TypeOK, AloneOK, CoreOK, FlowOK
<1>5. StatusOK'
  BY <1>0 DEF TypeOK, AloneOK, CoreOK, FlowOK, StatusOK, Sure
<1>6. ProxyOK'
  BY <1>0 DEF TypeOK, AloneOK, CoreOK, FlowOK, StatusOK, Sure, ProxyOK
<1>7. QED BY <1>1, <1>2, <1>3, <1>4, <1>5, <1>6 DEF IInv

(* _start begins.                                                          *)
LEMMA BeginStartKeepsIInv ==
  ASSUME IInv, UNCHANGED scene, NEW f \in Flows,
         NEW p \in Profiles, NEW d \in BOOLEAN,
         BeginStart(f, p, d)
  PROVE  IInv'
<1> USE SessionAssumption
    DEF MaybeNode, Places, core, flowVars, history, BeginStart, Joins,
        FlowsAtRest, SwitchAtRest
<1>0. TypeOK /\ AloneOK /\ CoreOK /\ FlowOK /\ StatusOK /\ ProxyOK
  BY DEF IInv
<1>1. TypeOK'
  BY <1>0 DEF TypeOK
<1>2. AloneOK'
  BY <1>0 DEF TypeOK, AloneOK
<1>3. CoreOK'
  BY <1>0 DEF TypeOK, AloneOK, CoreOK, FlowOK
<1>4. FlowOK'
  BY <1>0 DEF TypeOK, AloneOK, CoreOK, FlowOK
<1>5. StatusOK'
  BY <1>0 DEF TypeOK, AloneOK, CoreOK, FlowOK, StatusOK, Sure
<1>6. ProxyOK'
  BY <1>0 DEF TypeOK, AloneOK, CoreOK, FlowOK, StatusOK, Sure, ProxyOK
<1>7. QED BY <1>1, <1>2, <1>3, <1>4, <1>5, <1>6 DEF IInv

(* _start calls stopCore.                                                  *)
LEMMA EnsureConnectedKeepsIInv ==
  ASSUME IInv, UNCHANGED scene, NEW f \in Flows, EnsureConnected(f)
  PROVE  IInv'
<1> USE SessionAssumption
    DEF MaybeNode, Places, core, flowVars, history, EnsureConnected, Send
<1>0. TypeOK /\ AloneOK /\ CoreOK /\ FlowOK /\ StatusOK /\ ProxyOK
  BY DEF IInv
<1>1. TypeOK'
  BY <1>0 DEF TypeOK
<1>2. AloneOK'
  BY <1>0 DEF TypeOK, AloneOK
<1>3. CoreOK'
  BY <1>0 DEF TypeOK, AloneOK, CoreOK, FlowOK
<1>4. FlowOK'
  BY <1>0 DEF TypeOK, AloneOK, CoreOK, FlowOK
<1>5. StatusOK'
  BY <1>0 DEF TypeOK, AloneOK, CoreOK, FlowOK, StatusOK, Sure
<1>6. ProxyOK'
  BY <1>0 DEF TypeOK, AloneOK, CoreOK, FlowOK, StatusOK, Sure, ProxyOK
<1>7. QED BY <1>1, <1>2, <1>3, <1>4, <1>5, <1>6 DEF IInv

(* There is no core to call.                                               *)
LEMMA EnsureFailsKeepsIInv ==
  ASSUME IInv, UNCHANGED scene, NEW f \in Flows, EnsureFails(f)
  PROVE  IInv'
<1> USE SessionAssumption
    DEF MaybeNode, Places, core, flowVars, history, EnsureFails, End
<1>0. TypeOK /\ AloneOK /\ CoreOK /\ FlowOK /\ StatusOK /\ ProxyOK
  BY DEF IInv
<1>1. TypeOK'
  BY <1>0 DEF TypeOK
<1>2. AloneOK'
  BY <1>0 DEF TypeOK, AloneOK
<1>3. CoreOK'
  BY <1>0 DEF TypeOK, AloneOK, CoreOK, FlowOK
<1>4. FlowOK'
  BY <1>0 DEF TypeOK, AloneOK, CoreOK, FlowOK
<1>5. StatusOK'
  BY <1>0 DEF TypeOK, AloneOK, CoreOK, FlowOK, StatusOK, Sure
<1>6. ProxyOK'
  BY <1>0 DEF TypeOK, AloneOK, CoreOK, FlowOK, StatusOK, Sure, ProxyOK
<1>7. QED BY <1>1, <1>2, <1>3, <1>4, <1>5, <1>6 DEF IInv

(* The core has stopped.                                                   *)
LEMMA StopAnsweredKeepsIInv ==
  ASSUME IInv, UNCHANGED scene, NEW f \in Flows, StopAnswered(f)
  PROVE  IInv'
<1> USE SessionAssumption
    DEF MaybeNode, Places, core, flowVars, history, StopAnswered
<1>0. TypeOK /\ AloneOK /\ CoreOK /\ FlowOK /\ StatusOK /\ ProxyOK
  BY DEF IInv
<1>1. TypeOK'
  BY <1>0 DEF TypeOK
<1>2. AloneOK'
  BY <1>0 DEF TypeOK, AloneOK
<1>3. CoreOK'
  BY <1>0 DEF TypeOK, AloneOK, CoreOK, FlowOK
<1>4. FlowOK'
  BY <1>0 DEF TypeOK, AloneOK, CoreOK, FlowOK
<1>5. StatusOK'
  BY <1>0 DEF TypeOK, AloneOK, CoreOK, FlowOK, StatusOK, Sure
<1>6. ProxyOK'
  BY <1>0 DEF TypeOK, AloneOK, CoreOK, FlowOK, StatusOK, Sure, ProxyOK
<1>7. QED BY <1>1, <1>2, <1>3, <1>4, <1>5, <1>6 DEF IInv

(* _start calls Start.                                                     *)
LEMMA BuildConfigKeepsIInv ==
  ASSUME IInv, UNCHANGED scene, NEW f \in Flows, BuildConfig(f)
  PROVE  IInv'
<1> USE SessionAssumption
    DEF MaybeNode, Places, core, flowVars, history, BuildConfig, Send
<1>0. TypeOK /\ AloneOK /\ CoreOK /\ FlowOK /\ StatusOK /\ ProxyOK
  BY DEF IInv
<1>1. TypeOK'
  BY <1>0 DEF TypeOK
<1>2. AloneOK'
  BY <1>0 DEF TypeOK, AloneOK
<1>3. CoreOK'
  BY <1>0 DEF TypeOK, AloneOK, CoreOK, FlowOK
<1>4. FlowOK'
  BY <1>0 DEF TypeOK, AloneOK, CoreOK, FlowOK
<1>5. StatusOK'
  BY <1>0 DEF TypeOK, AloneOK, CoreOK, FlowOK, StatusOK, Sure
<1>6. ProxyOK'
  BY <1>0 DEF TypeOK, AloneOK, CoreOK, FlowOK, StatusOK, Sure, ProxyOK
<1>7. QED BY <1>1, <1>2, <1>3, <1>4, <1>5, <1>6 DEF IInv

(* _start fails.                                                           *)
LEMMA AbortKeepsIInv ==
  ASSUME IInv, UNCHANGED scene, NEW f \in Flows, Abort(f)
  PROVE  IInv'
<1> USE SessionAssumption
    DEF MaybeNode, Places, core, flowVars, history, Abort, End
<1>0. TypeOK /\ AloneOK /\ CoreOK /\ FlowOK /\ StatusOK /\ ProxyOK
  BY DEF IInv
<1>1. TypeOK'
  BY <1>0 DEF TypeOK
<1>2. AloneOK'
  BY <1>0 DEF TypeOK, AloneOK
<1>3. CoreOK'
  BY <1>0 DEF TypeOK, AloneOK, CoreOK, FlowOK
<1>4. FlowOK'
  BY <1>0 DEF TypeOK, AloneOK, CoreOK, FlowOK
<1>5. StatusOK'
  BY <1>0 DEF TypeOK, AloneOK, CoreOK, FlowOK, StatusOK, Sure
<1>6. ProxyOK'
  BY <1>0 DEF TypeOK, AloneOK, CoreOK, FlowOK, StatusOK, Sure, ProxyOK
<1>7. QED BY <1>1, <1>2, <1>3, <1>4, <1>5, <1>6 DEF IInv

(* The core serves the node.                                               *)
LEMMA StartAnsweredKeepsIInv ==
  ASSUME IInv, UNCHANGED scene, NEW f \in Flows, StartAnswered(f)
  PROVE  IInv'
<1> USE SessionAssumption
    DEF MaybeNode, Places, core, flowVars, history, StartAnswered, End
<1>0. TypeOK /\ AloneOK /\ CoreOK /\ FlowOK /\ StatusOK /\ ProxyOK
  BY DEF IInv
<1>1. TypeOK'
  <2>1. /\ at' \in [Flows -> Places] /\ want' \in [Flows -> MaybeNode]
        /\ snap' \in [Flows -> BOOLEAN] /\ connected' \in MaybeNode
        /\ rpc' \in [Flows -> {"none", "sent", "ok", "failed"}]
    <3>1. CASE snap[f]
      BY <1>0, <3>1 DEF TypeOK
    <3>2. CASE ~snap[f]
      BY <1>0, <3>2 DEF TypeOK
    <3>3. QED BY <3>1, <3>2
  <2>2. UNCHANGED <<process, active, lost, late, setting, osProxy, toggle,
                    quit, history>>
    OBVIOUS
  <2> HIDE DEF StartAnswered, Places, MaybeNode
  <2>3. QED BY <1>0, <2>1, <2>2 DEF TypeOK
<1>2. AloneOK'
  BY <1>0 DEF TypeOK, AloneOK
<1>3. CoreOK'
  BY <1>0 DEF TypeOK, AloneOK, CoreOK, FlowOK
<1>4. FlowOK'
  BY <1>0 DEF TypeOK, AloneOK, CoreOK, FlowOK
<1>5. StatusOK'
  BY <1>0 DEF TypeOK, AloneOK, CoreOK, FlowOK, StatusOK, Sure
<1>6. ProxyOK'
  BY <1>0 DEF TypeOK, AloneOK, CoreOK, FlowOK, StatusOK, Sure, ProxyOK
<1>7. QED BY <1>1, <1>2, <1>3, <1>4, <1>5, <1>6 DEF IInv

(* _start sets the proxy.                                                  *)
LEMMA EnableProxyKeepsIInv ==
  ASSUME IInv, UNCHANGED scene, NEW f \in Flows, EnableProxy(f)
  PROVE  IInv'
<1> USE SessionAssumption
    DEF MaybeNode, Places, core, flowVars, history, EnableProxy, SetOsProxy,
        End
<1>0. TypeOK /\ AloneOK /\ CoreOK /\ FlowOK /\ StatusOK /\ ProxyOK
  BY DEF IInv
<1>1. TypeOK'
  <2>1. /\ at' \in [Flows -> Places] /\ want' \in [Flows -> MaybeNode]
        /\ snap' \in [Flows -> BOOLEAN] /\ connected' \in MaybeNode
        /\ rpc' \in [Flows -> {"none", "sent", "ok", "failed"}]
    BY <1>0 DEF TypeOK
  <2>2. /\ osProxy' \in BOOLEAN /\ crossed' \in BOOLEAN
        /\ unsaved' \in BOOLEAN /\ doubt' = doubt
    BY <1>0 DEF TypeOK
  <2>3. UNCHANGED <<process, active, lost, late, setting, toggle, quit>>
    OBVIOUS
  <2> HIDE DEF EnableProxy, Places, MaybeNode
  <2>4. QED BY <1>0, <2>1, <2>2, <2>3 DEF TypeOK
<1>2. AloneOK'
  BY <1>0 DEF TypeOK, AloneOK
<1>3. CoreOK'
  BY <1>0 DEF TypeOK, AloneOK, CoreOK, FlowOK
<1>4. FlowOK'
  BY <1>0 DEF TypeOK, AloneOK, CoreOK, FlowOK
<1>5. StatusOK'
  BY <1>0 DEF TypeOK, AloneOK, CoreOK, FlowOK, StatusOK, Sure
<1>6. ProxyOK'
  BY <1>0 DEF TypeOK, AloneOK, CoreOK, FlowOK, StatusOK, Sure, ProxyOK
<1>7. QED BY <1>1, <1>2, <1>3, <1>4, <1>5, <1>6 DEF IInv

(* _stop begins.                                                           *)
LEMMA BeginStopKeepsIInv ==
  ASSUME IInv, UNCHANGED scene, NEW f \in Flows, NEW d \in BOOLEAN,
         BeginStop(f, d)
  PROVE  IInv'
<1> USE SessionAssumption
    DEF MaybeNode, Places, core, flowVars, history, BeginStop, Joins,
        FlowsAtRest, SwitchAtRest
<1>0. TypeOK /\ AloneOK /\ CoreOK /\ FlowOK /\ StatusOK /\ ProxyOK
  BY DEF IInv
<1>1. TypeOK'
  BY <1>0 DEF TypeOK
<1>2. AloneOK'
  <2>1. at'[f] # "idle" /\ \A g \in Flows \ {f} : at'[g] = at[g]
    BY <1>0 DEF TypeOK
  <2>2. /\ crossed' = (crossed \/ ~FlowsAtRest \/ ~SwitchAtRest)
        /\ toggle' = toggle
    OBVIOUS
  <2> HIDE DEF BeginStop
  <2>3. QED BY <2>1, <2>2 DEF AloneOK
<1>3. CoreOK'
  BY <1>0 DEF TypeOK, AloneOK, CoreOK, FlowOK
<1>4. FlowOK'
  BY <1>0 DEF TypeOK, AloneOK, CoreOK, FlowOK
<1>5. StatusOK'
  <2>1. SUFFICES ASSUME Sure' PROVE StatusOK'
    BY DEF StatusOK
  <2>2. Sure /\ \A g \in Flows : at[g] = "idle"
    BY <1>0, <2>1 DEF Sure, TypeOK
  <2>3. connected = active
    BY <1>0, <2>2 DEF StatusOK
  <2>4. /\ \A g \in Flows \ {f} : at'[g] = "idle"
        /\ \/ at'[f] = "disable"
           \/ at'[f] = "halt" /\ rpc'[f] = "sent"
        /\ UNCHANGED <<connected, active, want>>
    BY <1>0, <2>2 DEF TypeOK
  <2> HIDE DEF BeginStop
  <2>5. QED BY <2>3, <2>4 DEF StatusOK
<1>6. ProxyOK'
  BY <1>0 DEF TypeOK, AloneOK, CoreOK, FlowOK, StatusOK, Sure, ProxyOK
<1>7. QED BY <1>1, <1>2, <1>3, <1>4, <1>5, <1>6 DEF IInv

(* _stop resets the proxy.                                                 *)
LEMMA DisableProxyKeepsIInv ==
  ASSUME IInv, UNCHANGED scene, NEW f \in Flows, DisableProxy(f)
  PROVE  IInv'
<1> USE SessionAssumption
    DEF MaybeNode, Places, core, flowVars, history, DisableProxy, SetOsProxy,
        Send
<1>0. TypeOK /\ AloneOK /\ CoreOK /\ FlowOK /\ StatusOK /\ ProxyOK
  BY DEF IInv
<1>1. TypeOK'
  <2>1. /\ at' \in [Flows -> Places]
        /\ rpc' \in [Flows -> {"none", "sent", "ok", "failed"}]
    BY <1>0 DEF TypeOK
  <2>2. /\ osProxy' \in BOOLEAN /\ crossed' \in BOOLEAN
        /\ unsaved' \in BOOLEAN /\ doubt' = doubt
    BY <1>0 DEF TypeOK
  <2>3. UNCHANGED <<process, active, lost, late, connected, setting, want,
                    snap, toggle, quit>>
    OBVIOUS
  <2> HIDE DEF DisableProxy, Places, MaybeNode
  <2>4. QED BY <1>0, <2>1, <2>2, <2>3 DEF TypeOK
<1>2. AloneOK'
  BY <1>0 DEF TypeOK, AloneOK
<1>3. CoreOK'
  BY <1>0 DEF TypeOK, AloneOK, CoreOK, FlowOK
<1>4. FlowOK'
  BY <1>0 DEF TypeOK, AloneOK, CoreOK, FlowOK
<1>5. StatusOK'
  BY <1>0 DEF TypeOK, AloneOK, CoreOK, FlowOK, StatusOK, Sure
<1>6. ProxyOK'
  BY <1>0 DEF TypeOK, AloneOK, CoreOK, FlowOK, StatusOK, Sure, ProxyOK
<1>7. QED BY <1>1, <1>2, <1>3, <1>4, <1>5, <1>6 DEF IInv

(* _stop ends.                                                             *)
LEMMA HaltAnsweredKeepsIInv ==
  ASSUME IInv, UNCHANGED scene, NEW f \in Flows, HaltAnswered(f)
  PROVE  IInv'
<1> USE SessionAssumption
    DEF MaybeNode, Places, core, flowVars, history, HaltAnswered, End
<1>0. TypeOK /\ AloneOK /\ CoreOK /\ FlowOK /\ StatusOK /\ ProxyOK
  BY DEF IInv
<1>1. TypeOK'
  <2>1. /\ at' \in [Flows -> Places] /\ want' \in [Flows -> MaybeNode]
        /\ snap' \in [Flows -> BOOLEAN]
        /\ rpc' \in [Flows -> {"none", "sent", "ok", "failed"}]
    BY <1>0 DEF TypeOK
  <2>2. connected' \in MaybeNode /\ doubt' \in BOOLEAN
    BY <1>0 DEF TypeOK
  <2>3. UNCHANGED <<process, active, lost, late, setting, osProxy, toggle,
                    quit, unsaved, crossed>>
    OBVIOUS
  <2> HIDE DEF HaltAnswered, Places, MaybeNode
  <2>4. QED BY <1>0, <2>1, <2>2, <2>3 DEF TypeOK
<1>2. AloneOK'
  BY <1>0 DEF TypeOK, AloneOK
<1>3. CoreOK'
  BY <1>0 DEF TypeOK, AloneOK, CoreOK, FlowOK
<1>4. FlowOK'
  BY <1>0 DEF TypeOK, AloneOK, CoreOK, FlowOK
<1>5. StatusOK'
  BY <1>0 DEF TypeOK, AloneOK, CoreOK, FlowOK, StatusOK, Sure
<1>6. ProxyOK'
  BY <1>0 DEF TypeOK, AloneOK, CoreOK, FlowOK, StatusOK, Sure, ProxyOK
<1>7. QED BY <1>1, <1>2, <1>3, <1>4, <1>5, <1>6 DEF IInv

(* A flip of the switch begins.                                            *)
LEMMA BeginToggleKeepsIInv ==
  ASSUME IInv, UNCHANGED scene, NEW t \in Toggles, BeginToggle(t)
  PROVE  IInv'
<1> USE SessionAssumption
    DEF MaybeNode, Places, core, flowVars, history, BeginToggle, Joins,
        FlowsAtRest, SwitchAtRest
<1>0. TypeOK /\ AloneOK /\ CoreOK /\ FlowOK /\ StatusOK /\ ProxyOK
  BY DEF IInv
<1>1. TypeOK'
  BY <1>0 DEF TypeOK
<1>2. AloneOK'
  BY <1>0 DEF TypeOK, AloneOK
<1>3. CoreOK'
  BY <1>0 DEF TypeOK, AloneOK, CoreOK, FlowOK
<1>4. FlowOK'
  BY <1>0 DEF TypeOK, AloneOK, CoreOK, FlowOK
<1>5. StatusOK'
  BY <1>0 DEF TypeOK, AloneOK, CoreOK, FlowOK, StatusOK, Sure
<1>6. ProxyOK'
  BY <1>0 DEF TypeOK, AloneOK, CoreOK, FlowOK, StatusOK, Sure, ProxyOK
<1>7. QED BY <1>1, <1>2, <1>3, <1>4, <1>5, <1>6 DEF IInv

(* It sets the proxy.                                                      *)
LEMMA ApplyToggleKeepsIInv ==
  ASSUME IInv, UNCHANGED scene, NEW t \in Toggles, ApplyToggle(t)
  PROVE  IInv'
<1> USE SessionAssumption
    DEF MaybeNode, Places, core, flowVars, history, ApplyToggle
<1>0. TypeOK /\ AloneOK /\ CoreOK /\ FlowOK /\ StatusOK /\ ProxyOK
  BY DEF IInv
<1>1. TypeOK'
  BY <1>0 DEF TypeOK
<1>2. AloneOK'
  BY <1>0 DEF TypeOK, AloneOK
<1>3. CoreOK'
  BY <1>0 DEF TypeOK, AloneOK, CoreOK, FlowOK
<1>4. FlowOK'
  BY <1>0 DEF TypeOK, AloneOK, CoreOK, FlowOK
<1>5. StatusOK'
  BY <1>0 DEF TypeOK, AloneOK, CoreOK, FlowOK, StatusOK, Sure
<1>6. ProxyOK'
  BY <1>0 DEF TypeOK, AloneOK, CoreOK, FlowOK, StatusOK, Sure, ProxyOK
<1>7. QED BY <1>1, <1>2, <1>3, <1>4, <1>5, <1>6 DEF IInv

(* It stores the setting.                                                  *)
LEMMA SaveToggleKeepsIInv ==
  ASSUME IInv, UNCHANGED scene, NEW t \in Toggles, SaveToggle(t)
  PROVE  IInv'
<1> USE SessionAssumption
    DEF MaybeNode, Places, core, flowVars, history, SaveToggle
<1>0. TypeOK /\ AloneOK /\ CoreOK /\ FlowOK /\ StatusOK /\ ProxyOK
  BY DEF IInv
<1>1. TypeOK'
  BY <1>0 DEF TypeOK
<1>2. AloneOK'
  BY <1>0 DEF TypeOK, AloneOK
<1>3. CoreOK'
  BY <1>0 DEF TypeOK, AloneOK, CoreOK, FlowOK
<1>4. FlowOK'
  BY <1>0 DEF TypeOK, AloneOK, CoreOK, FlowOK
<1>5. StatusOK'
  BY <1>0 DEF TypeOK, AloneOK, CoreOK, FlowOK, StatusOK, Sure
<1>6. ProxyOK'
  BY <1>0 DEF TypeOK, AloneOK, CoreOK, FlowOK, StatusOK, Sure, ProxyOK
<1>7. QED BY <1>1, <1>2, <1>3, <1>4, <1>5, <1>6 DEF IInv

(* _quit begins.                                                           *)
LEMMA BeginQuitKeepsIInv ==
  ASSUME IInv, UNCHANGED scene, BeginQuit
  PROVE  IInv'
<1> USE SessionAssumption
    DEF MaybeNode, Places, core, flowVars, history, BeginQuit
<1>0. TypeOK /\ AloneOK /\ CoreOK /\ FlowOK /\ StatusOK /\ ProxyOK
  BY DEF IInv
<1>1. TypeOK'
  BY <1>0 DEF TypeOK
<1>2. AloneOK'
  BY <1>0 DEF TypeOK, AloneOK
<1>3. CoreOK'
  BY <1>0 DEF TypeOK, AloneOK, CoreOK, FlowOK
<1>4. FlowOK'
  BY <1>0 DEF TypeOK, AloneOK, CoreOK, FlowOK
<1>5. StatusOK'
  BY <1>0 DEF TypeOK, AloneOK, CoreOK, FlowOK, StatusOK, Sure
<1>6. ProxyOK'
  BY <1>0 DEF TypeOK, AloneOK, CoreOK, FlowOK, StatusOK, Sure, ProxyOK
<1>7. QED BY <1>1, <1>2, <1>3, <1>4, <1>5, <1>6 DEF IInv

(* _quit resets the proxy.                                                 *)
LEMMA QuitDisablesKeepsIInv ==
  ASSUME IInv, UNCHANGED scene, QuitDisables
  PROVE  IInv'
<1> USE SessionAssumption
    DEF MaybeNode, Places, core, flowVars, history, QuitDisables, SetOsProxy
<1>0. TypeOK /\ AloneOK /\ CoreOK /\ FlowOK /\ StatusOK /\ ProxyOK
  BY DEF IInv
<1>1. TypeOK'
  BY <1>0 DEF TypeOK
<1>2. AloneOK'
  BY <1>0 DEF TypeOK, AloneOK
<1>3. CoreOK'
  BY <1>0 DEF TypeOK, AloneOK, CoreOK, FlowOK
<1>4. FlowOK'
  BY <1>0 DEF TypeOK, AloneOK, CoreOK, FlowOK
<1>5. StatusOK'
  BY <1>0 DEF TypeOK, AloneOK, CoreOK, FlowOK, StatusOK, Sure
<1>6. ProxyOK'
  BY <1>0 DEF TypeOK, AloneOK, CoreOK, FlowOK, StatusOK, Sure, ProxyOK
<1>7. QED BY <1>1, <1>2, <1>3, <1>4, <1>5, <1>6 DEF IInv

(* _quit kills the core.                                                   *)
LEMMA QuitKillsCoreKeepsIInv ==
  ASSUME IInv, UNCHANGED scene, QuitKillsCore
  PROVE  IInv'
<1> USE SessionAssumption
    DEF MaybeNode, Places, core, flowVars, history, QuitKillsCore, ProcessDies
<1>0. TypeOK /\ AloneOK /\ CoreOK /\ FlowOK /\ StatusOK /\ ProxyOK
  BY DEF IInv
<1>1. TypeOK'
  BY <1>0 DEF TypeOK
<1>2. AloneOK'
  BY <1>0 DEF TypeOK, AloneOK
<1>3. CoreOK'
  BY <1>0 DEF TypeOK, AloneOK, CoreOK, FlowOK
<1>4. FlowOK'
  BY <1>0 DEF TypeOK, AloneOK, CoreOK, FlowOK
<1>5. StatusOK'
  BY <1>0 DEF TypeOK, AloneOK, CoreOK, FlowOK, StatusOK, Sure
<1>6. ProxyOK'
  BY <1>0 DEF TypeOK, AloneOK, CoreOK, FlowOK, StatusOK, Sure, ProxyOK
<1>7. QED BY <1>1, <1>2, <1>3, <1>4, <1>5, <1>6 DEF IInv

(* The application is gone.                                                *)
LEMMA QuitExitsKeepsIInv ==
  ASSUME IInv, UNCHANGED scene, QuitExits
  PROVE  IInv'
<1> USE SessionAssumption
    DEF MaybeNode, Places, core, flowVars, history, QuitExits
<1>0. TypeOK /\ AloneOK /\ CoreOK /\ FlowOK /\ StatusOK /\ ProxyOK
  BY DEF IInv
<1>1. TypeOK'
  BY <1>0 DEF TypeOK
<1>2. AloneOK'
  BY <1>0 DEF TypeOK, AloneOK
<1>3. CoreOK'
  BY <1>0 DEF TypeOK, AloneOK, CoreOK, FlowOK
<1>4. FlowOK'
  BY <1>0 DEF TypeOK, AloneOK, CoreOK, FlowOK
<1>5. StatusOK'
  BY <1>0 DEF TypeOK, AloneOK, CoreOK, FlowOK, StatusOK, Sure
<1>6. ProxyOK'
  BY <1>0 DEF TypeOK, AloneOK, CoreOK, FlowOK, StatusOK, Sure, ProxyOK
<1>7. QED BY <1>1, <1>2, <1>3, <1>4, <1>5, <1>6 DEF IInv

(* No step breaks the invariant.                                           *)
LEMMA NextKeepsIInv == ASSUME IInv, [Next]_vars PROVE IInv'
<1>1. ASSUME NEW f \in Flows, Begin(f), UNCHANGED scene PROVE IInv'
  <2>1. scene.nodes \subseteq Profiles
    BY SessionAssumption DEF IInv
  <2>2. QED BY <1>1, <2>1, BeginStartKeepsIInv, BeginStopKeepsIInv DEF Begin
<1>2. ASSUME NEW f \in Flows, UNCHANGED scene,
             FlowStep(f) \/ AnswerLost(f)
      PROVE  IInv'
  BY <1>2, CoreStartKeepsIInv, CoreStopKeepsIInv, UnreachableKeepsIInv,
     AnswerLostKeepsIInv, EnsureConnectedKeepsIInv, EnsureFailsKeepsIInv,
     StopAnsweredKeepsIInv, BuildConfigKeepsIInv, AbortKeepsIInv,
     StartAnsweredKeepsIInv, EnableProxyKeepsIInv, DisableProxyKeepsIInv,
     HaltAnsweredKeepsIInv DEF FlowStep
<1>3. ASSUME UNCHANGED scene, NEW t \in scene.toggles,
             BeginToggle(t) \/ ApplyToggle(t) \/ SaveToggle(t)
      PROVE  IInv'
  <2>1. t \in Toggles
    BY SessionAssumption DEF IInv
  <2>2. QED
    BY <1>3, <2>1, BeginToggleKeepsIInv, ApplyToggleKeepsIInv,
       SaveToggleKeepsIInv
<1>4. CASE UNCHANGED scene /\ (CoreRunsLate \/ Crash)
  BY <1>4, CoreRunsLateKeepsIInv, CrashKeepsIInv
<1>5. CASE /\ UNCHANGED scene
           /\ BeginQuit \/ QuitDisables \/ QuitKillsCore \/ QuitExits
  BY <1>5, BeginQuitKeepsIInv, QuitDisablesKeepsIInv, QuitKillsCoreKeepsIInv,
     QuitExitsKeepsIInv
<1>6. CASE UNCHANGED vars
  BY <1>6 DEF vars, core, flowVars, history, IInv, TypeOK, AloneOK, CoreOK,
              FlowOK, StatusOK, Sure, ProxyOK
<1>7. QED BY <1>1, <1>2, <1>3, <1>4, <1>5, <1>6 DEF Next

(* Every reachable state satisfies the invariant.                          *)
THEOREM Invariance == Spec => []IInv
<1>1. Init => IInv
  BY InitIInv
<1>2. IInv /\ [Next]_vars => IInv'
  BY NextKeepsIInv
<1>3. QED BY <1>1, <1>2, PTL DEF Spec

(* A client whose flows do not overlap never has a Start rejected, though  *)
(* answers are lost, OS commands fail and the core dies.                   *)
THEOREM NoLostBox == Spec => []NoBoxLost
<1>1. IInv => NoBoxLost
  BY DEF IInv, CoreOK, NoBoxLost
<1>2. QED BY <1>1, Invariance, PTL

(* The status is the core's, when all has been heard.                      *)
THEOREM HonestStatus == Spec => []StatusHonest
<1>1. IInv => StatusHonest
  BY DEF IInv, StatusOK, Sure, StatusHonest, AtRest, FlowsAtRest
<1>2. QED BY <1>1, Invariance, PTL

(* A node shown as running with the setting on has the OS's traffic.       *)
THEOREM ProxiedWhenConnected == Spec => []ConnectedMeansProxied
<1>1. IInv => ConnectedMeansProxied
  BY DEF IInv, ProxyOK, ConnectedMeansProxied, AtRest, FlowsAtRest,
         SwitchAtRest
<1>2. QED BY <1>1, Invariance, PTL

=============================================================================
