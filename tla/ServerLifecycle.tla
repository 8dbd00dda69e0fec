-------------------------- MODULE ServerLifecycle --------------------------
(***************************************************************************)
(* How the core is started and torn down around the instance: the gRPC     *)
(* server and the shutdown record of go/grpc_server/grpc.go (Exit,         *)
(* StopServer, bindCore, SetShutdownHook), main() on the desktop and       *)
(* NekoboxStart/NekoboxStop (mobile_ffi.go) on Android, composed with the  *)
(* handlers of CoreInstance.                                               *)
(*                                                                         *)
(* grpc.Server is external: GracefulStop refuses new RPCs at once, waits   *)
(* for the handlers in flight, and Serve returns when it is done.  It      *)
(* closes the listeners that Serve was given; called before Serve it finds *)
(* none, and Serve then closes its listener and returns.                   *)
(***************************************************************************)
EXTENDS CoreInstance

CONSTANTS Rpcs,     \* handler goroutines of the gRPC server
          Exiters,  \* goroutines spawned by Exit; a bound on Exit schedules
          App,      \* the Android thread that calls NekoboxStart/Stop
          Servers   \* gRPC server identities; a bound on the starts

ASSUME CallsAssumption ==
  /\ Calls = Rpcs \cup Exiters \cup {App}
  /\ App \notin Rpcs \cup Exiters /\ Rpcs \cap Exiters = {}
  /\ Nil \notin Servers

VARIABLES
  mode,          \* "desktop" (main) or "mobile" (in-process), fixed
  proc,          \* the desktop process: "running" or "exited"
  srv,           \* the gRPC servers: "bound" before Serve, "held" if stopped
                 \* before it, both with the listener open
  conn,          \* the server each handler goroutine serves, or Nil
  fn,            \* shutdown.fn: the server whose GracefulStop it is
  cleanup,       \* shutdown.cleanup: the start that registered the hook
  requested,     \* shutdown.requested
  job,           \* the Exit goroutines: captured fn and cleanup, progress
  mobileRunning, \* mobile_ffi.go's flag
  app,           \* progress of the App thread, which holds mobileMu
  invoked        \* history: calls of each registered hook (capped at 2)

serverVars == <<mode, proc, srv, conn, fn, cleanup, requested, job,
                mobileRunning, app, invoked>>
allVars == <<vars, serverVars>>
shutdown == <<fn, cleanup, requested>>

NoJob == [at |-> "none", fn |-> Nil, cleanup |-> Nil]
AppIdle == [at |-> "idle", fn |-> Nil, cleanup |-> Nil]

(* The desktop's main has registered the hook and RunCore is serving; on   *)
(* Android nothing has been started.                                       *)
ServerInit ==
  /\ Init
  /\ proc = "running"
  /\ conn = [c \in Calls |-> Nil]
  /\ requested = FALSE
  /\ job = [e \in Exiters |-> NoJob]
  /\ mobileRunning = FALSE
  /\ app = AppIdle
  /\ invoked = [s \in Servers |-> 0]
  /\ \/ /\ mode = "mobile"
        /\ srv = [s \in Servers |-> "new"]
        /\ fn = Nil /\ cleanup = Nil
     \/ /\ mode = "desktop"
        /\ \E s \in Servers :
             /\ srv = [t \in Servers |-> IF t = s THEN "serving" ELSE "new"]
             /\ fn = s /\ cleanup = s

-----------------------------------------------------------------------------
(* RPCs: a handler starts on a serving server and ends where CoreInstance  *)
(* says.                                                                   *)

RpcArrives(c, s) ==
  /\ srv[s] = "serving"
  /\ \/ \E o \in TestOps \cup {"start"}, b \in Boxes : CallWithBox(c, o, b)
     \/ \E o \in ReadOps \cup {"stop"} : Call(c, o)
  /\ conn' = [conn EXCEPT ![c] = s]
  /\ UNCHANGED <<mode, proc, srv, shutdown, job, mobileRunning, app, invoked>>

HandlerStep(c) ==
  /\ Locking(c) \/ Running(c)
  /\ conn' = IF pc'[c] = "idle" THEN [conn EXCEPT ![c] = Nil] ELSE conn
  /\ UNCHANGED <<mode, proc, srv, shutdown, job, mobileRunning, app, invoked>>

(* GracefulStop, called once or again. *)
Drain(s) ==
  srv' = CASE s # Nil /\ srv[s] = "serving" -> [srv EXCEPT ![s] = "draining"]
           [] s # Nil /\ srv[s] = "bound"   -> [srv EXCEPT ![s] = "held"]
           [] OTHER                         -> srv

(* It has returned. *)
Stopped(s) == srv[s] \in {"held", "stopped"}

Drained(s) ==
  /\ srv[s] = "draining"
  /\ \A c \in Rpcs : conn[c] # s
  /\ srv' = [srv EXCEPT ![s] = "stopped"]
  /\ UNCHANGED <<vars, mode, proc, conn, shutdown, job, mobileRunning, app,
                 invoked>>

(* RunCoreBound's goroutine calls Serve, after NekoboxStart has returned. *)
Serve(s) ==
  /\ \/ srv[s] = "bound" /\ srv' = [srv EXCEPT ![s] = "serving"]
     \/ srv[s] = "held" /\ srv' = [srv EXCEPT ![s] = "stopped"]
  /\ UNCHANGED <<vars, mode, proc, conn, shutdown, job, mobileRunning, app,
                 invoked>>

(* Serve returns once the server has stopped; RunCore and main follow, and *)
(* the process ends with whatever its other goroutines were doing.         *)
MainReturns ==
  /\ mode = "desktop"
  /\ \E s \in Servers : srv[s] = "stopped"
  /\ proc' = "exited"
  /\ UNCHANGED <<vars, mode, srv, conn, shutdown, job, mobileRunning, app,
                 invoked>>

-----------------------------------------------------------------------------
(* Exit.                                                                   *)

(* Mutant: a second caller is not told from the first. *)
ExitAgain(e) ==
  /\ \E s \in Servers : srv[s] \in {"serving", "draining"}
  /\ fn # Nil \/ cleanup # Nil
  /\ job[e] = NoJob
  /\ job' = [job EXCEPT ![e] = [at |-> "sleep", fn |-> fn, cleanup |-> cleanup]]
  /\ requested' = TRUE
  /\ UNCHANGED <<vars, mode, proc, srv, conn, fn, cleanup, mobileRunning, app,
                 invoked>>

(* The handler, under the shutdown lock: the first caller takes a snapshot *)
(* and spawns the goroutine that sleeps 100 ms.                            *)
Exit(e) ==
  /\ \E s \in Servers : srv[s] \in {"serving", "draining"}
  /\ fn # Nil \/ cleanup # Nil
  /\ ~requested
  /\ job[e] = NoJob
  /\ job' = [job EXCEPT ![e] = [at |-> "sleep", fn |-> fn, cleanup |-> cleanup]]
  /\ requested' = TRUE
  /\ UNCHANGED <<vars, mode, proc, srv, conn, fn, cleanup, mobileRunning, app,
                 invoked>>

(* Mutant: the goroutine does not call fn. *)
ExitForgetsFn(e) ==
  /\ job[e].at = "sleep"
  /\ job' = [job EXCEPT ![e].at = "drain"]
  /\ UNCHANGED <<vars, mode, proc, srv, conn, shutdown, mobileRunning, app,
                 invoked>>

ExitDrains(e) ==
  /\ job[e].at = "sleep"
  /\ Drain(job[e].fn)
  /\ job' = [job EXCEPT ![e].at = "drain"]
  /\ UNCHANGED <<vars, mode, proc, conn, shutdown, mobileRunning, app, invoked>>

Invoke(s) == invoked' = [invoked EXCEPT ![s] = IF @ < 2 THEN @ + 1 ELSE 2]

(* Mutant: the hook runs without waiting for GracefulStop. *)
ExitCleansUpFirst(e) ==
  /\ job[e].at = "drain"
  /\ IF job[e].cleanup = Nil
     THEN UNCHANGED <<vars, invoked>>
     ELSE Call(e, "shutdown") /\ Invoke(job[e].cleanup)
  /\ job' = [job EXCEPT ![e].at = "done"]
  /\ UNCHANGED <<mode, proc, srv, conn, shutdown, mobileRunning, app>>

(* GracefulStop has returned: the goroutine calls the application's hook. *)
ExitCleansUp(e) ==
  /\ job[e].at = "drain"
  /\ job[e].fn # Nil => Stopped(job[e].fn)
  /\ IF job[e].cleanup = Nil
     THEN UNCHANGED <<vars, invoked>>
     ELSE Call(e, "shutdown") /\ Invoke(job[e].cleanup)
  /\ job' = [job EXCEPT ![e].at = "done"]
  /\ UNCHANGED <<mode, proc, srv, conn, shutdown, mobileRunning, app>>

-----------------------------------------------------------------------------
(* NekoboxStart and NekoboxStop: one at a time, under mobileMu.            *)

(* Not running: register the hook, then bind in RunCoreBound. *)
MobileStart(s) ==
  /\ mode = "mobile" /\ app = AppIdle /\ ~mobileRunning
  /\ srv[s] = "new" /\ invoked[s] = 0 /\ cleanup # s
  /\ cleanup' = s
  /\ app' = [AppIdle EXCEPT !.at = "bind"]
  /\ UNCHANGED <<vars, mode, proc, srv, conn, fn, requested, job, mobileRunning,
                 invoked>>

(* The port may be another one than that of an earlier server. *)
MobileBind ==
  /\ app.at = "bind"
  /\ app' = AppIdle
  /\ srv' = [srv EXCEPT ![cleanup] = "bound"]
  /\ fn' = cleanup /\ requested' = FALSE
  /\ mobileRunning' = TRUE
  /\ UNCHANGED <<vars, mode, proc, conn, cleanup, job, invoked>>

(* The token is too short or the port is taken. *)
MobileBindFails ==
  /\ app.at = "bind"
  /\ app' = AppIdle
  /\ UNCHANGED <<vars, mode, proc, srv, conn, shutdown, job, mobileRunning,
                 invoked>>

(* Mutant: StopServer clears fn before it takes it. *)
MobileStopClearsFirst ==
  /\ mode = "mobile" /\ app = AppIdle /\ mobileRunning
  /\ mobileRunning' = FALSE
  /\ fn' = Nil /\ cleanup' = Nil /\ requested' = FALSE
  /\ app' = [at |-> "cleanup", fn |-> Nil, cleanup |-> cleanup]
  /\ IF cleanup = Nil
     THEN UNCHANGED <<vars, invoked>>
     ELSE Call(App, "shutdown") /\ Invoke(cleanup)
  /\ UNCHANGED <<mode, proc, srv, conn, job>>

(* StopServer takes both callbacks, calls the hook first... *)
MobileStop ==
  /\ mode = "mobile" /\ app = AppIdle /\ mobileRunning
  /\ mobileRunning' = FALSE
  /\ fn' = Nil /\ cleanup' = Nil /\ requested' = FALSE
  /\ app' = [at |-> "cleanup", fn |-> fn, cleanup |-> cleanup]
  /\ IF cleanup = Nil
     THEN UNCHANGED <<vars, invoked>>
     ELSE Call(App, "shutdown") /\ Invoke(cleanup)
  /\ UNCHANGED <<mode, proc, srv, conn, job>>

(* Mutant: StopServer clears fn but does not call it. *)
StopForgetsFn ==
  /\ app.at = "cleanup" /\ pc[App] = "idle"
  /\ app' = [app EXCEPT !.at = "wait"]
  /\ UNCHANGED <<vars, mode, proc, srv, conn, shutdown, job, mobileRunning,
                 invoked>>

(* ...then, when it is done, GracefulStop on a goroutine... *)
StopDrains ==
  /\ app.at = "cleanup" /\ pc[App] = "idle"
  /\ Drain(app.fn)
  /\ app' = [app EXCEPT !.at = "wait"]
  /\ UNCHANGED <<vars, mode, proc, conn, shutdown, job, mobileRunning, invoked>>

(* ...and waits for that at most five seconds. *)
StopReturns ==
  /\ app.at = "wait"
  /\ app' = AppIdle
  /\ UNCHANGED <<vars, mode, proc, srv, conn, shutdown, job, mobileRunning,
                 invoked>>

-----------------------------------------------------------------------------
Step ==
  \/ \E c \in Rpcs, s \in Servers : RpcArrives(c, s)
  \/ \E c \in Calls : HandlerStep(c)
  \/ \E s \in Servers : Serve(s) \/ Drained(s) \/ MobileStart(s)
  \/ \E e \in Exiters : Exit(e) \/ ExitDrains(e) \/ ExitCleansUp(e)
  \/ MobileBind \/ MobileBindFails \/ MobileStop \/ StopDrains \/ StopReturns
  \/ MainReturns

(* Nothing runs in a process that has exited. *)
Exited == proc = "exited" /\ UNCHANGED allVars

ServerNext == (proc = "running" /\ Step) \/ Exited

ServerSpec == ServerInit /\ [][ServerNext]_allVars

Progress ==
  \/ \E s \in Servers : Serve(s) \/ Drained(s)
  \/ \E e \in Exiters : ExitDrains(e) \/ ExitCleansUp(e)
  \/ MobileBind \/ MobileBindFails \/ StopDrains \/ StopReturns
  \/ MainReturns

(* Handlers, goroutines and main run on (CoreInstance's Fairness for the   *)
(* handlers); nobody has to call anything.                                 *)
ServerFairness ==
  /\ \A c \in Calls :
       /\ WF_allVars(proc = "running" /\ Running(c) /\ HandlerStep(c))
       /\ SF_allVars(proc = "running" /\ Locking(c) /\ HandlerStep(c))
  /\ WF_allVars(proc = "running" /\ Progress)

ServerFairSpec == ServerSpec /\ ServerFairness

-----------------------------------------------------------------------------
(* Properties.                                                             *)

(* "In-flight RPCs can finish while their resources are still available"   *)
(* (grpc.go:73): when Exit's goroutine runs the hook, no handler of the    *)
(* server it stopped is left.                                              *)
ExitHookAfterHandlers ==
  \A e \in Exiters : op[e] = "shutdown" /\ job[e].fn # Nil =>
    \A c \in Rpcs : conn[c] # job[e].fn

(* "The callback is invoked at most once, after the gRPC server has        *)
(* stopped" (grpc.go:47): true on the desktop, whatever Exit calls race.   *)
DesktopHookOnceAfterStop ==
  mode = "desktop" => \A s \in Servers :
    /\ invoked[s] <= 1
    /\ invoked[s] > 0 => srv[s] = "stopped"

(* Both: the hook and the drain of a server come in the order the code     *)
(* promises, however Exit calls, handlers and StopServer interleave.       *)
ShutdownHookInOrder == ExitHookAfterHandlers /\ DesktopHookOnceAfterStop

AtRest == mode = "mobile" /\ ~mobileRunning /\ app.at = "idle"

(* After NekoboxStop no server takes calls, nor will one whose goroutine   *)
(* has still to call Serve, whatever Exit did to it before.                *)
NothingServesAtRest ==
  AtRest => \A s \in Servers : srv[s] \notin {"bound", "serving"}

(* "So the core can be started again in-process" (grpc.go:181): the server *)
(* that NekoboxStop took closes its listener in the end, though the hook   *)
(* waits for instanceMu, GracefulStop for the handlers in flight, and      *)
(* Serve may be late.  Not yet when NekoboxStop returns: a server may be   *)
(* "held" then, and a start on the same port finds it taken.               *)
StopReleasesPort ==
  \A s \in Servers : app.at = "cleanup" /\ app.fn = s ~> srv[s] = "stopped"

(* An Exit request ends the desktop process: the drain refuses new RPCs    *)
(* and every handler in flight returns.                                    *)
ExitEndsProcess ==
  mode = "desktop" /\ requested ~> proc = "exited"
=============================================================================
