----------------------------- MODULE MobileCore -----------------------------
(***************************************************************************)
(* The Android client: the start of the in-process core that all callers   *)
(* share (mobile_core.dart, mobile_ffi.go), and the VPN of a start or stop *)
(* from the node list (home_page.dart, android_vpn.dart, MainActivity.kt,  *)
(* NekoVpnService.kt).                                                     *)
(*                                                                         *)
(* External: Android runs the handlers of the method channel, the results  *)
(* of the activity and the callbacks of the service on the one main        *)
(* thread, in the order they are posted, and delivers the intents of the   *)
(* service some time after they are sent; it may destroy the activity,     *)
(* with the Dart program in it, and create it again in the same process.   *)
(***************************************************************************)
EXTENDS Naturals, Sequences

CONSTANTS Calls,        \* calls of ensureConnected, _start and _stop
          Tokens,       \* generateToken: one for each start attempt
          Budgets,      \* bounds: how many calls, timeouts, new activities
          Nil

ASSUME MobileAssumption ==
  /\ Nil \notin Calls \cup Tokens
  /\ Budgets \subseteq [calls : Nat, timeouts : Nat, activities : Nat]

VARIABLES
  endpoint,    \* _endpoint, by its token
  starting,    \* _starting: the attempt in flight
  attempt,     \* each attempt: none, paths, taken, or lost: nobody heard of it
  channel,     \* the token of the gRPC channel
  server,      \* the token of the core's server, Nil until mobileRunning
  pc, op, mine,  \* each call: where it is, what it does, the attempt it awaits
  queue,       \* the messages of the main thread
  main,        \* the call whose handleStart blocks the main thread
  intents,     \* intents for the service the system has yet to deliver
  bound,       \* the system counts the service as started
  active,      \* activeInstance # null
  running,     \* isRunning
  pending,     \* pendingResult: the call that waits for the user's consent
  established, \* establishedFd >= 0
  open,        \* the TUN interface is up: its descriptor is open
  tunFd,       \* mobileTunFd > 0
  latest,      \* history: what the latest call was
  crossed,     \* history: the last stop ended a service before a START to come
  left         \* what is left of the budget

dart == <<endpoint, starting, attempt, channel>>
flow == <<pc, op, mine>>
service == <<bound, active, running>>
fds == <<established, open, tunFd>>
budget == <<latest, crossed, left>>
vars == <<dart, server, flow, queue, main, intents, service, pending, fds, budget>>

Init ==
  /\ endpoint = Nil /\ starting = Nil /\ channel = Nil /\ server = Nil
  /\ attempt = [k \in Tokens |-> "none"]
  /\ pc = [c \in Calls |-> "idle"] /\ op = [c \in Calls |-> "none"]
  /\ mine = [c \in Calls |-> Nil]
  /\ queue = <<>> /\ main = Nil /\ intents = <<>> /\ pending = Nil
  /\ bound = FALSE /\ active = FALSE /\ running = FALSE
  /\ established = FALSE /\ open = FALSE /\ tunFd = FALSE
  /\ latest = "none" /\ crossed = FALSE /\ left \in Budgets

(* Bound: the budget has one more of these. *)
Spend(what) == left[what] > 0 /\ left' = [left EXCEPT ![what] = @ - 1]

Goto(c, label) == pc' = [pc EXCEPT ![c] = label]

(* A call is connected, or has failed: the catch of _start stops the VPN. *)
Proceeds(c) == IF op[c] = "start" THEN "prepare" ELSE "idle"
Fails(c) == IF op[c] = "start" THEN "undo" ELSE "idle"

-----------------------------------------------------------------------------
(* ensureConnected and connectToCore.                                      *)

Begin(c, what) ==
  /\ pc[c] = "idle" /\ Spend("calls")
  /\ op' = [op EXCEPT ![c] = what] /\ latest' = what
  /\ Goto(c, IF what = "stop" THEN "undo" ELSE "health")
  /\ UNCHANGED <<dart, server, mine, queue, main, intents, service, pending, fds,
                 crossed>>

(* checkHealth, a round trip. *)
CheckHealth(c) ==
  /\ pc[c] = "health"
  /\ Goto(c, IF channel # Nil /\ channel = server THEN Proceeds(c) ELSE "connect")
  /\ UNCHANGED <<dart, server, op, mine, queue, main, intents, service, pending,
                 fds, budget>>

(* Mutant: an attempt in flight is not shared. *)
InFlightIgnored == Nil
InFlight == starting

New == {k \in Tokens : attempt[k] = "none"}

(* ensureStarted: the known endpoint, the attempt in flight, or a new one. *)
EnsureStarted(c) ==
  /\ pc[c] = "connect"
  /\ \/ /\ endpoint # Nil
        /\ mine' = [mine EXCEPT ![c] = endpoint] /\ Goto(c, "channel")
        /\ UNCHANGED <<starting, attempt>>
     \/ /\ endpoint = Nil /\ InFlight # Nil
        /\ mine' = [mine EXCEPT ![c] = InFlight] /\ Goto(c, "await")
        /\ UNCHANGED <<starting, attempt>>
     \/ /\ endpoint = Nil /\ InFlight = Nil
        /\ New # {}
        /\ LET k == CHOOSE k \in New : TRUE
           IN /\ attempt' = [attempt EXCEPT ![k] = "paths"]
              /\ starting' = k
              /\ mine' = [mine EXCEPT ![c] = k]
        /\ Goto(c, "await")
  /\ UNCHANGED <<endpoint, channel, server, op, queue, main, intents, service,
                 pending, fds, budget>>

Awaiting(k) == {c \in Calls : pc[c] = "await" /\ mine[c] = k}

(* The rest of _start, in one piece once the directories are known: the    *)
(* core binds its port with the attempt's token, unless it already runs.   *)
(* Who still waits gets the attempt's token. *)
NekoboxStart(k) ==
  /\ attempt[k] = "paths"
  /\ server' = IF server = Nil THEN k ELSE server
  /\ attempt' = [attempt EXCEPT ![k] = IF Awaiting(k) = {} THEN "lost" ELSE "taken"]
  /\ IF Awaiting(k) = {} THEN UNCHANGED <<endpoint, starting>>
     ELSE endpoint' = k /\ starting' = Nil
  /\ pc' = [c \in Calls |-> IF c \in Awaiting(k) THEN "channel" ELSE pc[c]]
  /\ UNCHANGED <<channel, op, mine, queue, main, intents, service, pending, fds,
                 budget>>

(* Mutant: only one of the callers that share the attempt hears of it. *)
AbandonOne(k) ==
  /\ starting' = IF Awaiting(k) = {} THEN starting ELSE Nil
  /\ pc' = [c \in Calls |-> IF c \in Awaiting(k) /\ c = CHOOSE d \in Awaiting(k) : TRUE
                           THEN Fails(c) ELSE pc[c]]

Abandon(k) ==
  /\ starting' = IF Awaiting(k) = {} THEN starting ELSE Nil
  /\ pc' = [c \in Calls |-> IF c \in Awaiting(k) THEN Fails(c) ELSE pc[c]]

(* The library is missing, or the port cannot be bound. *)
NekoboxStartFails(k) ==
  /\ attempt[k] = "paths" /\ server = Nil
  /\ attempt' = [attempt EXCEPT ![k] = "lost"]
  /\ Abandon(k)
  /\ UNCHANGED <<endpoint, channel, server, op, mine, queue, main, intents,
                 service, pending, fds, budget>>

(* 20 seconds: the callers fail, the attempt goes on. *)
StartTimesOut(k) ==
  /\ attempt[k] = "paths" /\ Awaiting(k) # {}
  /\ Spend("timeouts")
  /\ Abandon(k)
  /\ UNCHANGED <<endpoint, attempt, channel, server, op, mine, queue, main,
                 intents, service, pending, fds, latest, crossed>>

(* connect, with its ping: a token the server does not know is refused. *)
Connect(c) ==
  /\ pc[c] = "channel"
  /\ channel' = IF mine[c] = server THEN server ELSE Nil
  /\ Goto(c, IF mine[c] = server THEN Proceeds(c) ELSE Fails(c))
  /\ UNCHANGED <<endpoint, starting, attempt, server, op, mine, queue, main,
                 intents, service, pending, fds, budget>>

-----------------------------------------------------------------------------
(* The VPN, as the Dart side asks for it (android_vpn.dart).               *)

Post(what, c) == queue' = Append(queue, [what |-> what, who |-> c])

(* prepare, start, or the stop of _stop and of _start's catch. *)
Invoke(c) ==
  /\ pc[c] \in {"prepare", "start", "undo"}
  /\ Post(pc[c], c) /\ Goto(c, "answer")
  /\ UNCHANGED <<dart, server, op, mine, main, intents, service, pending, fds,
                 budget>>

-----------------------------------------------------------------------------
(* The main thread: one message after the other, while none blocks it.     *)

Handles(what) == main = Nil /\ queue # <<>> /\ Head(queue).what = what
Who == Head(queue).who

(* handlePrepare: consent is there, or the system's dialog opens. *)
Prepare ==
  /\ Handles("prepare") /\ queue' = Tail(queue)
  /\ \/ Goto(Who, "start") /\ UNCHANGED pending
     \/ pending' = Who /\ UNCHANGED pc
  /\ UNCHANGED <<dart, server, op, mine, main, intents, service, fds, budget>>

(* onActivityResult *)
Consent ==
  /\ main = Nil /\ pending # Nil /\ pending' = Nil
  /\ \E granted \in BOOLEAN :
       Goto(pending, IF granted THEN "start" ELSE "undo")
  /\ UNCHANGED <<dart, server, op, mine, queue, main, intents, service, fds,
                 budget>>

(* handleStart: the service is asked for, and the thread waits. *)
HandleStart ==
  /\ Handles("start") /\ queue' = Tail(queue)
  /\ established' = FALSE
  /\ intents' = Append(intents, "START")
  /\ main' = Who
  /\ UNCHANGED <<dart, server, flow, service, pending, open, tunFd, budget>>

(* startLock.wait: notified or after five seconds.  The call goes on with  *)
(* the descriptor, which the core keeps, or into its catch. *)
WaitEnds ==
  /\ main # Nil /\ main' = Nil
  /\ Goto(main, IF established THEN "established" ELSE "undo")
  /\ tunFd' = (tunFd \/ established)
  /\ UNCHANGED <<dart, server, op, mine, queue, intents, service, pending,
                 established, open, budget>>

(* stopVpn: closing the detached descriptor closes nothing; stopSelf. *)
StopVpn(rest) ==
  /\ running' = FALSE /\ active' = FALSE /\ bound' = FALSE
  /\ queue' = IF bound THEN Append(rest, [what |-> "destroy", who |-> Nil])
              ELSE rest

(* Mutant: a stop before the service is there has no effect. *)
StopLaterForgotten == UNCHANGED intents
StopLater == intents' = Append(intents, "STOP")

(* handleStop, and the rest of the Dart side once it is answered.  A       *)
(* service that is there ends at once, whatever STARTs are still to come. *)
HandleStop ==
  /\ Handles("undo")
  /\ IF active THEN StopVpn(Tail(queue)) /\ UNCHANGED intents
     ELSE StopLater /\ queue' = Tail(queue) /\ UNCHANGED service
  /\ tunFd' = FALSE
  /\ Goto(Who, "idle")
  /\ crossed' = (active /\ \E i \in DOMAIN intents : intents[i] = "START")
  /\ UNCHANGED <<dart, server, op, mine, main, pending, established, open,
                 latest, left>>

(* The system delivers an intent, to a service it creates if need be. *)
Deliver ==
  /\ intents # <<>> /\ intents' = Tail(intents)
  /\ queue' = Append(IF bound THEN queue
                     ELSE Append(queue, [what |-> "create", who |-> Nil]),
                     [what |-> Head(intents), who |-> Nil])
  /\ bound' = TRUE
  /\ UNCHANGED <<dart, server, flow, main, active, running, pending, fds, budget>>

OnCreate ==
  /\ Handles("create") /\ queue' = Tail(queue)
  /\ active' = TRUE
  /\ UNCHANGED <<dart, server, flow, main, intents, bound, running, pending, fds,
                 budget>>

(* onStartCommand with START: establish, whose descriptor is detached. *)
Establish ==
  /\ Handles("START") /\ queue' = Tail(queue)
  /\ established' = TRUE /\ open' = TRUE /\ running' = TRUE
  /\ UNCHANGED <<dart, server, flow, main, intents, bound, active, pending, tunFd,
                 budget>>

(* No permission any more: establish returns null. *)
EstablishFails ==
  /\ Handles("START") /\ established' = FALSE
  /\ StopVpn(Tail(queue))
  /\ UNCHANGED <<dart, server, flow, main, intents, pending, open, tunFd, budget>>

(* onStartCommand with STOP, onRevoke, onDestroy. *)
StopCommand ==
  /\ Handles("STOP") \/ Handles("destroy")
  /\ StopVpn(Tail(queue))
  /\ UNCHANGED <<dart, server, flow, main, intents, pending, fds, budget>>

Revoke ==
  /\ main = Nil /\ running
  /\ StopVpn(queue)
  /\ UNCHANGED <<dart, server, flow, main, intents, pending, fds, budget>>

(* The activity is destroyed and created again: a new Dart program, in the *)
(* process where the core runs on.  What the old one had asked is dropped. *)
Gone == [what |-> "gone", who |-> Nil]

Drop ==
  /\ Handles("gone") /\ queue' = Tail(queue)
  /\ UNCHANGED <<dart, server, flow, main, intents, service, pending, fds, budget>>

NewActivity ==
  /\ main = Nil
  /\ Spend("activities")
  /\ endpoint' = Nil /\ starting' = Nil /\ channel' = Nil /\ pending' = Nil
  /\ attempt' = [k \in Tokens |-> IF attempt[k] = "none" THEN "none" ELSE "lost"]
  /\ pc' = [c \in Calls |-> "idle"] /\ op' = [c \in Calls |-> "none"]
  /\ mine' = [c \in Calls |-> Nil] /\ latest' = "none"
  /\ queue' = [i \in DOMAIN queue |-> IF queue[i].who = Nil THEN queue[i] ELSE Gone]
  /\ UNCHANGED <<server, main, intents, service, fds, crossed>>

-----------------------------------------------------------------------------
Call(c) == CheckHealth(c) \/ EnsureStarted(c) \/ Connect(c) \/ Invoke(c)
Attempt(k) == NekoboxStart(k) \/ NekoboxStartFails(k)
MainThread == \/ Prepare \/ HandleStart \/ WaitEnds \/ HandleStop \/ OnCreate
              \/ Establish \/ EstablishFails \/ StopCommand \/ Drop

Next ==
  \/ \E c \in Calls : Call(c) \/ \E what \in {"connect", "start", "stop"} :
                                   Begin(c, what)
  \/ \E k \in Tokens : Attempt(k) \/ StartTimesOut(k)
  \/ MainThread \/ Consent \/ Deliver \/ Revoke \/ NewActivity

(* Round trips and path look-ups end, the threads run, the system delivers *)
(* what was asked, and its dialog is answered or dismissed.                *)
Fairness ==
  /\ \A c \in Calls : WF_vars(Call(c))
  /\ \A k \in Tokens : WF_vars(Attempt(k))
  /\ WF_vars(MainThread) /\ WF_vars(Consent) /\ WF_vars(Deliver)

Spec == Init /\ [][Next]_vars /\ Fairness

-----------------------------------------------------------------------------
(* Properties.                                                             *)

(* The endpoint that callers are given has the token of the core's server, *)
(* unless the server was started by an attempt whose result nobody heard:  *)
(* one that had timed out, or whose Dart program is gone.                  *)
EndpointMatchesServer ==
  endpoint # Nil => server = endpoint \/ attempt[server] = "lost"

(* Every call returns, in whatever way start, permission and VPN fail,     *)
(* unless another call's prepare has overwritten its pending result.       *)
Forgotten(c) == /\ pc[c] = "answer" /\ pending # c /\ main # c
                /\ \A i \in DOMAIN queue : queue[i].who # c
EveryCallReturns == \A c \in Calls : pc[c] # "idle" ~> pc[c] = "idle" \/ Forgotten(c)

(* When the user's latest call was a stop, no VPN runs once everything has *)
(* come to rest, wherever the stop overtook the start and its service;     *)
(* unless the last stop that was handled ended the service of one start    *)
(* while the START of another was still to come: that one is then not      *)
(* answered by a STOP (it takes two starts that overlap, and a stop).      *)
StopEndsVpn ==
  /\ latest = "stop" /\ ~crossed /\ \A c \in Calls : pc[c] = "idle"
  /\ queue = <<>> /\ intents = <<>> /\ main = Nil
  => ~running

(* "waits synchronously for the interface to establish, returning the      *)
(* detached native TUN fd": an open interface is about to be returned to   *)
(* the call that waits for it, or is the one the core was given.           *)
VpnStartReturnsFd == open => (main # Nil /\ established) \/ tunFd

=============================================================================
