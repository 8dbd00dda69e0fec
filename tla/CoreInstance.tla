---------------------------- MODULE CoreInstance ----------------------------
(***************************************************************************)
(* The sing-box instance of nekobox_core (go/cmd/nekobox_core/grpc_box.go  *)
(* and core_box.go): the globals instance, instanceCancel and instanceCtx  *)
(* behind instanceMu, and the RPC handlers that use them.  gRPC runs every *)
(* handler on a goroutine of its own, so the handlers interleave wherever  *)
(* instanceMu does not forbid it.                                          *)
(*                                                                         *)
(* A sing-box box is external: here it is an identity that is created,     *)
(* started and closed, and that holds the inbound port of its config while *)
(* it is started.  Under instanceMu only the steps another goroutine can   *)
(* tell apart (those that change a box or its context) are kept apart.     *)
(***************************************************************************)
EXTENDS Naturals, FiniteSets

CONSTANTS Calls,   \* handler goroutines; each serves one call at a time
          Boxes,   \* box identities; a bound on the boxes ever started
          Ports,   \* the mixed inbound ports a Start config may ask for
          Nil      \* Go's nil: no box, no goroutine, no port

ASSUME NilAssumption ==
  /\ Nil \notin Boxes
  /\ Nil \notin Calls
  /\ Nil \notin Ports

VARIABLES
  writer,          \* the goroutine that holds instanceMu for writing, or Nil
  instance,        \* the globals; a cancel function and a context are
  instanceCancel,  \*   represented by the box they belong to
  instanceCtx,
  box,             \* what sing-box has done with each box
  port,            \* the inbound port in each box's config (Nil: none)
  cancelled,       \* the boxes whose context has been cancelled
  op,              \* the call each goroutine serves
  pc,              \* where in that handler it is
  own,             \* the box the handler creates (createInstance)
  via,             \* the box the handler sends its HTTP probes through
  orphaned         \* history: boxes that a rejected Start made unreachable

vars == <<writer, instance, instanceCancel, instanceCtx, box, port, cancelled,
          op, pc, own, via, orphaned>>
globals == <<instance, instanceCancel, instanceCtx>>
boxes == <<box, port, cancelled>>

TestOps == {"urltest", "fulltest"}         \* Test with a config of its own
ReadOps == {"runningtest", "query"}        \* Test without config, QueryStats
LockOps == {"start", "stop", "shutdown"}
Ops == TestOps \cup ReadOps \cup LockOps \cup {"none"}

Init ==
  /\ writer = Nil
  /\ instance = Nil /\ instanceCancel = Nil /\ instanceCtx = Nil
  /\ box = [b \in Boxes |-> "unused"]
  /\ port = [b \in Boxes |-> Nil]
  /\ cancelled = {}
  /\ op = [c \in Calls |-> "none"]
  /\ pc = [c \in Calls |-> "idle"]
  /\ own = [c \in Calls |-> Nil]
  /\ via = [c \in Calls |-> Nil]
  /\ orphaned = {}

-----------------------------------------------------------------------------
(* Calls arrive and return.                                                *)

(* Handler c returns: its goroutine ends and its locals die with it. *)
Return(c) ==
  /\ op' = [op EXCEPT ![c] = "none"]
  /\ pc' = [pc EXCEPT ![c] = "idle"]
  /\ own' = [own EXCEPT ![c] = Nil]
  /\ via' = [via EXCEPT ![c] = Nil]

Goto(c, label) ==
  /\ pc' = [pc EXCEPT ![c] = label]
  /\ UNCHANGED <<op, own, via>>

(* A call that will create a box takes a fresh identity for it. *)
CallWithBox(c, o, b) ==
  /\ pc[c] = "idle"
  /\ box[b] = "unused" /\ \A d \in Calls : own[d] # b
  /\ op' = [op EXCEPT ![c] = o]
  /\ pc' = [pc EXCEPT ![c] = IF o = "start" THEN "lock" ELSE "new"]
  /\ own' = [own EXCEPT ![c] = b]
  /\ UNCHANGED <<writer, globals, boxes, via, orphaned>>

Call(c, o) ==
  /\ pc[c] = "idle"
  /\ op' = [op EXCEPT ![c] = o]
  /\ pc' = [pc EXCEPT ![c] = IF o \in ReadOps THEN "read" ELSE "lock"]
  /\ UNCHANGED <<writer, globals, boxes, own, via, orphaned>>

Arrive(c) ==
  \/ \E o \in TestOps \cup {"start"}, b \in Boxes : CallWithBox(c, o, b)
  \/ \E o \in ReadOps \cup {"stop", "shutdown"} : Call(c, o)

-----------------------------------------------------------------------------
(* Start.                                                                  *)

(* A second Start is an error, and the deferred error handler sets         *)
(* instance to nil: the running box stays up and nothing refers to it.     *)
StartRejected(c) ==
  /\ op[c] = "start" /\ pc[c] = "lock" /\ writer = Nil
  /\ instance # Nil
  /\ instance' = Nil
  /\ orphaned' = orphaned \cup {instance}
  /\ Return(c)
  /\ UNCHANGED <<writer, instanceCancel, instanceCtx, boxes>>

(* Mutant: the check for a running instance is dropped. *)
StartLockUnchecked(c) ==
  /\ op[c] = "start" /\ pc[c] = "lock" /\ writer = Nil
  /\ writer' = c
  /\ Goto(c, "new")
  /\ UNCHANGED <<globals, boxes, orphaned>>

StartLock(c) ==
  /\ op[c] = "start" /\ pc[c] = "lock" /\ writer = Nil
  /\ instance = Nil
  /\ writer' = c
  /\ Goto(c, "new")
  /\ UNCHANGED <<globals, boxes, orphaned>>

-----------------------------------------------------------------------------
(* createInstance, for Start (under instanceMu) and for Test (without).    *)

(* What Start makes of createInstance's results: it stores all three in    *)
(* one assignment, nils included when it failed, and unlocks.              *)
Publish(c, b) ==
  IF op[c] = "start"
  THEN /\ writer' = Nil
       /\ instance' = b /\ instanceCancel' = b /\ instanceCtx' = b
  ELSE UNCHANGED <<writer, globals>>

(* Mutant: the instance is published, and the lock let go, before Start. *)
NewBoxPublishesEarly(c) ==
  /\ pc[c] = "new"
  /\ box' = [box EXCEPT ![own[c]] = "created"]
  /\ \E p \in IF op[c] = "start" THEN Ports ELSE {Nil} :
       port' = [port EXCEPT ![own[c]] = p]
  /\ Publish(c, own[c])
  /\ Goto(c, "run")
  /\ UNCHANGED <<cancelled, orphaned>>

(* Only a Start config has inbounds: the client's test configs have none. *)
NewBox(c) ==
  /\ pc[c] = "new"
  /\ box' = [box EXCEPT ![own[c]] = "created"]
  /\ \E p \in IF op[c] = "start" THEN Ports ELSE {Nil} :
       port' = [port EXCEPT ![own[c]] = p]
  /\ Goto(c, "run")
  /\ UNCHANGED <<writer, globals, cancelled, orphaned>>

(* The config does not parse or box.New refuses it: no box was created. *)
NewBoxFails(c) ==
  /\ pc[c] = "new"
  /\ Publish(c, Nil)
  /\ Return(c)
  /\ UNCHANGED <<boxes, orphaned>>

PortTaken(p) == p # Nil /\ \E b \in Boxes : box[b] = "started" /\ port[b] = p

RunBox(c) ==
  /\ pc[c] = "run"
  /\ ~PortTaken(port[own[c]])
  /\ box' = [box EXCEPT ![own[c]] = "started"]
  /\ Publish(c, own[c])
  /\ \/ op[c] = "start" /\ Return(c)
     \/ op[c] = "fulltest" /\ Goto(c, "resolve")
     \/ /\ op[c] = "urltest"
        /\ pc' = [pc EXCEPT ![c] = "probe"]
        /\ via' = [via EXCEPT ![c] = own[c]]
        /\ UNCHANGED <<op, own>>
  /\ UNCHANGED <<port, cancelled, orphaned>>

(* Mutant: the half-started box is cancelled but not closed. *)
RunBoxFailsKeepsIt(c) ==
  /\ pc[c] = "run"
  /\ cancelled' = cancelled \cup {own[c]}
  /\ Publish(c, Nil)
  /\ Return(c)
  /\ UNCHANGED <<box, port, orphaned>>

(* inst.Start may fail for any reason; a taken port is one of them. *)
RunBoxFails(c) ==
  /\ pc[c] = "run"
  /\ box' = [box EXCEPT ![own[c]] = "closed"]
  /\ cancelled' = cancelled \cup {own[c]}
  /\ Publish(c, Nil)
  /\ Return(c)
  /\ UNCHANGED <<port, orphaned>>

-----------------------------------------------------------------------------
(* Stop, and shutdownCoreInstance (the shutdown hook of Exit).             *)

(* Mutant: the early return forgets to unlock. *)
StopNothingKeepsLock(c) ==
  /\ op[c] = "stop" /\ pc[c] = "lock" /\ writer = Nil
  /\ instance = Nil
  /\ writer' = c
  /\ Return(c)
  /\ UNCHANGED <<globals, boxes, orphaned>>

StopNothing(c) ==
  /\ op[c] = "stop" /\ pc[c] = "lock" /\ writer = Nil
  /\ instance = Nil
  /\ Return(c)
  /\ UNCHANGED <<writer, globals, boxes, orphaned>>

(* Mutant: Stop does not return early when there is no instance. *)
StopCancelUnchecked(c) ==
  /\ op[c] = "stop" /\ pc[c] = "lock" /\ writer = Nil
  /\ writer' = c
  /\ cancelled' = cancelled \cup {instanceCancel}
  /\ Goto(c, "close")
  /\ UNCHANGED <<globals, box, port, orphaned>>

(* Stop cancels without looking: a nil instanceCancel would panic. *)
StopCancel(c) ==
  /\ op[c] = "stop" /\ pc[c] = "lock" /\ writer = Nil
  /\ instance # Nil
  /\ writer' = c
  /\ cancelled' = cancelled \cup {instanceCancel}
  /\ Goto(c, "close")
  /\ UNCHANGED <<globals, box, port, orphaned>>

(* The hook cancels and closes whatever is not nil. *)
ShutdownCancel(c) ==
  /\ op[c] = "shutdown" /\ pc[c] = "lock" /\ writer = Nil
  /\ writer' = c
  /\ cancelled' = cancelled \cup ({instanceCancel} \ {Nil})
  /\ Goto(c, "close")
  /\ UNCHANGED <<globals, box, port, orphaned>>

(* Mutant: the instance is closed but not forgotten. *)
CloseInstanceKeepsIt(c) ==
  /\ op[c] \in {"stop", "shutdown"} /\ pc[c] = "close"
  /\ box' = IF instance = Nil THEN box ELSE [box EXCEPT ![instance] = "closed"]
  /\ writer' = Nil
  /\ Return(c)
  /\ UNCHANGED <<globals, port, cancelled, orphaned>>

CloseInstance(c) ==
  /\ op[c] \in {"stop", "shutdown"} /\ pc[c] = "close"
  /\ box' = IF instance = Nil THEN box ELSE [box EXCEPT ![instance] = "closed"]
  /\ instance' = Nil /\ instanceCancel' = Nil /\ instanceCtx' = Nil
  /\ writer' = Nil
  /\ Return(c)
  /\ UNCHANGED <<port, cancelled, orphaned>>

-----------------------------------------------------------------------------
(* Test and QueryStats.                                                    *)

(* The read lock is held for the copy only; the copy is used after it. *)
ReadInstance(c) ==
  /\ pc[c] = "read" /\ writer = Nil
  /\ IF instance = Nil
     THEN Return(c)
     ELSE /\ via' = [via EXCEPT ![c] = instance]
          /\ pc' = [pc EXCEPT ![c] = "probe"]
          /\ UNCHANGED <<op, own>>
  /\ UNCHANGED <<writer, globals, boxes, orphaned>>

(* DoFullTest asks resolveProxyClient for its HTTP client: the running     *)
(* instance's, or a direct one, never that of the box under test.          *)
ResolveProxyClient(c) ==
  /\ pc[c] = "resolve" /\ writer = Nil
  /\ via' = [via EXCEPT ![c] = instance]
  /\ pc' = [pc EXCEPT ![c] = "probe"]
  /\ UNCHANGED <<op, own, writer, globals, boxes, orphaned>>

(* The probe ends, by an answer or by its timeout. *)
ProbeDone(c) ==
  /\ pc[c] = "probe"
  /\ IF op[c] \in TestOps THEN Goto(c, "cancel") ELSE Return(c)
  /\ UNCHANGED <<writer, globals, boxes, orphaned>>

(* Mutant: the test cancels the global cancel function, not its own. *)
TestCancelsInstance(c) ==
  /\ pc[c] = "cancel"
  /\ cancelled' = cancelled \cup ({instanceCancel} \ {Nil})
  /\ Goto(c, "test.close")
  /\ UNCHANGED <<writer, globals, box, port, orphaned>>

(* The deferred calls of Test run last in, first out: cancel, then Close. *)
TestCancel(c) ==
  /\ pc[c] = "cancel"
  /\ cancelled' = cancelled \cup {own[c]}
  /\ Goto(c, "test.close")
  /\ UNCHANGED <<writer, globals, box, port, orphaned>>

(* Mutant: the deferred Close is missing. *)
TestNeverCloses(c) ==
  /\ pc[c] = "test.close"
  /\ Return(c)
  /\ UNCHANGED <<writer, globals, boxes, orphaned>>

TestClose(c) ==
  /\ pc[c] = "test.close"
  /\ box' = [box EXCEPT ![own[c]] = "closed"]
  /\ Return(c)
  /\ UNCHANGED <<writer, globals, port, cancelled, orphaned>>

-----------------------------------------------------------------------------
Locking(c) ==
  \/ StartRejected(c) \/ StartLock(c)
  \/ StopNothing(c) \/ StopCancel(c) \/ ShutdownCancel(c)
  \/ ReadInstance(c) \/ ResolveProxyClient(c)

Running(c) ==
  \/ NewBox(c) \/ NewBoxFails(c) \/ RunBox(c) \/ RunBoxFails(c)
  \/ CloseInstance(c)
  \/ ProbeDone(c) \/ TestCancel(c) \/ TestClose(c)

Next == \E c \in Calls : Arrive(c) \/ Locking(c) \/ Running(c)

Spec == Init /\ [][Next]_vars

(* A handler that can move does; sync.RWMutex starves nobody (a blocked    *)
(* writer holds back new readers, and sync.Mutex hands over to a waiter).  *)
Fairness == \A c \in Calls : WF_vars(Running(c)) /\ SF_vars(Locking(c))

FairSpec == Spec /\ Fairness

-----------------------------------------------------------------------------
(* Properties.                                                             *)

TypeOK ==
  /\ writer \in Calls \cup {Nil}
  /\ instance \in Boxes \cup {Nil}
  /\ instanceCancel \in Boxes \cup {Nil}
  /\ instanceCtx \in Boxes \cup {Nil}
  /\ box \in [Boxes -> {"unused", "created", "started", "closed"}]
  /\ port \in [Boxes -> Ports \cup {Nil}]
  /\ cancelled \subseteq Boxes
  /\ op \in [Calls -> Ops]
  /\ pc \in [Calls -> {"idle", "lock", "new", "run", "close", "read",
                       "resolve", "probe", "cancel", "test.close"}]
  /\ own \in [Calls -> Boxes \cup {Nil}]
  /\ via \in [Calls -> Boxes \cup {Nil}]
  /\ orphaned \subseteq Boxes

(* Whoever takes instanceMu and finds an instance finds a started box with *)
(* its own cancel function and context, not cancelled: Stop never calls a  *)
(* nil cancel function (a panic that would end the core) and a reader is   *)
(* never handed a box that is half built or half closed.                   *)
InstanceUsable ==
  writer = Nil /\ instance # Nil =>
    /\ box[instance] = "started"
    /\ instanceCancel = instance /\ instanceCtx = instance
    /\ instance \notin cancelled

(* No box leaks except through a rejected Start: a box that was created or *)
(* started and not closed is the instance, or belongs to a Start or a Test *)
(* that will publish or close it (core_box.go:69 closes one whose Start    *)
(* failed), or was the instance when a Start was rejected.                 *)
LiveBoxAccounted ==
  \A b \in Boxes : box[b] \in {"created", "started"} =>
    \/ b = instance
    \/ \E c \in Calls : own[c] = b
    \/ b \in orphaned

(* A box a probe borrowed without the lock may have been closed since, but *)
(* it was started: a handler never probes through a box under construction.*)
BorrowedBoxWasStarted ==
  \A c \in Calls : via[c] # Nil => box[via[c]] \in {"started", "closed"}

(* The probe never disturbs the running instance (home_page.dart:1254):    *)
(* no step of a Test changes the globals, closes or cancels the running    *)
(* box or an orphan, or takes an inbound port.                             *)
ProbeDisturbsNothing ==
  [][\A c \in Calls : op[c] \in TestOps /\ (pc'[c] # pc[c]) =>
       /\ UNCHANGED globals
       /\ \A b \in Boxes : own[c] # b =>
            /\ box'[b] = box[b]
            /\ b \in cancelled' => b \in cancelled
       /\ own[c] # instance /\ own[c] \notin orphaned
       /\ \A b \in Boxes : port'[b] # port[b] => port'[b] = Nil]_vars

(* The handlers implement the sequential promise of CoreService.           *)
LiveBoxes == {b \in Boxes : box[b] = "started"}
Abstract == INSTANCE CoreService WITH active <- instance, alive <- LiveBoxes
ImplementsCoreService == Abstract!Spec

(* Every call returns: no handler waits for instanceMu for ever.           *)
EveryCallReturns == \A c \in Calls : pc[c] # "idle" ~> pc[c] = "idle"

(* "Stop stops the running instance" (grpc_box.go:79): when Stop returns,  *)
(* no box started for the user still serves an inbound port.               *)
Serving == {b \in Boxes : box[b] = "started" /\ port[b] # Nil}
StopStopsTheRunningInstance ==
  [][\A c \in Calls : op[c] = "stop" /\ pc'[c] = "idle" => Serving' = {}]_vars
=============================================================================
