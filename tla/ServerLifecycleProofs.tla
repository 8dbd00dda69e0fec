----------------------- MODULE ServerLifecycleProofs -----------------------
(***************************************************************************)
(* Proofs about CoreInstance and ServerLifecycle, which extends it, for any*)
(* number of goroutines, boxes, ports, Exit calls and servers.             *)
(*                                                                         *)
(* First the instance alone.  Its inductive invariant says where each      *)
(* handler may be for each call (HandlerOK), whose the boxes are (OwnOK),  *)
(* who holds instanceMu (LockOK) and what the globals may point to         *)
(* (GlobalsOK).                                                            *)
(*                                                                         *)
(* Then the composition: the hook and the drain come in the order the code *)
(* promises, no server takes calls between NekoboxStop and NekoboxStart,   *)
(* nor will one whose Serve is late; and                                   *)
(* the composition implements CoreInstance, so that what is proved of the  *)
(* instance holds of it too.  That invariant follows a server (ConnOK: it  *)
(* is drained when it has no handler left), the Exit goroutines (HookOK),  *)
(* the one of them that the desktop can have (DesktopOK) and the one server*)
(* that Android can have listening (MobileOK).                             *)
(***************************************************************************)
EXTENDS ServerLifecycle, TLAPS

-----------------------------------------------------------------------------
(* The instance.                                                           *)

Owning(c) == op[c] \in TestOps \cup {"start"}

HandlerOK == \A c \in Calls :
  /\ pc[c] = "idle" <=> op[c] = "none"
  /\ pc[c] = "lock" => op[c] \in LockOps
  /\ pc[c] \in {"new", "run"} => Owning(c)
  /\ pc[c] = "close" => op[c] \in {"stop", "shutdown"}
  /\ pc[c] = "read" => op[c] \in ReadOps
  /\ pc[c] = "resolve" => op[c] = "fulltest"
  /\ pc[c] = "probe" => op[c] \in TestOps \cup ReadOps
  /\ pc[c] \in {"cancel", "test.close"} => op[c] \in TestOps

(* The box a handler creates is its own, in the state its place tells. *)
OwnOK == \A c \in Calls :
  /\ Owning(c) <=> own[c] # Nil
  /\ \A d \in Calls : own[c] # Nil /\ own[c] = own[d] => c = d
  /\ Owning(c) =>
       /\ pc[c] \in {"lock", "new"} => box[own[c]] = "unused"
       /\ pc[c] = "run" => box[own[c]] = "created"
       /\ pc[c] \in {"resolve", "probe", "cancel", "test.close"}
            => box[own[c]] = "started"
       /\ own[c] # instance
       /\ own[c] \notin orphaned

(* instanceMu: the holder is the one goroutine inside a critical section. *)
Critical(c) ==
  \/ pc[c] = "close"
  \/ op[c] = "start" /\ pc[c] \in {"new", "run"}

LockOK == \A c \in Calls : Critical(c) <=> writer = c

(* A Start in its critical section found no instance. *)
StartFoundNone == \A c \in Calls :
  op[c] = "start" /\ pc[c] \in {"new", "run"} => instance = Nil

WasStarted(b) == box[b] \in {"started", "closed"}

GlobalsOK ==
  /\ instance # Nil =>
       /\ box[instance] = "started"
       /\ instanceCancel = instance /\ instanceCtx = instance
       /\ writer = Nil => instance \notin cancelled
       /\ instance \notin orphaned
  /\ instanceCancel # Nil => WasStarted(instanceCancel)
  /\ \A b \in cancelled : WasStarted(b)
  /\ \A b \in orphaned : box[b] = "started"

IInv ==
  /\ TypeOK
  /\ HandlerOK
  /\ OwnOK
  /\ LockOK
  /\ StartFoundNone
  /\ GlobalsOK
  /\ LiveBoxAccounted
  /\ BorrowedBoxWasStarted

-----------------------------------------------------------------------------
LEMMA InitIInv == Init => IInv
BY NilAssumption
DEF Init, IInv, TypeOK, HandlerOK, OwnOK, LockOK, StartFoundNone, GlobalsOK,
    LiveBoxAccounted, BorrowedBoxWasStarted, Ops, TestOps, ReadOps, LockOps,
    Owning, Critical

(* Each step of a handler keeps the invariant: first what it says of the    *)
(* handlers and the lock, then of the boxes handlers own, then of the rest. *)
LEMMA HandlerKeepsIInv ==
  ASSUME IInv, NEW c \in Calls, Arrive(c) \/ Locking(c) \/ Running(c)
  PROVE  IInv'
<1> USE NilAssumption
    DEF Return, Goto, Publish, globals, boxes, TestOps, ReadOps, LockOps, Ops,
        Owning, Critical, WasStarted
<1>0. /\ TypeOK /\ HandlerOK /\ OwnOK /\ LockOK /\ StartFoundNone
      /\ GlobalsOK /\ LiveBoxAccounted /\ BorrowedBoxWasStarted
  BY DEF IInv
<1>1. ASSUME NEW o \in TestOps \cup {"start"}, NEW b \in Boxes,
             CallWithBox(c, o, b)
      PROVE  IInv'
  <2>1. TypeOK' /\ HandlerOK' /\ LockOK' /\ StartFoundNone'
    BY <1>0, <1>1 DEF CallWithBox, TypeOK, HandlerOK, LockOK, StartFoundNone,
                     OwnOK
  <2>2. OwnOK'
    BY <1>0, <1>1 DEF CallWithBox, TypeOK, HandlerOK, OwnOK, LockOK, GlobalsOK,
                     StartFoundNone
  <2>3. GlobalsOK' /\ LiveBoxAccounted' /\ BorrowedBoxWasStarted'
    BY <1>0, <1>1 DEF CallWithBox, TypeOK, HandlerOK, OwnOK, LockOK, GlobalsOK,
                     StartFoundNone, LiveBoxAccounted, BorrowedBoxWasStarted
  <2>4. QED BY <2>1, <2>2, <2>3 DEF IInv
<1>2. ASSUME NEW o \in ReadOps \cup {"stop", "shutdown"}, Call(c, o)
      PROVE  IInv'
  <2>1. TypeOK' /\ HandlerOK' /\ LockOK' /\ StartFoundNone'
    BY <1>0, <1>2 DEF Call, TypeOK, HandlerOK, LockOK, StartFoundNone,
                     OwnOK
  <2>2. OwnOK'
    BY <1>0, <1>2 DEF Call, TypeOK, HandlerOK, OwnOK, LockOK, GlobalsOK,
                     StartFoundNone
  <2>3. GlobalsOK' /\ LiveBoxAccounted' /\ BorrowedBoxWasStarted'
    BY <1>0, <1>2 DEF Call, TypeOK, HandlerOK, OwnOK, LockOK, GlobalsOK,
                     StartFoundNone, LiveBoxAccounted, BorrowedBoxWasStarted
  <2>4. QED BY <2>1, <2>2, <2>3 DEF IInv
<1>3. ASSUME StartRejected(c) PROVE  IInv'
  <2>1. TypeOK' /\ HandlerOK' /\ LockOK' /\ StartFoundNone'
    BY <1>0, <1>3 DEF StartRejected, TypeOK, HandlerOK, LockOK, StartFoundNone,
                     OwnOK
  <2>2. OwnOK'
    BY <1>0, <1>3 DEF StartRejected, TypeOK, HandlerOK, OwnOK, LockOK, GlobalsOK,
                     StartFoundNone
  <2>3. GlobalsOK' /\ LiveBoxAccounted' /\ BorrowedBoxWasStarted'
    BY <1>0, <1>3 DEF StartRejected, TypeOK, HandlerOK, OwnOK, LockOK, GlobalsOK,
                     StartFoundNone, LiveBoxAccounted, BorrowedBoxWasStarted
  <2>4. QED BY <2>1, <2>2, <2>3 DEF IInv
<1>4. ASSUME StartLock(c) PROVE  IInv'
  <2>1. TypeOK' /\ HandlerOK' /\ LockOK' /\ StartFoundNone'
    BY <1>0, <1>4 DEF StartLock, TypeOK, HandlerOK, LockOK, StartFoundNone,
                     OwnOK
  <2>2. OwnOK'
    BY <1>0, <1>4 DEF StartLock, TypeOK, HandlerOK, OwnOK, LockOK, GlobalsOK,
                     StartFoundNone
  <2>3. GlobalsOK' /\ LiveBoxAccounted' /\ BorrowedBoxWasStarted'
    BY <1>0, <1>4 DEF StartLock, TypeOK, HandlerOK, OwnOK, LockOK, GlobalsOK,
                     StartFoundNone, LiveBoxAccounted, BorrowedBoxWasStarted
  <2>4. QED BY <2>1, <2>2, <2>3 DEF IInv
<1>5. ASSUME NewBox(c) PROVE  IInv'
  <2>1. TypeOK' /\ HandlerOK' /\ LockOK' /\ StartFoundNone'
    BY <1>0, <1>5 DEF NewBox, TypeOK, HandlerOK, LockOK, StartFoundNone,
                     OwnOK
  <2>2. OwnOK'
    BY <1>0, <1>5 DEF NewBox, TypeOK, HandlerOK, OwnOK, LockOK, GlobalsOK,
                     StartFoundNone
  <2>3. GlobalsOK' /\ LiveBoxAccounted' /\ BorrowedBoxWasStarted'
    BY <1>0, <1>5 DEF NewBox, TypeOK, HandlerOK, OwnOK, LockOK, GlobalsOK,
                     StartFoundNone, LiveBoxAccounted, BorrowedBoxWasStarted
  <2>4. QED BY <2>1, <2>2, <2>3 DEF IInv
<1>6. ASSUME NewBoxFails(c) PROVE  IInv'
  <2>1. TypeOK' /\ HandlerOK' /\ LockOK' /\ StartFoundNone'
    BY <1>0, <1>6 DEF NewBoxFails, TypeOK, HandlerOK, LockOK, StartFoundNone,
                     OwnOK
  <2>2. OwnOK'
    BY <1>0, <1>6 DEF NewBoxFails, TypeOK, HandlerOK, OwnOK, LockOK, GlobalsOK,
                     StartFoundNone
  <2>3. GlobalsOK' /\ LiveBoxAccounted' /\ BorrowedBoxWasStarted'
    BY <1>0, <1>6 DEF NewBoxFails, TypeOK, HandlerOK, OwnOK, LockOK, GlobalsOK,
                     StartFoundNone, LiveBoxAccounted, BorrowedBoxWasStarted
  <2>4. QED BY <2>1, <2>2, <2>3 DEF IInv
<1>7. ASSUME RunBox(c) PROVE  IInv'
  <2>1. TypeOK' /\ HandlerOK' /\ LockOK' /\ StartFoundNone'
    BY <1>0, <1>7 DEF RunBox, TypeOK, HandlerOK, LockOK, StartFoundNone,
                     OwnOK
  <2>2. OwnOK'
    BY <1>0, <1>7 DEF RunBox, TypeOK, HandlerOK, OwnOK, LockOK, GlobalsOK,
                     StartFoundNone
  <2>3. GlobalsOK' /\ LiveBoxAccounted' /\ BorrowedBoxWasStarted'
    BY <1>0, <1>7 DEF RunBox, TypeOK, HandlerOK, OwnOK, LockOK, GlobalsOK,
                     StartFoundNone, LiveBoxAccounted, BorrowedBoxWasStarted
  <2>4. QED BY <2>1, <2>2, <2>3 DEF IInv
<1>8. ASSUME RunBoxFails(c) PROVE  IInv'
  <2>1. TypeOK' /\ HandlerOK' /\ LockOK' /\ StartFoundNone'
    BY <1>0, <1>8 DEF RunBoxFails, TypeOK, HandlerOK, LockOK, StartFoundNone,
                     OwnOK
  <2>2. OwnOK'
    BY <1>0, <1>8 DEF RunBoxFails, TypeOK, HandlerOK, OwnOK, LockOK, GlobalsOK,
                     StartFoundNone
  <2>3. GlobalsOK' /\ LiveBoxAccounted' /\ BorrowedBoxWasStarted'
    BY <1>0, <1>8 DEF RunBoxFails, TypeOK, HandlerOK, OwnOK, LockOK, GlobalsOK,
                     StartFoundNone, LiveBoxAccounted, BorrowedBoxWasStarted
  <2>4. QED BY <2>1, <2>2, <2>3 DEF IInv
<1>9. ASSUME StopNothing(c) PROVE  IInv'
  <2>1. TypeOK' /\ HandlerOK' /\ LockOK' /\ StartFoundNone'
    BY <1>0, <1>9 DEF StopNothing, TypeOK, HandlerOK, LockOK, StartFoundNone,
                     OwnOK
  <2>2. OwnOK'
    BY <1>0, <1>9 DEF StopNothing, TypeOK, HandlerOK, OwnOK, LockOK, GlobalsOK,
                     StartFoundNone
  <2>3. GlobalsOK' /\ LiveBoxAccounted' /\ BorrowedBoxWasStarted'
    BY <1>0, <1>9 DEF StopNothing, TypeOK, HandlerOK, OwnOK, LockOK, GlobalsOK,
                     StartFoundNone, LiveBoxAccounted, BorrowedBoxWasStarted
  <2>4. QED BY <2>1, <2>2, <2>3 DEF IInv
<1>10. ASSUME StopCancel(c) PROVE  IInv'
  <2>1. TypeOK' /\ HandlerOK' /\ LockOK' /\ StartFoundNone'
    BY <1>0, <1>10 DEF StopCancel, TypeOK, HandlerOK, LockOK, StartFoundNone,
                     OwnOK, GlobalsOK
  <2>2. OwnOK'
    BY <1>0, <1>10 DEF StopCancel, TypeOK, HandlerOK, OwnOK, LockOK, GlobalsOK,
                     StartFoundNone
  <2>3. GlobalsOK' /\ LiveBoxAccounted' /\ BorrowedBoxWasStarted'
    BY <1>0, <1>10 DEF StopCancel, TypeOK, HandlerOK, OwnOK, LockOK, GlobalsOK,
                     StartFoundNone, LiveBoxAccounted, BorrowedBoxWasStarted
  <2>4. QED BY <2>1, <2>2, <2>3 DEF IInv
<1>11. ASSUME ShutdownCancel(c) PROVE  IInv'
  <2>1. TypeOK' /\ HandlerOK' /\ LockOK' /\ StartFoundNone'
    BY <1>0, <1>11 DEF ShutdownCancel, TypeOK, HandlerOK, LockOK, StartFoundNone,
                     OwnOK
  <2>2. OwnOK'
    BY <1>0, <1>11 DEF ShutdownCancel, TypeOK, HandlerOK, OwnOK, LockOK, GlobalsOK,
                     StartFoundNone
  <2>3. GlobalsOK' /\ LiveBoxAccounted' /\ BorrowedBoxWasStarted'
    BY <1>0, <1>11 DEF ShutdownCancel, TypeOK, HandlerOK, OwnOK, LockOK, GlobalsOK,
                     StartFoundNone, LiveBoxAccounted, BorrowedBoxWasStarted
  <2>4. QED BY <2>1, <2>2, <2>3 DEF IInv
<1>12. ASSUME CloseInstance(c) PROVE  IInv'
  <2>1. TypeOK' /\ HandlerOK' /\ LockOK' /\ StartFoundNone'
    BY <1>0, <1>12 DEF CloseInstance, TypeOK, HandlerOK, LockOK, StartFoundNone,
                     OwnOK
  <2>2. OwnOK'
    BY <1>0, <1>12 DEF CloseInstance, TypeOK, HandlerOK, OwnOK, LockOK, GlobalsOK,
                     StartFoundNone
  <2>3. GlobalsOK' /\ LiveBoxAccounted' /\ BorrowedBoxWasStarted'
    BY <1>0, <1>12 DEF CloseInstance, TypeOK, HandlerOK, OwnOK, LockOK, GlobalsOK,
                     StartFoundNone, LiveBoxAccounted, BorrowedBoxWasStarted
  <2>4. QED BY <2>1, <2>2, <2>3 DEF IInv
<1>13. ASSUME ReadInstance(c) PROVE  IInv'
  <2>1. TypeOK' /\ HandlerOK' /\ LockOK' /\ StartFoundNone'
    BY <1>0, <1>13 DEF ReadInstance, TypeOK, HandlerOK, LockOK, StartFoundNone,
                     OwnOK
  <2>2. OwnOK'
    BY <1>0, <1>13 DEF ReadInstance, TypeOK, HandlerOK, OwnOK, LockOK, GlobalsOK,
                     StartFoundNone
  <2>3. GlobalsOK' /\ LiveBoxAccounted' /\ BorrowedBoxWasStarted'
    BY <1>0, <1>13 DEF ReadInstance, TypeOK, HandlerOK, OwnOK, LockOK, GlobalsOK,
                     StartFoundNone, LiveBoxAccounted, BorrowedBoxWasStarted
  <2>4. QED BY <2>1, <2>2, <2>3 DEF IInv
<1>14. ASSUME ResolveProxyClient(c) PROVE  IInv'
  <2>1. TypeOK' /\ HandlerOK' /\ LockOK' /\ StartFoundNone'
    BY <1>0, <1>14 DEF ResolveProxyClient, TypeOK, HandlerOK, LockOK, StartFoundNone,
                     OwnOK
  <2>2. OwnOK'
    BY <1>0, <1>14 DEF ResolveProxyClient, TypeOK, HandlerOK, OwnOK, LockOK, GlobalsOK,
                     StartFoundNone
  <2>3. GlobalsOK' /\ LiveBoxAccounted' /\ BorrowedBoxWasStarted'
    BY <1>0, <1>14 DEF ResolveProxyClient, TypeOK, HandlerOK, OwnOK, LockOK, GlobalsOK,
                     StartFoundNone, LiveBoxAccounted, BorrowedBoxWasStarted
  <2>4. QED BY <2>1, <2>2, <2>3 DEF IInv
<1>15. ASSUME ProbeDone(c) PROVE  IInv'
  <2>1. TypeOK' /\ HandlerOK' /\ LockOK' /\ StartFoundNone'
    BY <1>0, <1>15 DEF ProbeDone, TypeOK, HandlerOK, LockOK, StartFoundNone,
                     OwnOK
  <2>2. OwnOK'
    BY <1>0, <1>15 DEF ProbeDone, TypeOK, HandlerOK, OwnOK, LockOK, GlobalsOK,
                     StartFoundNone
  <2>3. GlobalsOK' /\ LiveBoxAccounted' /\ BorrowedBoxWasStarted'
    BY <1>0, <1>15 DEF ProbeDone, TypeOK, HandlerOK, OwnOK, LockOK, GlobalsOK,
                     StartFoundNone, LiveBoxAccounted, BorrowedBoxWasStarted
  <2>4. QED BY <2>1, <2>2, <2>3 DEF IInv
<1>16. ASSUME TestCancel(c) PROVE  IInv'
  <2>1. TypeOK' /\ HandlerOK' /\ LockOK' /\ StartFoundNone'
    BY <1>0, <1>16 DEF TestCancel, TypeOK, HandlerOK, LockOK, StartFoundNone,
                     OwnOK
  <2>2. OwnOK'
    BY <1>0, <1>16 DEF TestCancel, TypeOK, HandlerOK, OwnOK, LockOK, GlobalsOK,
                     StartFoundNone
  <2>3. GlobalsOK' /\ LiveBoxAccounted' /\ BorrowedBoxWasStarted'
    BY <1>0, <1>16 DEF TestCancel, TypeOK, HandlerOK, OwnOK, LockOK, GlobalsOK,
                     StartFoundNone, LiveBoxAccounted, BorrowedBoxWasStarted
  <2>4. QED BY <2>1, <2>2, <2>3 DEF IInv
<1>17. ASSUME TestClose(c) PROVE  IInv'
  <2>1. TypeOK' /\ HandlerOK' /\ LockOK' /\ StartFoundNone'
    BY <1>0, <1>17 DEF TestClose, TypeOK, HandlerOK, LockOK, StartFoundNone,
                     OwnOK
  <2>2. OwnOK'
    BY <1>0, <1>17 DEF TestClose, TypeOK, HandlerOK, OwnOK, LockOK, GlobalsOK,
                     StartFoundNone
  <2>3. GlobalsOK' /\ LiveBoxAccounted' /\ BorrowedBoxWasStarted'
    BY <1>0, <1>17 DEF TestClose, TypeOK, HandlerOK, OwnOK, LockOK, GlobalsOK,
                     StartFoundNone, LiveBoxAccounted, BorrowedBoxWasStarted
  <2>4. QED BY <2>1, <2>2, <2>3 DEF IInv
<1>18. QED
  BY <1>1, <1>2, <1>3, <1>4, <1>5, <1>6, <1>7, <1>8, <1>9, <1>10, <1>11, <1>12, <1>13, <1>14, <1>15, <1>16, <1>17
  DEF Arrive, Locking, Running

LEMMA NextIInv == IInv /\ [Next]_vars => IInv'
<1>1. IInv /\ Next => IInv'
  BY HandlerKeepsIInv DEF Next
<1>2. IInv /\ UNCHANGED vars => IInv'
  BY DEF IInv, vars, TypeOK, HandlerOK, OwnOK, LockOK, StartFoundNone,
         GlobalsOK, LiveBoxAccounted, BorrowedBoxWasStarted, Owning, Critical,
         WasStarted
<1>3. QED BY <1>1, <1>2

(* The invariant holds in every reachable state. *)
THEOREM Invariance == Spec => []IInv
BY InitIInv, NextIInv, PTL DEF Spec

(* The variables always have their types. *)
THEOREM TypeCorrect == Spec => []TypeOK
<1>1. IInv => TypeOK
  BY DEF IInv
<1>2. QED BY <1>1, Invariance, PTL

(* Whoever takes instanceMu and finds an instance finds a started one, with *)
(* its own cancel function, not cancelled: no handler panics on a nil       *)
(* cancel function, and no reader is handed a half-built or closed box.     *)
THEOREM InstanceAlwaysUsable == Spec => []InstanceUsable
<1>1. IInv => InstanceUsable
  BY DEF IInv, GlobalsOK, InstanceUsable
<1>2. QED BY <1>1, Invariance, PTL

(* A box that is up, or half started, is the instance, or in the hands of a *)
(* call that will publish or close it, or one that a rejected Start lost.   *)
THEOREM NoOtherBoxLeaks == Spec => []LiveBoxAccounted
<1>1. IInv => LiveBoxAccounted
  BY DEF IInv
<1>2. QED BY <1>1, Invariance, PTL

(* A probe never goes through a box that is still under construction. *)
THEOREM BorrowedBoxes == Spec => []BorrowedBoxWasStarted
<1>1. IInv => BorrowedBoxWasStarted
  BY DEF IInv
<1>2. QED BY <1>1, Invariance, PTL

(* No step of a Test changes the globals, or closes or cancels a box that   *)
(* is not its own, or takes an inbound port.                                *)
THEOREM ProbesAreHarmless == Spec => ProbeDisturbsNothing
<1> DEFINE Harmless ==
      \A c \in Calls : op[c] \in TestOps /\ (pc'[c] # pc[c]) =>
        /\ UNCHANGED globals
        /\ \A b \in Boxes : own[c] # b =>
             /\ box'[b] = box[b]
             /\ b \in cancelled' => b \in cancelled
        /\ own[c] # instance /\ own[c] \notin orphaned
        /\ \A b \in Boxes : port'[b] # port[b] => port'[b] = Nil
<1>1. IInv /\ [Next]_vars => [Harmless]_vars
  <2> SUFFICES ASSUME IInv, NEW d \in Calls,
                      Arrive(d) \/ Locking(d) \/ Running(d),
                      NEW c \in Calls, op[c] \in TestOps, pc'[c] # pc[c]
               PROVE  /\ UNCHANGED globals
                      /\ \A b \in Boxes : own[c] # b =>
                           /\ box'[b] = box[b]
                           /\ b \in cancelled' => b \in cancelled
                      /\ own[c] # instance /\ own[c] \notin orphaned
                      /\ \A b \in Boxes : port'[b] # port[b] => port'[b] = Nil
    BY DEF Next
  <2> USE DEF TestOps, ReadOps, LockOps, Ops, Owning, Goto, Return, Publish
  <2>1. c = d
    BY DEF Arrive, CallWithBox, Call, Locking, StartRejected, StartLock,
           StopNothing, StopCancel, ShutdownCancel, ReadInstance,
           ResolveProxyClient, Running, NewBox, NewBoxFails, RunBox,
           RunBoxFails, CloseInstance, ProbeDone, TestCancel, TestClose,
           IInv, TypeOK
  <2>2. own[c] # instance /\ own[c] \notin orphaned
    BY DEF IInv, OwnOK
  <2>3. ~Arrive(c)
    BY <2>1 DEF Arrive, CallWithBox, Call, IInv, HandlerOK
  <2>4. QED
    BY <2>1, <2>2, <2>3
    DEF Locking, StartRejected, StartLock, StopNothing, StopCancel,
        ShutdownCancel, ReadInstance, ResolveProxyClient, Running, NewBox,
        NewBoxFails, RunBox, RunBoxFails, CloseInstance, ProbeDone, TestCancel,
        TestClose, IInv, TypeOK, globals, boxes
<1>2. QED BY <1>1, Invariance, PTL DEF Spec, ProbeDisturbsNothing

-----------------------------------------------------------------------------
(* The handlers, interleaved, implement the sequential CoreService: every   *)
(* step is one of its steps or changes neither the active box nor the set   *)
(* of live boxes.                                                           *)
THEOREM CoreServiceImplemented == Spec => ImplementsCoreService
<1> USE DEF LiveBoxes, Abstract!vars, Publish, Goto, Return, globals, boxes
<1>1. Init => Abstract!Init
  BY DEF Init, Abstract!Init
<1>2. IInv /\ [Next]_vars => [Abstract!Next]_Abstract!vars
  <2> SUFFICES ASSUME IInv, [Next]_vars
               PROVE  Abstract!Next \/ UNCHANGED <<instance, LiveBoxes>>
    OBVIOUS
  <2>0. TypeOK /\ HandlerOK /\ OwnOK /\ StartFoundNone /\ GlobalsOK
    BY DEF IInv
  <2> USE NilAssumption, <2>0
      DEF TypeOK, HandlerOK, OwnOK, StartFoundNone, Owning, TestOps, ReadOps
  <2>1. ASSUME NEW c \in Calls, StartRejected(c) PROVE Abstract!Next
    BY <2>1 DEF StartRejected, Abstract!Next, Abstract!Forget
  <2>2. ASSUME NEW c \in Calls, RunBox(c) PROVE Abstract!Next
    <3>1. own[c] \in Boxes /\ own[c] \notin LiveBoxes /\ own[c] # instance
      BY <2>2 DEF RunBox
    <3>2. LiveBoxes' = LiveBoxes \cup {own[c]}
      BY <2>2, <3>1 DEF RunBox
    <3>3. CASE op[c] = "start"
      BY <2>2, <3>1, <3>2, <3>3 DEF RunBox, Abstract!Next, Abstract!Activate
    <3>4. CASE op[c] # "start"
      BY <2>2, <3>1, <3>2, <3>4 DEF RunBox, Abstract!Next, Abstract!Probe
    <3>5. QED BY <3>3, <3>4
  <2>3. ASSUME NEW c \in Calls, CloseInstance(c)
        PROVE  Abstract!Next \/ UNCHANGED <<instance, LiveBoxes>>
    <3>1. CASE instance = Nil
      BY <2>3, <3>1 DEF CloseInstance
    <3>2. CASE instance # Nil
      <4>1. LiveBoxes' = LiveBoxes \ {instance}
        BY <2>3, <3>2 DEF CloseInstance
      <4>2. QED
        BY <2>3, <3>2, <4>1 DEF CloseInstance, Abstract!Next, Abstract!Deactivate
    <3>3. QED BY <3>1, <3>2
  <2>4. ASSUME NEW c \in Calls, TestClose(c) PROVE Abstract!Next
    <3>1. own[c] \in LiveBoxes /\ own[c] # instance
      BY <2>4 DEF TestClose
    <3>2. LiveBoxes' = LiveBoxes \ {own[c]} /\ instance' = instance
      BY <2>4, <3>1 DEF TestClose
    <3>3. QED
      BY <3>1, <3>2 DEF Abstract!Next, Abstract!EndProbe
  <2>5. ASSUME NEW c \in Calls,
               \/ Arrive(c) \/ StartLock(c) \/ NewBox(c) \/ NewBoxFails(c)
               \/ RunBoxFails(c) \/ StopNothing(c) \/ StopCancel(c)
               \/ ShutdownCancel(c) \/ ReadInstance(c)
               \/ ResolveProxyClient(c) \/ ProbeDone(c) \/ TestCancel(c)
        PROVE  UNCHANGED <<instance, LiveBoxes>>
    BY <2>5 DEF Arrive, CallWithBox, Call, StartLock, NewBox, NewBoxFails,
                RunBoxFails, StopNothing, StopCancel, ShutdownCancel,
                ReadInstance, ResolveProxyClient, ProbeDone, TestCancel
  <2>6. CASE UNCHANGED vars
    BY <2>6 DEF vars
  <2>7. QED
    BY <2>1, <2>2, <2>3, <2>4, <2>5, <2>6 DEF Next, Locking, Running
<1>3. QED
  BY <1>1, <1>2, Invariance, PTL DEF Spec, ImplementsCoreService, Abstract!Spec

-----------------------------------------------------------------------------
(* The server around it.                                                   *)

MaybeServer == Servers \cup {Nil}

States == {"new", "bound", "serving", "draining", "held", "stopped"}

ServerTypeOK ==
  /\ op \in [Calls -> Ops]
  /\ mode \in {"desktop", "mobile"}
  /\ srv \in [Servers -> States]
  /\ conn \in [Calls -> MaybeServer]
  /\ fn \in MaybeServer /\ cleanup \in MaybeServer
  /\ requested \in BOOLEAN /\ mobileRunning \in BOOLEAN
  /\ job \in [Exiters -> [at : {"none", "sleep", "drain", "done"},
                          fn : MaybeServer, cleanup : MaybeServer]]
  /\ app \in [at : {"idle", "bind", "cleanup", "wait"},
              fn : MaybeServer, cleanup : MaybeServer]
  /\ invoked \in [Servers -> 0..2]

(* A handler belongs to a server that has not stopped. *)
ConnOK == \A c \in Calls : conn[c] # Nil =>
  c \in Rpcs /\ srv[conn[c]] \in {"serving", "draining"}

(* An Exit goroutine is in the hook only after its server has stopped. *)
HookOK == \A e \in Exiters :
  /\ op[e] \in {"none", "shutdown"}
  /\ op[e] = "shutdown" => job[e].at = "done"
  /\ job[e].at = "done" /\ job[e].fn # Nil => Stopped(job[e].fn)

(* On the desktop one server is ever there, and one Exit gets through. *)
Called(e) == job[e].at # "none"

DesktopOK == mode = "desktop" =>
  /\ \A s \in Servers : srv[s] \notin {"bound", "held"}
  /\ fn # Nil /\ cleanup = fn /\ app.at = "idle"
  /\ \A e \in Exiters :
       Called(e) => requested /\ job[e].fn = fn /\ job[e].cleanup = fn
  /\ \A e, f \in Exiters : Called(e) /\ Called(f) => e = f
  /\ \A s \in Servers : invoked[s] > 0 =>
       /\ invoked[s] = 1 /\ s = fn /\ srv[s] = "stopped"
       /\ \E e \in Exiters : job[e].at = "done"

(* On Android the server that takes calls, or will when its goroutine has  *)
(* called Serve, is the registered one, or the one                         *)
(* that StopServer is about to drain.                                      *)
MobileOK == mode = "mobile" =>
  /\ mobileRunning => app.at = "idle"
  /\ app.at = "bind" => cleanup # Nil /\ srv[cleanup] = "new"
  /\ \A s \in Servers : srv[s] \in {"bound", "serving"} =>
       \/ mobileRunning /\ fn = s
       \/ app.at = "cleanup" /\ app.fn = s

ServerInv ==
  /\ ServerTypeOK
  /\ ConnOK
  /\ HookOK
  /\ DesktopOK
  /\ MobileOK

-----------------------------------------------------------------------------
(* The goroutines of Exit, the App thread and the handlers are different.  *)
LEMMA Goroutines ==
  /\ Rpcs \subseteq Calls /\ Exiters \subseteq Calls /\ App \in Calls
  /\ App \notin Rpcs /\ App \notin Exiters /\ Rpcs \cap Exiters = {}
  /\ Nil \notin Servers
BY CallsAssumption

(* The start satisfies the invariant.                                      *)
LEMMA InitServerInv == ServerInit => ServerInv
<1> SUFFICES ASSUME ServerInit PROVE ServerInv
  OBVIOUS
<1> USE Goroutines DEF ServerInit, Init, NoJob, AppIdle, MaybeServer, Called,
                   States, Stopped
<1>1. ServerTypeOK
  <2>1. srv \in [Servers -> States]
    OBVIOUS
  <2>2. /\ op \in [Calls -> Ops] /\ conn \in [Calls -> MaybeServer]
        /\ invoked \in [Servers -> 0..2]
    BY DEF Ops
  <2>3. /\ mode \in {"desktop", "mobile"}
        /\ fn \in MaybeServer /\ cleanup \in MaybeServer
        /\ requested = FALSE /\ mobileRunning = FALSE
    OBVIOUS
  <2>4. /\ app \in [at : {"idle", "bind", "cleanup", "wait"},
                   fn : MaybeServer, cleanup : MaybeServer]
        /\ job \in [Exiters -> [at : {"none", "sleep", "drain", "done"},
                                fn : MaybeServer, cleanup : MaybeServer]]
    OBVIOUS
  <2> HIDE DEF ServerInit
  <2>5. QED BY <2>1, <2>2, <2>3, <2>4 DEF ServerTypeOK
<1>2. ConnOK /\ HookOK
  BY DEF ConnOK, HookOK
<1>3. DesktopOK
  BY DEF DesktopOK
<1>4. MobileOK
  BY DEF MobileOK
<1>5. QED BY <1>1, <1>2, <1>3, <1>4 DEF ServerInv

(* A handler keeps the name of its call until it returns.                  *)
LEMMA HandlerOps ==
  ASSUME op \in [Calls -> Ops], NEW c \in Calls, Locking(c) \/ Running(c)
  PROVE  op' = op \/ op' = [op EXCEPT ![c] = "none"]
<1>1. CASE Locking(c)
  BY <1>1 DEF Locking, StartRejected, StartLock, StopNothing, StopCancel,
              ShutdownCancel, ReadInstance, ResolveProxyClient, Return, Goto
<1>2. CASE Running(c)
  BY <1>2 DEF Running, NewBox, NewBoxFails, RunBox, RunBoxFails,
              CloseInstance, ProbeDone, TestCancel, TestClose, Return, Goto
<1>3. QED BY <1>1, <1>2

(* A call reaches a server that serves.                                    *)
LEMMA ArrivalKeepsServerInv ==
  ASSUME ServerInv, NEW c \in Rpcs, NEW s \in Servers, RpcArrives(c, s)
  PROVE  ServerInv'
<1> USE Goroutines
    DEF MaybeServer, States, Stopped, Called, NoJob, AppIdle, Ops, TestOps, ReadOps, LockOps,
        vars, shutdown, RpcArrives, CallWithBox, Call
<1>0. ServerTypeOK /\ ConnOK /\ HookOK /\ DesktopOK /\ MobileOK
  BY DEF ServerInv
<1>1. ServerTypeOK'
  BY <1>0 DEF ServerTypeOK
<1>2. ConnOK'
  BY <1>0 DEF ServerTypeOK, ConnOK
<1>3. HookOK'
  BY <1>0 DEF ServerTypeOK, HookOK
<1>4. DesktopOK'
  BY <1>0 DEF ServerTypeOK, DesktopOK
<1>5. MobileOK'
  BY <1>0 DEF ServerTypeOK, MobileOK
<1>6. QED BY <1>1, <1>2, <1>3, <1>4, <1>5 DEF ServerInv

(* A handler, or the hook, goes on or returns.                             *)
LEMMA HandlingKeepsServerInv ==
  ASSUME ServerInv, NEW c \in Calls, HandlerStep(c)
  PROVE  ServerInv'
<1> USE Goroutines
    DEF MaybeServer, States, Stopped, Called, NoJob, AppIdle, Ops, TestOps, ReadOps, LockOps,
        vars, shutdown, HandlerStep
<1>0. ServerTypeOK /\ ConnOK /\ HookOK /\ DesktopOK /\ MobileOK
  BY DEF ServerInv
<1>1. op' = op \/ op' = [op EXCEPT ![c] = "none"]
  BY <1>0, HandlerOps DEF ServerTypeOK
<1>2. ServerTypeOK'
  BY <1>0, <1>1 DEF ServerTypeOK
<1>3. ConnOK'
  BY <1>0, <1>1 DEF ServerTypeOK, ConnOK
<1>4. HookOK'
  BY <1>0, <1>1 DEF ServerTypeOK, HookOK
<1>5. DesktopOK'
  BY <1>0, <1>1 DEF ServerTypeOK, DesktopOK
<1>6. MobileOK'
  BY <1>0, <1>1 DEF ServerTypeOK, MobileOK
<1>7. QED BY <1>2, <1>3, <1>4, <1>5, <1>6 DEF ServerInv

(* The last handler has returned: GracefulStop does.                       *)
LEMMA DrainedKeepsServerInv ==
  ASSUME ServerInv, NEW s \in Servers, Drained(s)
  PROVE  ServerInv'
<1> USE Goroutines
    DEF MaybeServer, States, Stopped, Called, NoJob, AppIdle, Ops, TestOps, ReadOps, LockOps,
        vars, shutdown, Drained
<1>0. ServerTypeOK /\ ConnOK /\ HookOK /\ DesktopOK /\ MobileOK
  BY DEF ServerInv
<1>1. ServerTypeOK'
  BY <1>0 DEF ServerTypeOK
<1>2. ConnOK'
  BY <1>0 DEF ServerTypeOK, ConnOK
<1>3. HookOK'
  BY <1>0 DEF ServerTypeOK, HookOK
<1>4. DesktopOK'
  BY <1>0 DEF ServerTypeOK, DesktopOK
<1>5. MobileOK'
  BY <1>0 DEF ServerTypeOK, MobileOK
<1>6. QED BY <1>1, <1>2, <1>3, <1>4, <1>5 DEF ServerInv

(* The goroutine of RunCoreBound calls Serve.                              *)
LEMMA ServeKeepsServerInv ==
  ASSUME ServerInv, NEW s \in Servers, Serve(s)
  PROVE  ServerInv'
<1> USE Goroutines
    DEF MaybeServer, States, Stopped, Called, NoJob, AppIdle, Ops, TestOps,
        ReadOps, LockOps, vars, shutdown, Serve
<1>0. ServerTypeOK /\ ConnOK /\ HookOK /\ DesktopOK /\ MobileOK
  BY DEF ServerInv
<1>1. ServerTypeOK'
  BY <1>0 DEF ServerTypeOK
<1>2. ConnOK'
  BY <1>0 DEF ServerTypeOK, ConnOK
<1>3. HookOK'
  BY <1>0 DEF ServerTypeOK, HookOK
<1>4. DesktopOK'
  BY <1>0 DEF ServerTypeOK, DesktopOK
<1>5. MobileOK'
  BY <1>0 DEF ServerTypeOK, MobileOK
<1>6. QED BY <1>1, <1>2, <1>3, <1>4, <1>5 DEF ServerInv

(* main returns.                                                           *)
LEMMA MainReturnsKeepsServerInv ==
  ASSUME ServerInv, MainReturns
  PROVE  ServerInv'
<1> USE Goroutines
    DEF MaybeServer, States, Stopped, Called, NoJob, AppIdle, Ops, TestOps, ReadOps, LockOps,
        vars, shutdown, MainReturns
<1>0. ServerTypeOK /\ ConnOK /\ HookOK /\ DesktopOK /\ MobileOK
  BY DEF ServerInv
<1>1. ServerTypeOK'
  BY <1>0 DEF ServerTypeOK
<1>2. ConnOK'
  BY <1>0 DEF ServerTypeOK, ConnOK
<1>3. HookOK'
  BY <1>0 DEF ServerTypeOK, HookOK
<1>4. DesktopOK'
  BY <1>0 DEF ServerTypeOK, DesktopOK
<1>5. MobileOK'
  BY <1>0 DEF ServerTypeOK, MobileOK
<1>6. QED BY <1>1, <1>2, <1>3, <1>4, <1>5 DEF ServerInv

(* Exit is called.                                                         *)
LEMMA ExitKeepsServerInv ==
  ASSUME ServerInv, NEW e \in Exiters, Exit(e)
  PROVE  ServerInv'
<1> USE Goroutines
    DEF MaybeServer, States, Stopped, Called, NoJob, AppIdle, Ops, TestOps, ReadOps, LockOps,
        vars, shutdown, Exit
<1>0. ServerTypeOK /\ ConnOK /\ HookOK /\ DesktopOK /\ MobileOK
  BY DEF ServerInv
<1>1. ServerTypeOK'
  BY <1>0 DEF ServerTypeOK
<1>2. ConnOK'
  BY <1>0 DEF ServerTypeOK, ConnOK
<1>3. HookOK'
  BY <1>0 DEF ServerTypeOK, HookOK
<1>4. DesktopOK'
  BY <1>0 DEF ServerTypeOK, DesktopOK
<1>5. MobileOK'
  BY <1>0 DEF ServerTypeOK, MobileOK
<1>6. QED BY <1>1, <1>2, <1>3, <1>4, <1>5 DEF ServerInv

(* Its goroutine calls GracefulStop.                                       *)
LEMMA ExitDrainsKeepsServerInv ==
  ASSUME ServerInv, NEW e \in Exiters, ExitDrains(e)
  PROVE  ServerInv'
<1> USE Goroutines
    DEF MaybeServer, States, Stopped, Called, NoJob, AppIdle, Ops, TestOps, ReadOps, LockOps,
        vars, shutdown, ExitDrains, Drain
<1>0. ServerTypeOK /\ ConnOK /\ HookOK /\ DesktopOK /\ MobileOK
  BY DEF ServerInv
<1>1. ServerTypeOK'
  BY <1>0 DEF ServerTypeOK
<1>2. ConnOK'
  BY <1>0 DEF ServerTypeOK, ConnOK
<1>3. HookOK'
  BY <1>0 DEF ServerTypeOK, HookOK
<1>4. DesktopOK'
  BY <1>0 DEF ServerTypeOK, DesktopOK
<1>5. MobileOK'
  BY <1>0 DEF ServerTypeOK, MobileOK
<1>6. QED BY <1>1, <1>2, <1>3, <1>4, <1>5 DEF ServerInv

(* Its goroutine calls the hook.                                           *)
LEMMA ExitCleansUpKeepsServerInv ==
  ASSUME ServerInv, NEW e \in Exiters, ExitCleansUp(e)
  PROVE  ServerInv'
<1> USE Goroutines
    DEF MaybeServer, States, Stopped, Called, NoJob, AppIdle, Ops, TestOps, ReadOps, LockOps,
        vars, shutdown, ExitCleansUp, Call, Invoke
<1>0. ServerTypeOK /\ ConnOK /\ HookOK /\ DesktopOK /\ MobileOK
  BY DEF ServerInv
<1>1. Called(e)
  OBVIOUS
<1>2. ServerTypeOK'
  <2>1. op' \in [Calls -> Ops] /\ invoked' \in [Servers -> 0..2]
    <3>1. op \in [Calls -> Ops] /\ invoked \in [Servers -> 0..2]
      BY <1>0 DEF ServerTypeOK
    <3>2. CASE job[e].cleanup = Nil
      BY <3>1, <3>2
    <3>3. CASE job[e].cleanup # Nil
      BY <3>1, <3>3
    <3>4. QED BY <3>2, <3>3
  <2>2. /\ job' = [job EXCEPT ![e].at = "done"]
        /\ UNCHANGED <<mode, srv, conn, fn, cleanup, requested, mobileRunning,
                       app>>
    OBVIOUS
  <2>3. job' \in [Exiters -> [at : {"none", "sleep", "drain", "done"},
                             fn : MaybeServer, cleanup : MaybeServer]]
    BY <1>0, <2>2 DEF ServerTypeOK
  <2> HIDE DEF ExitCleansUp
  <2>4. QED BY <1>0, <2>1, <2>2, <2>3 DEF ServerTypeOK
<1>3. ConnOK'
  BY <1>0 DEF ServerTypeOK, ConnOK
<1>4. HookOK'
  BY <1>0 DEF ServerTypeOK, HookOK
<1>5. DesktopOK'
  <2> SUFFICES ASSUME mode = "desktop" PROVE DesktopOK'
    BY DEF DesktopOK
  <2>1. /\ job[e].fn = fn /\ job[e].cleanup = fn
        /\ fn \in Servers /\ cleanup = fn /\ app.at = "idle"
        /\ \A f \in Exiters : Called(f) => f = e
        /\ srv[fn] # "held"
    BY <1>0 DEF ServerTypeOK, DesktopOK
  <2>2. \A s \in Servers : invoked[s] = 0
    BY <1>0, <2>1 DEF ServerTypeOK, DesktopOK
  <2>3. srv[fn] = "stopped" /\ invoked' = [invoked EXCEPT ![fn] = 1]
    BY <2>1, <2>2
  <2>4. /\ UNCHANGED <<mode, srv, fn, cleanup, requested, app>>
        /\ job' = [job EXCEPT ![e].at = "done"]
    OBVIOUS
  <2> HIDE DEF ExitCleansUp
  <2>5. \A f \in Exiters :
          /\ Called(f)' => f = e
          /\ f # e => job'[f] = job[f]
    BY <1>0, <2>1, <2>4 DEF ServerTypeOK
  <2>6. job'[e].fn = fn /\ job'[e].cleanup = fn /\ job'[e].at = "done"
    BY <1>0, <2>1, <2>4 DEF ServerTypeOK
  <2>7. \A s \in Servers : invoked'[s] > 0 => s = fn /\ invoked'[s] = 1
    BY <1>0, <2>1, <2>2, <2>3 DEF ServerTypeOK
  <2>8. requested
    BY <1>0, <1>1 DEF DesktopOK
  <2> HIDE DEF Called
  <2>9. QED
    BY <1>0, <2>1, <2>3, <2>4, <2>5, <2>6, <2>7, <2>8 DEF DesktopOK
<1>6. MobileOK'
  BY <1>0 DEF ServerTypeOK, MobileOK
<1>7. QED BY <1>2, <1>3, <1>4, <1>5, <1>6 DEF ServerInv

(* NekoboxStart registers the hook.                                        *)
LEMMA MobileStartKeepsServerInv ==
  ASSUME ServerInv, NEW s \in Servers, MobileStart(s)
  PROVE  ServerInv'
<1> USE Goroutines
    DEF MaybeServer, States, Stopped, Called, NoJob, AppIdle, Ops, TestOps, ReadOps, LockOps,
        vars, shutdown, MobileStart
<1>0. ServerTypeOK /\ ConnOK /\ HookOK /\ DesktopOK /\ MobileOK
  BY DEF ServerInv
<1>1. ServerTypeOK'
  BY <1>0 DEF ServerTypeOK
<1>2. ConnOK'
  BY <1>0 DEF ServerTypeOK, ConnOK
<1>3. HookOK'
  BY <1>0 DEF ServerTypeOK, HookOK
<1>4. DesktopOK'
  BY <1>0 DEF ServerTypeOK, DesktopOK
<1>5. MobileOK'
  BY <1>0 DEF ServerTypeOK, MobileOK
<1>6. QED BY <1>1, <1>2, <1>3, <1>4, <1>5 DEF ServerInv

(* RunCoreBound listens.                                                   *)
LEMMA MobileBindKeepsServerInv ==
  ASSUME ServerInv, MobileBind
  PROVE  ServerInv'
<1> USE Goroutines
    DEF MaybeServer, States, Stopped, Called, NoJob, AppIdle, Ops, TestOps, ReadOps, LockOps,
        vars, shutdown, MobileBind
<1>0. ServerTypeOK /\ ConnOK /\ HookOK /\ DesktopOK /\ MobileOK
  BY DEF ServerInv
<1>1. ServerTypeOK'
  BY <1>0 DEF ServerTypeOK
<1>2. ConnOK'
  BY <1>0 DEF ServerTypeOK, ConnOK, DesktopOK, MobileOK
<1>3. HookOK'
  BY <1>0 DEF ServerTypeOK, HookOK, DesktopOK, MobileOK
<1>4. DesktopOK'
  BY <1>0 DEF ServerTypeOK, DesktopOK
<1>5. MobileOK'
  BY <1>0 DEF ServerTypeOK, MobileOK
<1>6. QED BY <1>1, <1>2, <1>3, <1>4, <1>5 DEF ServerInv

(* RunCoreBound cannot listen.                                             *)
LEMMA MobileBindFailsKeepsServerInv ==
  ASSUME ServerInv, MobileBindFails
  PROVE  ServerInv'
<1> USE Goroutines
    DEF MaybeServer, States, Stopped, Called, NoJob, AppIdle, Ops, TestOps, ReadOps, LockOps,
        vars, shutdown, MobileBindFails
<1>0. ServerTypeOK /\ ConnOK /\ HookOK /\ DesktopOK /\ MobileOK
  BY DEF ServerInv
<1>1. ServerTypeOK'
  BY <1>0 DEF ServerTypeOK
<1>2. ConnOK'
  BY <1>0 DEF ServerTypeOK, ConnOK
<1>3. HookOK'
  BY <1>0 DEF ServerTypeOK, HookOK
<1>4. DesktopOK'
  BY <1>0 DEF ServerTypeOK, DesktopOK
<1>5. MobileOK'
  BY <1>0 DEF ServerTypeOK, MobileOK
<1>6. QED BY <1>1, <1>2, <1>3, <1>4, <1>5 DEF ServerInv

(* NekoboxStop takes the hook and calls it.                                *)
LEMMA MobileStopKeepsServerInv ==
  ASSUME ServerInv, MobileStop
  PROVE  ServerInv'
<1> USE Goroutines
    DEF MaybeServer, States, Stopped, Called, NoJob, AppIdle, Ops, TestOps, ReadOps, LockOps,
        vars, shutdown, MobileStop, Call, Invoke
<1>0. ServerTypeOK /\ ConnOK /\ HookOK /\ DesktopOK /\ MobileOK
  BY DEF ServerInv
<1>1. ServerTypeOK'
  <2>1. op' \in [Calls -> Ops] /\ invoked' \in [Servers -> 0..2]
    <3>1. op \in [Calls -> Ops] /\ invoked \in [Servers -> 0..2]
      BY <1>0 DEF ServerTypeOK
    <3>2. CASE cleanup = Nil
      BY <3>1, <3>2
    <3>3. CASE cleanup # Nil
      BY <3>1, <3>3
    <3>4. QED BY <3>2, <3>3
  <2>2. /\ app' = [at |-> "cleanup", fn |-> fn, cleanup |-> cleanup]
        /\ fn' = Nil /\ cleanup' = Nil
        /\ requested' = FALSE /\ mobileRunning' = FALSE
        /\ UNCHANGED <<mode, srv, conn, job>>
    OBVIOUS
  <2>3. app' \in [at : {"idle", "bind", "cleanup", "wait"},
                 fn : MaybeServer, cleanup : MaybeServer]
    BY <1>0, <2>2 DEF ServerTypeOK
  <2> HIDE DEF MobileStop
  <2>4. QED BY <1>0, <2>1, <2>2, <2>3 DEF ServerTypeOK
<1>2. ConnOK'
  BY <1>0 DEF ServerTypeOK, ConnOK
<1>3. HookOK'
  BY <1>0 DEF ServerTypeOK, HookOK
<1>4. DesktopOK'
  BY <1>0 DEF ServerTypeOK, DesktopOK
<1>5. MobileOK'
  BY <1>0 DEF ServerTypeOK, MobileOK
<1>6. QED BY <1>1, <1>2, <1>3, <1>4, <1>5 DEF ServerInv

(* StopServer calls GracefulStop.                                          *)
LEMMA StopDrainsKeepsServerInv ==
  ASSUME ServerInv, StopDrains
  PROVE  ServerInv'
<1> USE Goroutines
    DEF MaybeServer, States, Stopped, Called, NoJob, AppIdle, Ops, TestOps, ReadOps, LockOps,
        vars, shutdown, StopDrains, Drain
<1>0. ServerTypeOK /\ ConnOK /\ HookOK /\ DesktopOK /\ MobileOK
  BY DEF ServerInv
<1>1. ServerTypeOK'
  BY <1>0 DEF ServerTypeOK
<1>2. ConnOK'
  BY <1>0 DEF ServerTypeOK, ConnOK
<1>3. HookOK'
  BY <1>0 DEF ServerTypeOK, HookOK
<1>4. DesktopOK'
  BY <1>0 DEF ServerTypeOK, DesktopOK
<1>5. MobileOK'
  BY <1>0 DEF ServerTypeOK, MobileOK
<1>6. QED BY <1>1, <1>2, <1>3, <1>4, <1>5 DEF ServerInv

(* StopServer returns.                                                     *)
LEMMA StopReturnsKeepsServerInv ==
  ASSUME ServerInv, StopReturns
  PROVE  ServerInv'
<1> USE Goroutines
    DEF MaybeServer, States, Stopped, Called, NoJob, AppIdle, Ops, TestOps, ReadOps, LockOps,
        vars, shutdown, StopReturns
<1>0. ServerTypeOK /\ ConnOK /\ HookOK /\ DesktopOK /\ MobileOK
  BY DEF ServerInv
<1>1. ServerTypeOK'
  BY <1>0 DEF ServerTypeOK
<1>2. ConnOK'
  BY <1>0 DEF ServerTypeOK, ConnOK
<1>3. HookOK'
  BY <1>0 DEF ServerTypeOK, HookOK
<1>4. DesktopOK'
  BY <1>0 DEF ServerTypeOK, DesktopOK
<1>5. MobileOK'
  BY <1>0 DEF ServerTypeOK, MobileOK
<1>6. QED BY <1>1, <1>2, <1>3, <1>4, <1>5 DEF ServerInv

(* No step breaks the invariant.                                           *)
LEMMA NextKeepsServerInv ==
  ASSUME ServerInv, [ServerNext]_allVars
  PROVE  ServerInv'
<1>1. CASE Step
  BY <1>1, ArrivalKeepsServerInv, HandlingKeepsServerInv,
     ServeKeepsServerInv, DrainedKeepsServerInv, MainReturnsKeepsServerInv,
     ExitKeepsServerInv,
     ExitDrainsKeepsServerInv, ExitCleansUpKeepsServerInv,
     MobileStartKeepsServerInv, MobileBindKeepsServerInv,
     MobileBindFailsKeepsServerInv, MobileStopKeepsServerInv,
     StopDrainsKeepsServerInv, StopReturnsKeepsServerInv DEF Step
<1>2. CASE UNCHANGED allVars
  BY <1>2 DEF allVars, vars, serverVars, ServerInv, ServerTypeOK, ConnOK,
              HookOK, DesktopOK, MobileOK, Called, Stopped
<1>3. QED BY <1>1, <1>2 DEF ServerNext, Exited

(* Every reachable state of the server satisfies the invariant.            *)
THEOREM ServerInvariance == ServerSpec => []ServerInv
<1>1. ServerInit => ServerInv
  BY InitServerInv
<1>2. ServerInv /\ [ServerNext]_allVars => ServerInv'
  BY NextKeepsServerInv
<1>3. QED BY <1>1, <1>2, PTL DEF ServerSpec

(* Exit and StopServer: the desktop's hook runs at most once and after     *)
(* GracefulStop, and Exit's goroutine runs it when no handler of its       *)
(* server is left.                                                         *)
THEOREM HookInOrder == ServerSpec => []ShutdownHookInOrder
<1>1. ServerInv => ExitHookAfterHandlers
  <2> SUFFICES ASSUME ServerInv, NEW e \in Exiters, op[e] = "shutdown",
                      job[e].fn # Nil, NEW c \in Rpcs
               PROVE  conn[c] # job[e].fn
    BY DEF ExitHookAfterHandlers
  <2>1. Stopped(job[e].fn)
    BY DEF ServerInv, HookOK
  <2>2. QED BY <2>1, Goroutines DEF ServerInv, ConnOK, Stopped
<1>2. ServerInv => DesktopHookOnceAfterStop
  BY DEF ServerInv, ServerTypeOK, DesktopOK, DesktopHookOnceAfterStop
<1>3. QED
  BY <1>1, <1>2, ServerInvariance, PTL DEF ShutdownHookInOrder

(* NekoboxStop and NekoboxStart: between the two no server takes calls,    *)
(* and one whose goroutine has yet to call Serve was stopped before it.    *)
THEOREM NothingServes == ServerSpec => []NothingServesAtRest
<1>1. ServerInv => NothingServesAtRest
  BY DEF ServerInv, MobileOK, NothingServesAtRest, AtRest
<1>2. QED BY <1>1, ServerInvariance, PTL

-----------------------------------------------------------------------------
(* The servers around it only call the instance's handlers, and the hook:  *)
(* the composition implements CoreInstance.                                *)
THEOREM InstanceWithinServer == ServerSpec => Spec
<1>1. ServerInit => Init
  BY DEF ServerInit
<1>2. [ServerNext]_allVars => [Next]_vars
  <2> SUFFICES ASSUME Step PROVE Next \/ UNCHANGED vars
    BY DEF ServerNext, Exited, allVars
  <2>1. ASSUME NEW c \in Rpcs, NEW s \in Servers, RpcArrives(c, s) PROVE Next
    BY <2>1, Goroutines DEF RpcArrives, Next, Arrive
  <2>2. ASSUME NEW c \in Calls, HandlerStep(c) PROVE Next
    BY <2>2 DEF HandlerStep, Next
  <2>3. ASSUME NEW s \in Servers, Serve(s) \/ Drained(s) \/ MobileStart(s)
        PROVE  UNCHANGED vars
    BY <2>3 DEF Serve, Drained, MobileStart
  <2>4. ASSUME NEW e \in Exiters, Exit(e) \/ ExitDrains(e)
        PROVE  UNCHANGED vars
    BY <2>4 DEF Exit, ExitDrains
  <2>5. ASSUME NEW e \in Exiters, ExitCleansUp(e)
        PROVE  Next \/ UNCHANGED vars
    BY <2>5, Goroutines DEF ExitCleansUp, Next, Arrive
  <2>6. CASE MobileStop
    BY <2>6, Goroutines DEF MobileStop, Next, Arrive
  <2>7. CASE \/ MobileBind \/ MobileBindFails \/ StopDrains \/ StopReturns
             \/ MainReturns
    BY <2>7 DEF MobileBind, MobileBindFails, StopDrains, StopReturns,
                MainReturns
  <2>8. QED
    BY <2>1, <2>2, <2>3, <2>4, <2>5, <2>6, <2>7 DEF Step
<1>3. QED BY <1>1, <1>2, PTL DEF ServerSpec, Spec

(* So whatever Exit, StopServer and the handlers of several servers do to  *)
(* it, the instance is usable when instanceMu is free, and only a rejected *)
(* Start leaks a box.                                                      *)
THEOREM InstanceUsableInServer ==
  ServerSpec => [](InstanceUsable /\ LiveBoxAccounted)
BY InstanceWithinServer, InstanceAlwaysUsable, NoOtherBoxLeaks, PTL
=============================================================================
