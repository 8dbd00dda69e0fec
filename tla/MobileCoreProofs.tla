-------------------------- MODULE MobileCoreProofs --------------------------
(***************************************************************************)
(* Proofs about MobileCore: the endpoint callers are given is the core's,  *)
(* and a stop that no start crosses leaves no VPN behind, for any number   *)
(* of calls, start attempts, timeouts and activities.                      *)
(*                                                                         *)
(* EndpointMatchesServer is not inductive: an attempt that ends must be    *)
(* known to be the only one somebody waits for (WaitersShare), to have no  *)
(* endpoint before it (OneAtATime), and the server it meets, if not its    *)
(* own, to be of an attempt nobody heard of (ServerKnown).                 *)
(***************************************************************************)
EXTENDS MobileCore, TLAPS

Known == Tokens \cup {Nil}
Labels == {"idle", "health", "connect", "await", "channel", "prepare", "start",
           "established", "undo", "answer"}

TypeOK ==
  /\ endpoint \in Known /\ starting \in Known /\ server \in Known
  /\ attempt \in [Tokens -> {"none", "paths", "taken", "lost"}]
  /\ pc \in [Calls -> Labels] /\ mine \in [Calls -> Known]

WaitersShare ==
  \A c \in Calls : pc[c] = "await" => starting # Nil /\ mine[c] = starting

OneAtATime == starting # Nil => endpoint = Nil

ServerKnown ==
  /\ server # Nil => \/ attempt[server] = "lost"
                     \/ attempt[server] = "taken" /\ endpoint = server
  /\ endpoint # Nil => server # Nil

IInv == TypeOK /\ WaitersShare /\ OneAtATime /\ ServerKnown

-----------------------------------------------------------------------------
(* The start satisfies the invariant. *)
LEMMA InitIInv == Init => IInv
BY MobileAssumption
DEF Init, IInv, TypeOK, Known, Labels, WaitersShare, OneAtATime, ServerKnown

(* A step that neither starts nor ends an attempt: some calls move on, but *)
(* none begins to wait for one. *)
Passing ==
  /\ UNCHANGED <<endpoint, starting, attempt, server, mine>>
  /\ pc' \in [Calls -> Labels]
  /\ \A c \in Calls : pc'[c] = "await" => pc[c] = "await"

(* Such a step keeps the invariant. *)
LEMMA PassingSteps == ASSUME IInv, Passing PROVE IInv'
BY DEF IInv, Passing, TypeOK, WaitersShare, OneAtATime, ServerKnown

(* A call that goes on to a step other than the wait. *)
LEMMA MovesOn ==
  ASSUME IInv, NEW c, NEW label \in Labels, label # "await", Goto(c, label),
         UNCHANGED <<endpoint, starting, attempt, server, mine>>
  PROVE  IInv'
<1>1. Passing
  BY DEF Passing, Goto, IInv, TypeOK
<1>2. QED BY <1>1, PassingSteps

(* ensureStarted joins the attempt in flight, or begins the only one. *)
LEMMA EnsureStartedKeepsIInv ==
  ASSUME IInv, NEW c \in Calls, EnsureStarted(c) PROVE IInv'
<1> USE MobileAssumption DEF Goto, InFlight, Known, Labels
<1>1. CASE endpoint # Nil
  BY <1>1 DEF EnsureStarted, IInv, TypeOK, WaitersShare, OneAtATime, ServerKnown
<1>2. CASE endpoint = Nil /\ starting # Nil
  BY <1>2 DEF EnsureStarted, IInv, TypeOK, WaitersShare, OneAtATime, ServerKnown
<1>3. CASE endpoint = Nil /\ starting = Nil
  <2>1. PICK k \in Tokens : /\ attempt[k] = "none"
                            /\ attempt' = [attempt EXCEPT ![k] = "paths"]
                            /\ starting' = k
                            /\ mine' = [mine EXCEPT ![c] = k]
                            /\ pc' = [pc EXCEPT ![c] = "await"]
    BY <1>3 DEF EnsureStarted, New
  <2>2. UNCHANGED <<endpoint, server>>
    BY DEF EnsureStarted
  <2>3. QED
    BY <1>3, <2>1, <2>2
    DEF IInv, TypeOK, WaitersShare, OneAtATime, ServerKnown
<1>4. QED BY <1>1, <1>2, <1>3

(* The core starts, or runs already: by an attempt nobody heard of. *)
LEMMA NekoboxStartKeepsIInv ==
  ASSUME IInv, NEW k \in Tokens, NekoboxStart(k) PROVE IInv'
<1> USE MobileAssumption DEF Known, Labels
<1>1. /\ attempt[k] = "paths"
      /\ server' = IF server = Nil THEN k ELSE server
      /\ UNCHANGED mine
      /\ pc' = [c \in Calls |-> IF c \in Awaiting(k) THEN "channel" ELSE pc[c]]
      /\ Awaiting(k) \subseteq Calls
  BY DEF NekoboxStart, Awaiting
<1>2. CASE Awaiting(k) = {}
  <2>1. /\ attempt' = [attempt EXCEPT ![k] = "lost"]
        /\ UNCHANGED <<endpoint, starting>>
    BY <1>2 DEF NekoboxStart
  <2>2. QED
    BY <1>1, <1>2, <2>1
    DEF IInv, TypeOK, WaitersShare, OneAtATime, ServerKnown
<1>3. CASE Awaiting(k) # {}
  <2>1. /\ attempt' = [attempt EXCEPT ![k] = "taken"]
        /\ endpoint' = k /\ starting' = Nil
    BY <1>3 DEF NekoboxStart
  <2>2. starting = k /\ endpoint = Nil
    BY <1>3 DEF Awaiting, IInv, WaitersShare, OneAtATime
  <2>3. \A c \in Calls : pc'[c] # "await"
    BY <1>1, <2>2 DEF Awaiting, IInv, WaitersShare
  <2>4. QED
    BY <1>1, <2>1, <2>2, <2>3
    DEF IInv, TypeOK, WaitersShare, OneAtATime, ServerKnown
<1>4. QED BY <1>2, <1>3

(* The callers give an attempt up, which fails or goes on without them. *)
LEMMA AbandonKeepsIInv ==
  ASSUME IInv, NEW k \in Tokens, attempt[k] = "paths", Abandon(k),
         attempt' \in {attempt, [attempt EXCEPT ![k] = "lost"]},
         UNCHANGED <<endpoint, server, mine>>
  PROVE  IInv'
<1> USE MobileAssumption DEF Known, Labels
<1>1. \A c \in Calls : Fails(c) \in Labels /\ Fails(c) # "await"
  BY DEF Fails
<1>2. /\ pc' \in [Calls -> Labels]
      /\ \A c \in Calls : pc'[c] = "await" => pc[c] = "await" /\ c \notin Awaiting(k)
  BY <1>1 DEF Abandon, IInv, TypeOK
<1>3. WaitersShare'
  BY <1>2 DEF Abandon, Awaiting, IInv, WaitersShare
<1>4. TypeOK' /\ OneAtATime' /\ ServerKnown'
  BY <1>2 DEF Abandon, IInv, TypeOK, OneAtATime, ServerKnown
<1>5. QED BY <1>3, <1>4 DEF IInv

(* The main thread and the service know nothing of attempts. *)
LEMMA MainThreadKeepsIInv == ASSUME IInv, MainThread PROVE IInv'
<1> USE DEF dart, flow, Labels
<1>1. CASE Prepare
  BY <1>1, MovesOn, PassingSteps DEF Prepare, Passing, IInv, TypeOK
<1>2. CASE WaitEnds
  BY <1>2, MovesOn DEF WaitEnds
<1>3. CASE HandleStop
  BY <1>3, MovesOn DEF HandleStop
<1>4. CASE \/ HandleStart \/ OnCreate \/ Establish \/ EstablishFails
              \/ StopCommand \/ Drop
  <2>1. UNCHANGED <<dart, server, flow>>
    BY <1>4
    DEF HandleStart, OnCreate, Establish, EstablishFails, StopCommand, Drop
  <2>2. QED BY <2>1, PassingSteps DEF Passing, IInv, TypeOK
<1>5. QED BY <1>1, <1>2, <1>3, <1>4 DEF MainThread

(* Every step keeps the invariant. *)
LEMMA NextKeepsIInv == ASSUME IInv, [Next]_vars PROVE IInv'
<1> USE DEF dart, flow, Labels
<1>1. ASSUME NEW c \in Calls, Call(c) PROVE IInv'
  <2>1. CASE CheckHealth(c)
    BY <2>1, MovesOn DEF CheckHealth, Proceeds
  <2>2. CASE EnsureStarted(c)
    BY <2>2, EnsureStartedKeepsIInv
  <2>3. CASE Connect(c)
    BY <2>3, MovesOn DEF Connect, Proceeds, Fails
  <2>4. CASE Invoke(c)
    BY <2>4, MovesOn DEF Invoke
  <2>5. QED BY <1>1, <2>1, <2>2, <2>3, <2>4 DEF Call
<1>2. ASSUME NEW c \in Calls, NEW what \in {"connect", "start", "stop"},
             Begin(c, what)
      PROVE  IInv'
  BY <1>2, MovesOn DEF Begin
<1>3. ASSUME NEW k \in Tokens, Attempt(k) \/ StartTimesOut(k) PROVE IInv'
  <2>1. CASE NekoboxStart(k)
    BY <2>1, NekoboxStartKeepsIInv
  <2>2. CASE NekoboxStartFails(k)
    BY <2>2, AbandonKeepsIInv DEF NekoboxStartFails
  <2>3. CASE StartTimesOut(k)
    BY <2>3, AbandonKeepsIInv DEF StartTimesOut
  <2>4. QED BY <1>3, <2>1, <2>2, <2>3 DEF Attempt
<1>4. CASE Consent
  BY <1>4, MovesOn DEF Consent
<1>5. CASE Deliver \/ Revoke \/ UNCHANGED vars
  <2>1. UNCHANGED <<dart, server, flow>>
    BY <1>5 DEF Deliver, Revoke, vars
  <2>2. QED BY <2>1, PassingSteps DEF Passing, IInv, TypeOK
<1>6. CASE NewActivity
  BY <1>6, MobileAssumption
  DEF NewActivity, IInv, TypeOK, Known, WaitersShare, OneAtATime, ServerKnown
<1>7. QED BY <1>1, <1>2, <1>3, <1>4, <1>5, <1>6, MainThreadKeepsIInv DEF Next

(* The invariant holds of every reachable state. *)
THEOREM Invariance == Spec => []IInv
BY InitIInv, NextKeepsIInv, PTL DEF Spec

(* However callers share, time out and repeat attempts to start the core,  *)
(* and however often Android restarts the Dart program around it, the      *)
(* endpoint they are given is the running server's, unless that server was *)
(* started by an attempt nobody heard of. *)
THEOREM EndpointIsServers == Spec => []EndpointMatchesServer
<1>1. IInv => EndpointMatchesServer
  BY DEF IInv, ServerKnown, EndpointMatchesServer
<1>2. QED BY <1>1, Invariance, PTL

-----------------------------------------------------------------------------
(* The VPN.  A start or stop is under way until its own stop is handled,   *)
(* and then what is running, posted or intended ends with a stop (Ending); *)
(* this needs that a call has one message, wait or dialog (Answered), and  *)
(* that a service the system no longer counts has its end posted (Unbound).*)

Connects == {"health", "connect", "await", "channel"}
Asked == {"prepare", "start", "undo"}
Messages ==
  [what : Asked, who : Calls]
    \cup [what : {"create", "START", "STOP", "destroy", "gone"}, who : {Nil}]

VpnTypeOK ==
  /\ pc \in [Calls -> Labels]
  /\ op \in [Calls -> {"none", "connect", "start", "stop"}]
  /\ queue \in Seq(Messages) /\ intents \in Seq({"START", "STOP"})
  /\ main \in Calls \cup {Nil} /\ pending \in Calls \cup {Nil}
  /\ bound \in BOOLEAN /\ active \in BOOLEAN /\ running \in BOOLEAN
  /\ crossed \in BOOLEAN

(* What a call does is known from where it is. *)
OpOK ==
  \A c \in Calls :
    /\ pc[c] \in Connects => op[c] \in {"connect", "start"}
    /\ pc[c] \in Labels \ (Connects \cup {"idle"}) => op[c] \in {"start", "stop"}

(* The calls' messages in q: each of another call, which waits for it.     *)
Own(q) ==
  \A i \in DOMAIN q :
    q[i].who # Nil =>
      /\ pc[q[i].who] = "answer" /\ q[i].who \notin {main, pending}
      /\ \A j \in DOMAIN q : q[j].who = q[i].who => i = j

Answered ==
  /\ Own(queue)
  /\ main # Nil => pc[main] = "answer" /\ main # pending
  /\ pending # Nil => pc[pending] = "answer"

Stops(m) == m.what \in {"STOP", "destroy"}
NoStart(q) == \A i \in DOMAIN q : q[i].what # "START"
StopLast(q) ==
  \E j \in DOMAIN q :
    Stops(q[j]) /\ \A i \in DOMAIN q : i > j => q[i].what # "START"

NoneIntended(s) == \A i \in DOMAIN s : s[i] # "START"
StopIntended(s) ==
  \E j \in DOMAIN s : s[j] = "STOP" /\ \A i \in DOMAIN s : i > j => s[i] # "START"

Unbound == ~bound => NoStart(queue) \/ StopLast(queue)

Ending ==
  \/ StopIntended(intents)
  \/ NoneIntended(intents) /\ StopLast(queue)
  \/ NoneIntended(intents) /\ NoStart(queue) /\ ~running

UnderWay == \E c \in Calls : op[c] \in {"start", "stop"} /\ pc[c] # "idle"
Ends == latest = "stop" /\ ~crossed => UnderWay \/ Ending

VInv == VpnTypeOK /\ OpOK /\ Answered /\ Unbound /\ Ends

(* The rest of a sequence of messages, once the first is taken from it.    *)
LEMMA TailEnds ==
  ASSUME NEW q \in Seq(Messages), q # <<>>
  PROVE  /\ Tail(q) \in Seq(Messages) /\ Head(q) \in Messages
         /\ NoStart(q) => NoStart(Tail(q))
         /\ StopLast(q) => \/ StopLast(Tail(q))
                           \/ NoStart(Tail(q)) /\ Stops(Head(q))
<1> DEFINE t == Tail(q)
<1>1. /\ t \in Seq(Messages) /\ Head(q) \in Messages /\ Head(q) = q[1]
      /\ Len(t) = Len(q) - 1 /\ Len(q) \in Nat /\ Len(q) >= 1
      /\ \A i \in DOMAIN t : i \in Nat /\ i + 1 \in DOMAIN q /\ t[i] = q[i + 1]
      /\ \A i \in DOMAIN q : i \in Nat /\ i >= 1 /\ (i > 1 => i - 1 \in DOMAIN t)
  OBVIOUS
<1>2. NoStart(q) => NoStart(t)
  BY <1>1 DEF NoStart
<1>3. ASSUME StopLast(q) PROVE StopLast(t) \/ (NoStart(t) /\ Stops(Head(q)))
  <2>1. PICK j \in DOMAIN q :
          Stops(q[j]) /\ \A i \in DOMAIN q : i > j => q[i].what # "START"
    BY <1>3 DEF StopLast
  <2>2. CASE j = 1
    BY <1>1, <2>1, <2>2 DEF NoStart
  <2>3. CASE j # 1
    <3>1. j - 1 \in DOMAIN t /\ t[j - 1] = q[j]
      BY <1>1, <2>3
    <3>2. \A i \in DOMAIN t : i > j - 1 => t[i].what # "START"
      BY <1>1, <2>1, <2>3
    <3>3. QED BY <2>1, <3>1, <3>2 DEF StopLast
  <2>4. QED BY <2>2, <2>3
<1>4. QED BY <1>1, <1>2, <1>3

(* A message is posted: a stop comes after every START. *)
LEMMA AppendEnds ==
  ASSUME NEW q \in Seq(Messages), NEW m \in Messages
  PROVE  /\ Append(q, m) \in Seq(Messages)
         /\ m.what # "START" => /\ NoStart(q) => NoStart(Append(q, m))
                                /\ StopLast(q) => StopLast(Append(q, m))
         /\ Stops(m) => StopLast(Append(q, m))
<1> DEFINE a == Append(q, m)
<1>1. /\ a \in Seq(Messages) /\ Len(a) = Len(q) + 1 /\ Len(q) \in Nat
      /\ a[Len(a)] = m /\ Len(a) \in DOMAIN a
      /\ \A i \in DOMAIN q : i \in DOMAIN a /\ i \in Nat /\ a[i] = q[i] /\ i < Len(a)
      /\ \A i \in DOMAIN a : i \in Nat /\ i <= Len(a) /\ (i # Len(a) => i \in DOMAIN q)
  OBVIOUS
<1>2. ASSUME m.what # "START", NoStart(q) PROVE NoStart(a)
  BY <1>1, <1>2 DEF NoStart
<1>3. ASSUME m.what # "START", StopLast(q) PROVE StopLast(a)
  <2>1. PICK j \in DOMAIN q :
          Stops(q[j]) /\ \A i \in DOMAIN q : i > j => q[i].what # "START"
    BY <1>3 DEF StopLast
  <2>2. j \in DOMAIN a /\ a[j] = q[j]
    BY <1>1
  <2>3. \A i \in DOMAIN a : i > j => a[i].what # "START"
    BY <1>1, <1>3, <2>1
  <2>4. QED BY <2>1, <2>2, <2>3 DEF StopLast
<1>4. ASSUME Stops(m) PROVE StopLast(a)
  BY <1>1, <1>4 DEF StopLast
<1>5. QED BY <1>1, <1>2, <1>3, <1>4

(* The same of the intents the system has yet to deliver. *)
LEMMA IntentEnds ==
  ASSUME NEW s \in Seq({"START", "STOP"})
  PROVE  /\ StopIntended(Append(s, "STOP"))
         /\ s # <<>> /\ NoneIntended(s) =>
              NoneIntended(Tail(s)) /\ Head(s) = "STOP"
         /\ s # <<>> /\ StopIntended(s) =>
              StopIntended(Tail(s)) \/ (NoneIntended(Tail(s)) /\ Head(s) = "STOP")
<1>1. StopIntended(Append(s, "STOP"))
  <2>1. /\ Len(s) + 1 \in DOMAIN Append(s, "STOP")
        /\ Append(s, "STOP")[Len(s) + 1] = "STOP"
        /\ \A i \in DOMAIN Append(s, "STOP") : ~(i > Len(s) + 1)
    OBVIOUS
  <2>2. QED BY <2>1 DEF StopIntended
<1>2. ASSUME s # <<>>
      PROVE  /\ Head(s) = s[1] /\ s[1] \in {"START", "STOP"} /\ 1 \in DOMAIN s
             /\ \A i \in DOMAIN Tail(s) :
                  i \in Nat /\ i + 1 \in DOMAIN s /\ Tail(s)[i] = s[i + 1]
             /\ \A i \in DOMAIN s :
                  i \in Nat /\ i >= 1 /\ (i > 1 => i - 1 \in DOMAIN Tail(s))
  BY <1>2
<1>3. ASSUME s # <<>>, NoneIntended(s)
      PROVE  NoneIntended(Tail(s)) /\ Head(s) = "STOP"
  BY <1>2, <1>3 DEF NoneIntended
<1>4. ASSUME s # <<>>, StopIntended(s)
      PROVE  StopIntended(Tail(s)) \/ (NoneIntended(Tail(s)) /\ Head(s) = "STOP")
  <2>1. PICK j \in DOMAIN s :
          s[j] = "STOP" /\ \A i \in DOMAIN s : i > j => s[i] # "START"
    BY <1>4 DEF StopIntended
  <2>2. CASE j = 1
    BY <1>2, <1>4, <2>1, <2>2 DEF NoneIntended
  <2>3. CASE j # 1
    <3>1. j - 1 \in DOMAIN Tail(s) /\ Tail(s)[j - 1] = s[j]
      BY <1>2, <1>4, <2>3
    <3>2. \A i \in DOMAIN Tail(s) : i > j - 1 => Tail(s)[i] # "START"
      BY <1>2, <1>4, <2>1, <2>3
    <3>3. QED BY <2>1, <3>1, <3>2 DEF StopIntended
  <2>4. QED BY <2>2, <2>3
<1>5. QED BY <1>1, <1>3, <1>4

(* No other message is of the call whose message is handled. *)
LEMMA TailOwn ==
  ASSUME NEW q \in Seq(Messages), q # <<>>, Own(q)
  PROVE  /\ Own(Tail(q))
         /\ Head(q).who # Nil =>
              /\ pc[Head(q).who] = "answer" /\ Head(q).who \notin {main, pending}
              /\ \A i \in DOMAIN Tail(q) : Tail(q)[i].who # Head(q).who
<1>1. /\ Head(q) = q[1] /\ 1 \in DOMAIN q
      /\ \A i \in DOMAIN Tail(q) :
           i \in Nat /\ i >= 1 /\ i + 1 \in DOMAIN q /\ Tail(q)[i] = q[i + 1]
  OBVIOUS
<1>2. Own(Tail(q))
  <2> SUFFICES ASSUME NEW i \in DOMAIN Tail(q), Tail(q)[i].who # Nil
               PROVE  /\ pc[Tail(q)[i].who] = "answer"
                      /\ Tail(q)[i].who \notin {main, pending}
                      /\ \A j \in DOMAIN Tail(q) :
                           Tail(q)[j].who = Tail(q)[i].who => i = j
    BY DEF Own
  <2>1. \A j \in DOMAIN Tail(q) : Tail(q)[j].who = Tail(q)[i].who => i + 1 = j + 1
    BY <1>1 DEF Own
  <2>2. QED BY <1>1, <2>1 DEF Own
<1>3. ASSUME Head(q).who # Nil
      PROVE  \A i \in DOMAIN Tail(q) : Tail(q)[i].who # Head(q).who
  <2>1. \A i \in DOMAIN Tail(q) : q[i + 1].who = q[1].who => i + 1 = 1
    BY <1>1, <1>3 DEF Own
  <2>2. QED BY <1>1, <2>1
<1>4. QED BY <1>1, <1>2, <1>3 DEF Own

(* The system and the service post messages that are of no call. *)
LEMMA AppendOwn ==
  ASSUME NEW q \in Seq(Messages), NEW m \in Messages, m.who = Nil, Own(q)
  PROVE  Own(Append(q, m))
<1>1. /\ Append(q, m)[Len(q) + 1] = m
      /\ \A i \in DOMAIN Append(q, m) :
           i = Len(q) + 1 \/ (i \in DOMAIN q /\ Append(q, m)[i] = q[i])
  OBVIOUS
<1>2. QED BY <1>1 DEF Own

(* The start satisfies the invariant. *)
LEMMA InitVInv == ASSUME Init PROVE VInv
<1>1. VpnTypeOK
  <2>1. queue = <<>> /\ intents = <<>> /\ main = Nil /\ pending = Nil
    BY DEF Init
  <2>2. queue \in Seq(Messages) /\ intents \in Seq({"START", "STOP"})
    BY <2>1
  <2>3. /\ pc \in [Calls -> Labels]
        /\ op \in [Calls -> {"none", "connect", "start", "stop"}]
    BY DEF Init, Labels
  <2>4. QED
    BY <2>1, <2>2, <2>3 DEF Init, VpnTypeOK
<1>2. OpOK
  BY DEF Init, OpOK, Connects
<1>3. Answered /\ Unbound
  BY DEF Init, Answered, Own, Unbound, NoStart
<1>4. Ends
  BY DEF Init, Ends
<1>5. QED BY <1>1, <1>2, <1>3, <1>4 DEF VInv

(* The steps of ensureConnected: a call that connects goes on, and a start *)
(* that fails goes on to its stop. *)
Next2(c) == IF op[c] = "start" THEN {"prepare", "undo"} ELSE {"idle"}
Moves ==
  /\ UNCHANGED <<op, queue, main, intents, service, pending, latest, crossed>>
  /\ pc' \in [Calls -> Labels]
  /\ \A c \in Calls :
       pc'[c] = pc[c] \/ (pc[c] \in Connects /\ pc'[c] \in Connects \cup Next2(c))

(* They leave the VPN alone. *)
LEMMA MovesKeepVInv == ASSUME VInv, Moves PROVE VInv'
<1>1. VpnTypeOK' /\ OpOK'
  BY DEF VInv, Moves, VpnTypeOK, OpOK, Next2, Connects, Labels, service
<1>2. Answered'
  <2>1. \A c \in Calls : pc[c] = "answer" => pc'[c] = "answer"
    BY DEF Moves, Connects
  <2>2. /\ queue \in Seq(Messages)
        /\ \A i \in DOMAIN queue : queue[i].who \in Calls \cup {Nil}
        /\ main \in Calls \cup {Nil} /\ pending \in Calls \cup {Nil}
    BY DEF VInv, VpnTypeOK, Messages
  <2>3. QED
    BY <2>1, <2>2 DEF VInv, Moves, Answered, Own
<1>3. Unbound'
  BY DEF VInv, Moves, Unbound, service
<1>4. Ends'
  <2>1. ASSUME UnderWay PROVE UnderWay'
    <3>1. PICK c \in Calls : op[c] \in {"start", "stop"} /\ pc[c] # "idle"
      BY <2>1 DEF UnderWay
    <3>2. op[c] = "start" \/ pc[c] \notin Connects
      BY <3>1 DEF VInv, OpOK
    <3>3. op'[c] = op[c] /\ pc'[c] # "idle"
      BY <3>1, <3>2 DEF Moves, Next2, Connects
    <3>4. QED BY <3>1, <3>3 DEF UnderWay
  <2>2. ASSUME Ending PROVE Ending'
    BY <2>2 DEF Moves, Ending, service
  <2>3. QED BY <2>1, <2>2 DEF VInv, Ends, Moves
<1>5. QED BY <1>1, <1>2, <1>3, <1>4 DEF VInv

(* A new call: a stop is under way at once. *)
LEMMA BeginKeepsVInv ==
  ASSUME VInv, NEW c \in Calls, NEW what \in {"connect", "start", "stop"},
         Begin(c, what)
  PROVE  VInv'
<1>1. /\ pc[c] = "idle" /\ op' = [op EXCEPT ![c] = what] /\ latest' = what
      /\ pc' = [pc EXCEPT ![c] = IF what = "stop" THEN "undo" ELSE "health"]
      /\ UNCHANGED <<queue, main, intents, service, pending, crossed>>
  BY DEF Begin, Goto
<1>2. VpnTypeOK' /\ OpOK'
  BY <1>1 DEF VInv, VpnTypeOK, OpOK, Connects, Labels, service
<1>3. Answered'
  <2>1. \A d \in Calls : pc[d] = "answer" => pc'[d] = "answer"
    BY <1>1 DEF VInv, VpnTypeOK
  <2>2. \A i \in DOMAIN queue : queue[i].who \in Calls \cup {Nil}
    BY DEF VInv, VpnTypeOK, Messages
  <2>3. QED
    BY <1>1, <2>1, <2>2 DEF VInv, VpnTypeOK, Answered, Own
<1>4. Unbound' /\ Ends'
  BY <1>1 DEF VInv, VpnTypeOK, Unbound, Ends, UnderWay, service
<1>5. QED BY <1>2, <1>3, <1>4 DEF VInv

(* A call posts its message, and waits for the answer. *)
LEMMA InvokeKeepsVInv ==
  ASSUME VInv, NEW c \in Calls, Invoke(c) PROVE VInv'
<1> DEFINE m == [what |-> pc[c], who |-> c]
<1>1. /\ pc[c] \in Asked /\ queue' = Append(queue, m)
      /\ pc' = [pc EXCEPT ![c] = "answer"]
      /\ UNCHANGED <<op, main, intents, service, pending, latest, crossed>>
  BY DEF Invoke, Post, Goto, Asked, budget
<1>2. /\ m \in Messages /\ m.what # "START" /\ queue \in Seq(Messages)
      /\ pc \in [Calls -> Labels]
  BY <1>1 DEF VInv, VpnTypeOK, Messages, Asked
<1>3. VpnTypeOK' /\ OpOK'
  BY <1>1, <1>2, AppendEnds
  DEF VInv, VpnTypeOK, OpOK, Connects, Labels, Asked, service
<1>4. Answered'
  <2>1. \A i \in DOMAIN queue : queue[i].who \in Calls \cup {Nil} /\ queue[i].who # c
    BY <1>1, MobileAssumption
    DEF VInv, VpnTypeOK, Messages, Answered, Own, Asked
  <2>2. main # c /\ pending # c
    BY <1>1, MobileAssumption DEF VInv, Answered, Asked
  <2>3. /\ Append(queue, m)[Len(queue) + 1] = m /\ m.who = c
        /\ \A i \in DOMAIN Append(queue, m) :
             i = Len(queue) + 1 \/ (i \in DOMAIN queue /\ Append(queue, m)[i] = queue[i])
    BY <1>2
  <2>4. Own(queue)'
    BY <1>1, <1>2, <2>1, <2>2, <2>3 DEF VInv, Answered, Own
  <2>5. QED
    BY <1>1, <1>2, <2>2, <2>4 DEF VInv, VpnTypeOK, Answered
<1>5. Unbound'
  BY <1>1, <1>2, AppendEnds DEF VInv, Unbound, service
<1>6. Ends'
  <2>1. ASSUME UnderWay PROVE UnderWay'
    BY <1>1, <1>2, <2>1 DEF UnderWay
  <2>2. ASSUME Ending PROVE Ending'
    BY <1>1, <1>2, <2>2, AppendEnds DEF Ending, service
  <2>3. QED BY <1>1, <2>1, <2>2 DEF VInv, Ends
<1>7. QED BY <1>3, <1>4, <1>5, <1>6 DEF VInv

(* A handler that takes the first message, of whatever kind but a START,   *)
(* and leaves the service alone. *)
LEMMA TakingEnds ==
  ASSUME VInv, queue # <<>>, queue' = Tail(queue), ~Stops(Head(queue)),
         UNCHANGED <<bound, running>>
  PROVE  /\ Unbound'
         /\ UNCHANGED intents /\ Ending => Ending'
BY TailEnds DEF VInv, VpnTypeOK, Unbound, Ending

(* handlePrepare *)
LEMMA PrepareKeepsVInv == ASSUME VInv, Prepare PROVE VInv'
<1> DEFINE c == Head(queue).who
<1>1. /\ queue # <<>> /\ queue' = Tail(queue) /\ Head(queue).what = "prepare"
      /\ \/ pc' = [pc EXCEPT ![c] = "start"] /\ UNCHANGED pending
         \/ pending' = c /\ UNCHANGED pc
      /\ UNCHANGED <<op, main, intents, service, latest, crossed>>
  BY DEF Prepare, Handles, Who, Goto, budget
<1>2. /\ queue \in Seq(Messages) /\ Tail(queue) \in Seq(Messages)
      /\ Head(queue) \in Messages /\ ~Stops(Head(queue))
      /\ c \in Calls /\ c # Nil
  BY <1>1, TailEnds, MobileAssumption DEF VInv, VpnTypeOK, Messages, Stops
<1>3. /\ Own(Tail(queue)) /\ pc[c] = "answer" /\ c \notin {main, pending}
      /\ \A i \in DOMAIN Tail(queue) : Tail(queue)[i].who # c
  BY <1>1, <1>2, TailOwn DEF VInv, Answered
<1>4. VpnTypeOK' /\ OpOK'
  BY <1>1, <1>2, <1>3 DEF VInv, VpnTypeOK, OpOK, Connects, Labels, service
<1>5. Answered'
  <2>1. \A i \in DOMAIN Tail(queue) : Tail(queue)[i].who \in Calls \cup {Nil}
    BY <1>2 DEF Messages
  <2>2. Own(queue)'
    BY <1>1, <1>2, <1>3, <2>1 DEF VInv, VpnTypeOK, Own
  <2>3. QED
    BY <1>1, <1>2, <1>3, <2>2 DEF VInv, VpnTypeOK, Answered
<1>6. Unbound' /\ (Ending => Ending')
  BY <1>1, <1>2, TakingEnds DEF service
<1>7. UnderWay => UnderWay'
  BY <1>1, <1>2 DEF VInv, VpnTypeOK, UnderWay
<1>8. Ends'
  BY <1>1, <1>6, <1>7 DEF VInv, Ends
<1>9. QED BY <1>4, <1>5, <1>6, <1>8 DEF VInv

(* onActivityResult *)
LEMMA ConsentKeepsVInv == ASSUME VInv, Consent PROVE VInv'
<1>1. PICK label \in {"start", "undo"} :
        /\ pending # Nil /\ pending' = Nil /\ pc' = [pc EXCEPT ![pending] = label]
        /\ UNCHANGED <<op, main, queue, intents, service, latest, crossed>>
  BY DEF Consent, Goto, budget
<1>2. pending \in Calls /\ pc[pending] = "answer" /\ main # pending
  BY <1>1 DEF VInv, VpnTypeOK, Answered
<1>3. VpnTypeOK' /\ OpOK'
  BY <1>1, <1>2 DEF VInv, VpnTypeOK, OpOK, Connects, Labels, service
<1>4. Answered'
  <2>1. \A i \in DOMAIN queue : queue[i].who \in Calls \cup {Nil}
    BY DEF VInv, VpnTypeOK, Messages
  <2>2. Own(queue)'
    BY <1>1, <1>2, <2>1 DEF VInv, VpnTypeOK, Answered, Own
  <2>3. QED
    BY <1>1, <1>2, <2>2 DEF VInv, VpnTypeOK, Answered
<1>5. Unbound' /\ (Ending => Ending')
  BY <1>1 DEF VInv, Unbound, Ending, service
<1>6. UnderWay => UnderWay'
  BY <1>1, <1>2 DEF VInv, VpnTypeOK, UnderWay
<1>7. QED BY <1>1, <1>3, <1>4, <1>5, <1>6 DEF VInv, Ends

(* handleStart: the START is of a call that is under way. *)
LEMMA HandleStartKeepsVInv == ASSUME VInv, HandleStart PROVE VInv'
<1> DEFINE c == Head(queue).who
<1>1. /\ queue # <<>> /\ queue' = Tail(queue) /\ Head(queue).what = "start"
      /\ main = Nil /\ main' = c /\ intents' = Append(intents, "START")
      /\ UNCHANGED <<flow, service, pending, latest, crossed>>
  BY DEF HandleStart, Handles, Who, budget
<1>2. /\ queue \in Seq(Messages) /\ Tail(queue) \in Seq(Messages)
      /\ Head(queue) \in Messages /\ ~Stops(Head(queue))
      /\ c \in Calls /\ c # Nil
  BY <1>1, TailEnds, MobileAssumption DEF VInv, VpnTypeOK, Messages, Stops
<1>3. /\ Own(Tail(queue)) /\ pc[c] = "answer" /\ c \notin {main, pending}
      /\ \A i \in DOMAIN Tail(queue) : Tail(queue)[i].who # c
  BY <1>1, <1>2, TailOwn DEF VInv, Answered
<1>4. VpnTypeOK' /\ OpOK'
  BY <1>1, <1>2 DEF VInv, VpnTypeOK, OpOK, service, flow
<1>5. Own(queue)'
  BY <1>1, <1>3 DEF Own, flow
<1>6. Answered'
  BY <1>1, <1>3, <1>5 DEF VInv, Answered, flow
<1>7. Unbound'
  BY <1>1, <1>2, TakingEnds DEF service
<1>8. UnderWay'
  <2>1. op[c] \in {"start", "stop"}
    BY <1>2, <1>3 DEF VInv, OpOK, Labels, Connects
  <2>2. QED BY <1>1, <1>2, <1>3, <2>1 DEF UnderWay, flow
<1>9. QED BY <1>4, <1>6, <1>7, <1>8 DEF VInv, Ends

(* The wait ends, and the call's own stop comes next. *)
LEMMA WaitEndsKeepsVInv == ASSUME VInv, WaitEnds PROVE VInv'
<1>1. PICK label \in {"established", "undo"} :
        /\ main # Nil /\ main' = Nil /\ pc' = [pc EXCEPT ![main] = label]
        /\ UNCHANGED <<op, pending, queue, intents, service, latest, crossed>>
  BY DEF WaitEnds, Goto, budget
<1>2. main \in Calls /\ pc[main] = "answer" /\ main # pending
  BY <1>1 DEF VInv, VpnTypeOK, Answered
<1>3. VpnTypeOK' /\ OpOK'
  BY <1>1, <1>2 DEF VInv, VpnTypeOK, OpOK, Connects, Labels, service
<1>4. Answered'
  <2>1. \A i \in DOMAIN queue : queue[i].who \in Calls \cup {Nil}
    BY DEF VInv, VpnTypeOK, Messages
  <2>2. Own(queue)'
    BY <1>1, <1>2, <2>1 DEF VInv, VpnTypeOK, Answered, Own
  <2>3. QED
    BY <1>1, <1>2, <2>2 DEF VInv, VpnTypeOK, Answered
<1>5. Unbound' /\ (Ending => Ending')
  BY <1>1 DEF VInv, Unbound, Ending, service
<1>6. UnderWay => UnderWay'
  BY <1>1, <1>2 DEF VInv, VpnTypeOK, UnderWay
<1>7. QED BY <1>1, <1>3, <1>4, <1>5, <1>6 DEF VInv, Ends

(* The service ends: its end is posted behind what the system delivered,   *)
(* or has been posted before. *)
LEMMA StopVpnEnds ==
  ASSUME VInv, NEW rest \in Seq(Messages), StopVpn(rest), Own(rest),
         NoStart(queue) => NoStart(rest),
         StopLast(queue) => NoStart(rest) \/ StopLast(rest)
  PROVE  /\ queue' \in Seq(Messages) /\ Unbound'
         /\ NoStart(queue') \/ StopLast(queue')
         /\ ~running' /\ ~active' /\ ~bound'
         /\ UNCHANGED <<pc, main, pending>> => Own(queue)'
         /\ UNCHANGED intents /\ Ending => Ending'
<1> DEFINE m == [what |-> "destroy", who |-> Nil]
<1>1. m \in Messages /\ Stops(m) /\ m.who = Nil
  BY DEF Messages, Stops
<1>2. /\ ~running' /\ ~active' /\ ~bound'
      /\ bound => queue' = Append(rest, m)
      /\ ~bound => queue' = rest
  BY DEF StopVpn
<1>3. queue' \in Seq(Messages) /\ (NoStart(queue') \/ StopLast(queue'))
  <2>1. CASE bound
    BY <1>1, <1>2, <2>1, AppendEnds
  <2>2. CASE ~bound
    BY <1>2, <2>2 DEF VInv, Unbound
  <2>3. QED BY <2>1, <2>2
<1>4. Own(queue')
  BY <1>1, <1>2, AppendOwn
<1>5. UNCHANGED <<pc, main, pending>> => Own(queue)'
  BY <1>4 DEF Own
<1>6. UNCHANGED intents /\ Ending => Ending'
  BY <1>2, <1>3 DEF Ending
<1>7. QED BY <1>2, <1>3, <1>5, <1>6 DEF Unbound

(* handleStop: what is left ends with the STOP it sends to a service that  *)
(* is not there yet, or with the end of the service that is. *)
LEMMA HandleStopKeepsVInv == ASSUME VInv, HandleStop PROVE VInv'
<1> DEFINE c == Head(queue).who
<1>1. /\ queue # <<>> /\ Head(queue).what = "undo"
      /\ pc' = [pc EXCEPT ![c] = "idle"]
      /\ UNCHANGED <<op, main, pending, latest>>
  BY DEF HandleStop, Handles, Who, Goto
<1>2. /\ queue \in Seq(Messages) /\ Tail(queue) \in Seq(Messages)
      /\ Head(queue) \in Messages /\ ~Stops(Head(queue))
      /\ c \in Calls /\ c # Nil
  BY <1>1, TailEnds, MobileAssumption DEF VInv, VpnTypeOK, Messages, Stops
<1>3. /\ Own(Tail(queue)) /\ pc[c] = "answer" /\ c \notin {main, pending}
      /\ \A i \in DOMAIN Tail(queue) : Tail(queue)[i].who # c
  BY <1>1, <1>2, TailOwn DEF VInv, Answered
<1>4. /\ queue' \in Seq(Messages) /\ Unbound' /\ (crossed' \/ Ending')
      /\ <<bound', active', running'>> \in BOOLEAN \X BOOLEAN \X BOOLEAN
      /\ intents' \in Seq({"START", "STOP"})
      /\ Own(queue') /\ \A i \in DOMAIN queue' : queue'[i].who # c
  <2>1. CASE active
    <3>1. StopVpn(Tail(queue)) /\ UNCHANGED intents
      BY <2>1 DEF HandleStop
    <3>2. /\ NoStart(queue) => NoStart(Tail(queue))
          /\ StopLast(queue) => NoStart(Tail(queue)) \/ StopLast(Tail(queue))
      BY <1>1, <1>2, TailEnds
    <3>3. /\ queue' \in Seq(Messages) /\ Unbound' /\ ~running' /\ ~active' /\ ~bound'
          /\ NoStart(queue') \/ StopLast(queue')
      BY <1>2, <1>3, <3>1, <3>2, StopVpnEnds
    <3>4. crossed' \/ Ending'
      BY <2>1, <3>1, <3>3 DEF HandleStop, Ending, NoneIntended
    <3>5. Own(queue') /\ \A i \in DOMAIN queue' : queue'[i].who # c
      <4> DEFINE m == [what |-> "destroy", who |-> Nil]
      <4>1. m \in Messages /\ m.who = Nil
        BY DEF Messages
      <4>2. queue' = Tail(queue) \/ queue' = Append(Tail(queue), m)
        BY <3>1 DEF StopVpn
      <4>3. Own(queue')
        BY <1>2, <1>3, <4>1, <4>2, AppendOwn
      <4>4. \A i \in DOMAIN Append(Tail(queue), m) :
              \/ Append(Tail(queue), m)[i] = m
              \/ i \in DOMAIN Tail(queue) /\ Append(Tail(queue), m)[i] = Tail(queue)[i]
        BY <1>2
      <4>5. QED BY <1>2, <1>3, <4>1, <4>2, <4>3, <4>4
    <3>6. QED
      BY <3>1, <3>3, <3>4, <3>5 DEF StopVpn, VInv, VpnTypeOK
  <2>2. CASE ~active
    <3>1. /\ intents' = Append(intents, "STOP") /\ queue' = Tail(queue)
          /\ UNCHANGED service
      BY <2>2 DEF HandleStop, StopLater
    <3>2. intents' \in Seq({"START", "STOP"}) /\ Ending'
      BY <3>1, IntentEnds DEF VInv, VpnTypeOK, Ending
    <3>3. Unbound'
      BY <1>1, <1>2, <3>1, TakingEnds DEF service
    <3>4. QED
      BY <1>2, <1>3, <3>1, <3>2, <3>3 DEF VInv, VpnTypeOK, service
  <2>3. QED BY <2>1, <2>2 DEF VInv, VpnTypeOK
<1>5. VpnTypeOK'
  <2>1. crossed' \in BOOLEAN
    BY DEF HandleStop
  <2>2. QED
    BY <1>1, <1>4, <2>1 DEF VInv, VpnTypeOK, Labels
<1>6. OpOK'
  BY <1>1, <1>2 DEF VInv, VpnTypeOK, OpOK, Connects, Labels
<1>7. Answered'
  <2>1. \A i \in DOMAIN queue' : queue'[i].who \in Calls \cup {Nil}
    BY <1>4 DEF Messages
  <2>2. Own(queue)'
    BY <1>1, <1>2, <1>4, <2>1 DEF VInv, VpnTypeOK, Own
  <2>3. QED
    BY <1>1, <1>2, <1>3, <2>2 DEF VInv, VpnTypeOK, Answered
<1>8. QED BY <1>4, <1>5, <1>6, <1>7 DEF VInv, Ends

(* The handlers of the service and the system, which concern no call:      *)
(* what remains to be shown for each is the queue's part. *)
LEMMA ServiceStep ==
  ASSUME VInv, UNCHANGED <<flow, main, pending, latest, crossed>>,
         queue' \in Seq(Messages), intents' \in Seq({"START", "STOP"}),
         <<bound', active', running'>> \in BOOLEAN \X BOOLEAN \X BOOLEAN,
         Own(queue)', Unbound', Ending => Ending'
  PROVE  VInv'
<1>1. VpnTypeOK' /\ OpOK'
  BY DEF VInv, VpnTypeOK, OpOK, flow
<1>2. Answered'
  BY DEF VInv, Answered, flow
<1>3. Ends'
  BY DEF VInv, Ends, UnderWay, flow
<1>4. QED BY <1>1, <1>2, <1>3 DEF VInv

(* onCreate, and a message to a Dart program that is gone. *)
LEMMA OnCreateKeepsVInv == ASSUME VInv, OnCreate \/ Drop PROVE VInv'
<1>1. /\ queue # <<>> /\ queue' = Tail(queue)
      /\ Head(queue).what \in {"create", "gone"}
      /\ active' \in {active, TRUE}
      /\ UNCHANGED <<flow, main, pending, intents, bound, running, latest, crossed>>
  BY DEF OnCreate, Drop, Handles, budget, service
<1>2. /\ queue \in Seq(Messages) /\ queue' \in Seq(Messages)
      /\ Head(queue) \in Messages /\ ~Stops(Head(queue))
  BY <1>1, TailEnds DEF VInv, VpnTypeOK, Stops
<1>3. Own(queue)'
  BY <1>1, <1>2, TailOwn DEF VInv, Answered, Own, flow
<1>4. Unbound' /\ (Ending => Ending')
  BY <1>1, <1>2, TakingEnds
<1>5. QED
  BY <1>1, <1>2, <1>3, <1>4, ServiceStep DEF VInv, VpnTypeOK

(* onStartCommand with START: a stop is behind it. *)
LEMMA EstablishKeepsVInv == ASSUME VInv, Establish PROVE VInv'
<1>1. /\ queue # <<>> /\ queue' = Tail(queue) /\ Head(queue).what = "START"
      /\ running' = TRUE
      /\ UNCHANGED <<flow, main, pending, intents, bound, active, latest, crossed>>
  BY DEF Establish, Handles, budget
<1>2. /\ queue \in Seq(Messages) /\ queue' \in Seq(Messages)
      /\ Head(queue) \in Messages /\ ~Stops(Head(queue)) /\ ~NoStart(queue)
  <2>1. queue[1] = Head(queue) /\ 1 \in DOMAIN queue
    BY <1>1 DEF VInv, VpnTypeOK
  <2>2. QED
    BY <1>1, <2>1, TailEnds DEF VInv, VpnTypeOK, Stops, NoStart
<1>3. Own(queue)'
  BY <1>1, <1>2, TailOwn DEF VInv, Answered, Own, flow
<1>4. Unbound' /\ (Ending => Ending')
  BY <1>1, <1>2, TailEnds DEF VInv, Unbound, Ending
<1>5. QED
  BY <1>1, <1>2, <1>3, <1>4, ServiceStep DEF VInv, VpnTypeOK

(* onStartCommand without permission or with STOP, onDestroy, onRevoke. *)
LEMMA StopsKeepVInv ==
  ASSUME VInv, EstablishFails \/ StopCommand \/ Revoke PROVE VInv'
<1>1. PICK r \in {queue, Tail(queue)} :
        /\ StopVpn(r) /\ (r # queue => queue # <<>>)
        /\ UNCHANGED <<flow, main, pending, intents, latest, crossed>>
  BY DEF EstablishFails, StopCommand, Revoke, Handles, budget
<1>2. /\ r \in Seq(Messages) /\ Own(r)
      /\ NoStart(queue) => NoStart(r)
      /\ StopLast(queue) => NoStart(r) \/ StopLast(r)
  BY <1>1, TailEnds, TailOwn DEF VInv, VpnTypeOK, Answered
<1>3. /\ queue' \in Seq(Messages) /\ Unbound' /\ ~running' /\ ~active' /\ ~bound'
      /\ Own(queue)' /\ (Ending => Ending')
  BY <1>1, <1>2, StopVpnEnds DEF flow
<1>4. <<bound', active', running'>> \in BOOLEAN \X BOOLEAN \X BOOLEAN
  BY <1>1 DEF StopVpn
<1>5. QED
  BY <1>1, <1>3, <1>4, ServiceStep DEF VInv, VpnTypeOK

(* The system delivers an intent: in order, behind all that it posted. *)
LEMMA DeliverKeepsVInv == ASSUME VInv, Deliver PROVE VInv'
<1> DEFINE new == [what |-> "create", who |-> Nil]
           m == [what |-> Head(intents), who |-> Nil]
           q == IF bound THEN queue ELSE Append(queue, new)
<1>1. /\ intents # <<>> /\ intents' = Tail(intents) /\ queue' = Append(q, m)
      /\ bound' = TRUE
      /\ UNCHANGED <<flow, main, pending, active, running, latest, crossed>>
  BY DEF Deliver, budget
<1>2. /\ queue \in Seq(Messages) /\ intents \in Seq({"START", "STOP"}) /\ Own(queue)
      /\ Tail(intents) \in Seq({"START", "STOP"})
      /\ Head(intents) \in {"START", "STOP"}
      /\ active \in BOOLEAN /\ running \in BOOLEAN
  BY <1>1 DEF VInv, VpnTypeOK, Answered
<1>3. /\ new \in Messages /\ new.who = Nil /\ new.what # "START"
      /\ m \in Messages /\ m.who = Nil /\ m.what = Head(intents)
  BY <1>2 DEF Messages
<1>4. /\ q \in Seq(Messages) /\ Own(q)
      /\ NoStart(queue) => NoStart(q)
      /\ StopLast(queue) => StopLast(q)
  <2>1. CASE bound
    BY <1>2, <2>1
  <2>2. CASE ~bound
    BY <1>2, <1>3, <2>2, AppendEnds, AppendOwn
  <2>3. QED BY <2>1, <2>2
<1> HIDE DEF q, m, new
<1>5. /\ queue' \in Seq(Messages) /\ Own(queue)'
      /\ Head(intents) = "STOP" => StopLast(queue')
  BY <1>1, <1>3, <1>4, AppendEnds, AppendOwn DEF Own, flow, Stops
<1>6. Unbound'
  BY <1>1 DEF Unbound
<1>7. Ending => Ending'
  BY <1>1, <1>2, <1>5, IntentEnds DEF Ending
<1>8. QED BY <1>1, <1>2, <1>5, <1>6, <1>7, ServiceStep

(* The activity is created again: nothing is asked of its service. *)
LEMMA NewActivityKeepsVInv == ASSUME VInv, NewActivity PROVE VInv'
<1>1. /\ main = Nil /\ pending' = Nil /\ latest' = "none"
      /\ pc' = [c \in Calls |-> "idle"] /\ op' = [c \in Calls |-> "none"]
      /\ queue' = [i \in DOMAIN queue |-> IF queue[i].who = Nil THEN queue[i] ELSE Gone]
      /\ UNCHANGED <<main, intents, service, crossed>>
  BY DEF NewActivity
<1>2. queue \in Seq(Messages) /\ Gone \in Messages /\ Gone.who = Nil /\ Gone.what = "gone"
  BY DEF VInv, VpnTypeOK, Messages, Gone
<1>3. /\ DOMAIN queue' = DOMAIN queue
      /\ \A i \in DOMAIN queue : queue'[i] = IF queue[i].who = Nil THEN queue[i] ELSE Gone
  BY <1>1
<1>4. queue' \in Seq(Messages)
  <2>1. \A i \in DOMAIN queue : queue[i] \in Messages /\ queue'[i] \in Messages
    BY <1>2, <1>3
  <2>2. DOMAIN queue = 1..Len(queue) /\ Len(queue) \in Nat
    BY <1>2
  <2>3. queue' \in [1..Len(queue) -> Messages]
    BY <1>1, <2>1, <2>2
  <2>4. QED BY <2>2, <2>3
<1>5. \A i \in DOMAIN queue :
        /\ queue'[i].who = Nil
        /\ queue[i].what # "START" => queue'[i].what # "START"
        /\ Stops(queue[i]) => Stops(queue'[i])
  <2>1. \A i \in DOMAIN queue :
          queue[i].who # Nil => ~Stops(queue[i])
    BY <1>2 DEF Messages, Stops, Asked
  <2>2. QED BY <1>2, <1>3, <2>1
<1>6. VpnTypeOK' /\ OpOK'
  BY <1>1, <1>4 DEF VInv, VpnTypeOK, OpOK, Labels, Connects, service
<1>7. Answered'
  BY <1>1, <1>3, <1>5 DEF Answered, Own
<1>8. Unbound'
  <2>1. NoStart(queue) => NoStart(queue')
    BY <1>3, <1>5 DEF NoStart
  <2>2. StopLast(queue) => StopLast(queue')
    BY <1>3, <1>5 DEF StopLast
  <2>3. QED BY <1>1, <2>1, <2>2 DEF VInv, Unbound, service
<1>9. QED BY <1>1, <1>6, <1>7, <1>8 DEF VInv, Ends

(* The steps of ensureConnected are such moves. *)
LEMMA ConnectingMoves ==
  ASSUME VInv, NEW c \in Calls, CheckHealth(c) \/ EnsureStarted(c) \/ Connect(c)
  PROVE  Moves
<1>1. /\ UNCHANGED <<op, queue, main, intents, service, pending, latest, crossed>>
      /\ pc[c] \in Connects
  BY DEF CheckHealth, EnsureStarted, Connect, budget, Connects
<1>2. \E label \in {"connect", "await", "channel", Proceeds(c), Fails(c)} :
        pc' = [pc EXCEPT ![c] = label]
  BY DEF CheckHealth, EnsureStarted, Connect, Goto
<1>3. Proceeds(c) \in Labels \cap Next2(c) /\ Fails(c) \in Labels \cap Next2(c)
  BY DEF Proceeds, Fails, Next2, Labels
<1>4. QED
  BY <1>1, <1>2, <1>3 DEF VInv, VpnTypeOK, Moves, Connects, Labels

(* So are the ends of an attempt, for all who wait for it. *)
LEMMA AttemptMoves ==
  ASSUME VInv, NEW k \in Tokens, Attempt(k) \/ StartTimesOut(k) PROVE Moves
<1>1. UNCHANGED <<op, queue, main, intents, service, pending, latest, crossed>>
  BY DEF Attempt, NekoboxStart, NekoboxStartFails, StartTimesOut, budget
<1>2. \/ pc' = [c \in Calls |-> IF c \in Awaiting(k) THEN "channel" ELSE pc[c]]
      \/ pc' = [c \in Calls |-> IF c \in Awaiting(k) THEN Fails(c) ELSE pc[c]]
  BY DEF Attempt, NekoboxStart, NekoboxStartFails, StartTimesOut, Abandon
<1>3. \A c \in Calls : Fails(c) \in Labels \cap Next2(c)
  BY DEF Fails, Next2, Labels
<1>4. \A c \in Awaiting(k) : pc[c] \in Connects
  BY DEF Awaiting, Connects
<1>5. QED
  BY <1>1, <1>2, <1>3, <1>4 DEF VInv, VpnTypeOK, Moves, Connects, Labels

(* Every step keeps the invariant. *)
LEMMA NextKeepsVInv == ASSUME VInv, [Next]_vars PROVE VInv'
<1>1. ASSUME NEW c \in Calls, Call(c) PROVE VInv'
  BY <1>1, ConnectingMoves, MovesKeepVInv, InvokeKeepsVInv DEF Call
<1>2. ASSUME NEW c \in Calls, NEW what \in {"connect", "start", "stop"},
             Begin(c, what)
      PROVE  VInv'
  BY <1>2, BeginKeepsVInv
<1>3. ASSUME NEW k \in Tokens, Attempt(k) \/ StartTimesOut(k) PROVE VInv'
  BY <1>3, AttemptMoves, MovesKeepVInv
<1>4. CASE MainThread
  BY <1>4, PrepareKeepsVInv, HandleStartKeepsVInv, WaitEndsKeepsVInv,
     HandleStopKeepsVInv, OnCreateKeepsVInv, EstablishKeepsVInv, StopsKeepVInv
  DEF MainThread
<1>5. CASE UNCHANGED vars
  <2>1. Moves
    BY <1>5 DEF Moves, vars, flow, service, budget, VInv, VpnTypeOK
  <2>2. QED BY <2>1, MovesKeepVInv
<1>6. QED
  BY <1>1, <1>2, <1>3, <1>4, <1>5, ConsentKeepsVInv, DeliverKeepsVInv,
     StopsKeepVInv, NewActivityKeepsVInv
  DEF Next

(* A stop that nothing crosses is obeyed: wherever it overtakes starts and *)
(* their service, whatever the user, the system and the dialog do, once    *)
(* all is at rest no VPN runs. *)
THEOREM StopIsObeyed == Spec => []StopEndsVpn
<1>1. VInv => StopEndsVpn
  <2> SUFFICES ASSUME VInv, latest = "stop", ~crossed,
                      \A c \in Calls : pc[c] = "idle",
                      queue = <<>>, intents = <<>>
               PROVE  ~running
    BY DEF StopEndsVpn
  <2>1. Ending
    BY DEF VInv, Ends, UnderWay
  <2>2. ~StopIntended(intents) /\ ~StopLast(queue)
    BY DEF StopIntended, StopLast
  <2>3. QED BY <2>1, <2>2 DEF Ending
<1>2. QED BY <1>1, InitVInv, NextKeepsVInv, PTL DEF Spec

=============================================================================
