---------------------------- MODULE PeerHubProofs ----------------------------
(***************************************************************************)
(* A closed inbound peer leaves the table of the hub, for any connections, *)
(* keys and size of the channel.                                           *)
(*                                                                         *)
(* The property is about registered routers; what makes it hold happened   *)
(* before they were registered.  HubInv therefore follows an inbound       *)
(* connection from its event: the event is in the channel once and only    *)
(* while the connection is `queued', the event loop is busy with it from   *)
(* then until it is registered, and if it is closed meanwhile its          *)
(* PeerClosing waits, as only the loop takes events from the channel.      *)
(***************************************************************************)
EXTENDS PeerHub, SequenceTheorems, TLAPS

Phases == {"idle", "queued", "version", "ready", "up", "done", "failed"}

Events == [type : {"NewPeer", "PeerClosing"}, router : Routers]

TypeOK ==
  /\ phase \in [Routers -> Phases]
  /\ closed \subseteq Routers /\ notify \subseteq Routers
  /\ queue \in Seq(Events)
  /\ peers \in [Keys -> Routers \cup {None}]
  /\ loop \in [at : {"recv", "init", "closing"}, router : Routers \cup {None}]
  /\ (loop.at = "recv") <=> (loop.router = None)
  /\ drain \in [left : SUBSET Routers, at : Routers \cup {None}]

\* The phase of a connection tells where its event is.
PhasesOK ==
  /\ \A k \in Keys : peers[k] # None => phase[peers[k]] = "done" /\ Key[peers[k]] = k
  /\ \A r \in Inbound : phase[r] \in {"version", "ready", "up"} => loop = [at |-> "init", router |-> r]
  /\ loop.at = "closing" => phase[loop.router] \in {"done", "failed"}
  /\ loop.at = "init" => loop.router \in Inbound /\ phase[loop.router] \in {"version", "ready", "up"}
  /\ \A i \in 1..Len(queue) : queue[i].type = "NewPeer" =>
       IF queue[i].router \in Inbound
       THEN /\ phase[queue[i].router] = "queued"
            /\ \A j \in 1..Len(queue) : queue[j] = queue[i] => j = i
       ELSE phase[queue[i].router] = "done"
  /\ \A r \in closed \cup drain.left : phase[r] \notin {"idle", "queued"}

\* The routers the hub knows of or is about to.
Known(r) == Registered(r) \/ phase[r] \in {"version", "ready", "up"}

HubInv ==
  /\ TypeOK /\ PhasesOK
  /\ \A r \in Inbound : Known(r) /\ r \in closed => Leaving(r)

-----------------------------------------------------------------------------
(* The channel *)

\* An event is its type and its router.
LEMMA SameEvent ==
  ASSUME NEW d \in Events, NEW e \in Events, d.type = e.type, d.router = e.router
  PROVE  d = e
PROOF
  BY DEF Events

\* Sending to the channel keeps what is in it, in its place.
LEMMA Sending ==
  ASSUME NEW q \in Seq(Events), NEW e \in Events
  PROVE  /\ Append(q, e) \in Seq(Events)
         /\ \A i \in 1..Len(Append(q, e)) :
              \/ i \in 1..Len(q) /\ Append(q, e)[i] = q[i]
              \/ i = Len(q) + 1 /\ Append(q, e)[i] = e
         /\ Contains(Append(q, e), e)
         /\ \A x : Contains(q, x) => Contains(Append(q, e), x)
PROOF
<1>1. /\ Append(q, e) \in Seq(Events) /\ Len(Append(q, e)) = Len(q) + 1 /\ Len(q) \in Nat
      /\ \A i \in 1..Len(q) : Append(q, e)[i] = q[i]
      /\ Append(q, e)[Len(q) + 1] = e
  BY AppendProperties, LenProperties
<1>2. \A i \in 1..Len(Append(q, e)) : i \in 1..Len(q) \/ i = Len(q) + 1
  BY <1>1
<1>3. Contains(Append(q, e), e)
  BY <1>1 DEF Contains
<1>4. \A x : Contains(q, x) => Contains(Append(q, e), x)
  BY <1>1 DEF Contains
<1> QED
  BY <1>1, <1>2, <1>3, <1>4

\* Receiving takes the first event and moves the others up by one place.
LEMMA Receiving ==
  ASSUME NEW q \in Seq(Events), q # <<>>
  PROVE  /\ Tail(q) \in Seq(Events) /\ Head(q) \in Events
         /\ 1 \in 1..Len(q) /\ q[1] = Head(q)
         /\ \A i \in 1..Len(Tail(q)) : i + 1 \in 1..Len(q) /\ Tail(q)[i] = q[i + 1] /\ i + 1 # 1
         /\ \A x : Contains(q, x) /\ x # Head(q) => Contains(Tail(q), x)
PROOF
<1>1. /\ Tail(q) \in Seq(Events) /\ Head(q) \in Events
      /\ Len(Tail(q)) = Len(q) - 1 /\ Len(q) \in Nat \ {0}
      /\ \A i \in 1..Len(Tail(q)) : Tail(q)[i] = q[i + 1]
  BY HeadTailProperties, EmptySeq
<1>2. 1 \in 1..Len(q) /\ q[1] = Head(q)
  BY <1>1
<1>3. ASSUME NEW x, Contains(q, x), x # Head(q)
      PROVE  Contains(Tail(q), x)
  <2>1. PICK i \in 1..Len(q) : q[i] = x
    BY <1>3 DEF Contains
  <2>2. i - 1 \in 1..Len(Tail(q)) /\ Tail(q)[i - 1] = x
    BY <1>1, <1>2, <1>3, <2>1
  <2> QED
    BY <2>2 DEF Contains
<1> QED
  BY <1>1, <1>2, <1>3

-----------------------------------------------------------------------------
(* The invariant *)

\* HubInv holds of the empty hub.
LEMMA HubInvInit == HubInit => HubInv
PROOF
<1> SUFFICES ASSUME HubInit PROVE HubInv
  OBVIOUS
<1>1. TypeOK
  BY HubAssumption, EmptySeq DEF HubInit, TypeOK, Idle, Phases
<1>2. Len(queue) = 0
  BY EmptySeq DEF HubInit
<1>3. PhasesOK
  BY <1>2, HubAssumption DEF HubInit, PhasesOK, Idle, Inbound
<1> QED
  BY <1>1, <1>3 DEF HubInv, HubInit

\* What is said of one router, to be shown for each in the step below.
LeavingOK(r) == Known(r) /\ r \in closed => Leaving(r)

\* Every step of the hub, its connections and their tasks preserves HubInv.
LEMMA HubInvStep == HubInv /\ [HubNext]_hubVars => HubInv'
PROOF
<1> SUFFICES ASSUME HubInv, [HubNext]_hubVars PROVE HubInv'
  OBVIOUS
<1> USE DEF Inbound, Idle
<1>0. /\ TypeOK /\ PhasesOK /\ (\A r \in Inbound : LeavingOK(r))
      /\ Key \in [Routers -> Keys] /\ Outbound \subseteq Routers /\ None \notin Routers
  BY HubAssumption DEF HubInv, LeavingOK
<1>1. ASSUME NEW r \in Routers, Accept(r) PROVE HubInv'
  <2> DEFINE e == [type |-> "NewPeer", router |-> r]
  <2>q. queue \in Seq(Events) /\ e \in Events /\ queue' = Append(queue, e)
    BY <1>0, <1>1 DEF Accept, HasRoom, TypeOK, Events, PhasesOK
  <2> HIDE DEF e
  <2>e. /\ queue' \in Seq(Events)
        /\ \A i \in 1..Len(queue') : \/ i \in 1..Len(queue) /\ queue'[i] = queue[i]
                                     \/ i = Len(queue) + 1 /\ queue'[i] = e
        /\ Contains(queue', e) /\ \A x : Contains(queue, x) => Contains(queue', x)
    BY <2>q, Sending
  <2> USE DEF e
  <2>1. TypeOK'
    BY <1>0, <1>1, <2>q, <2>e DEF Accept, HasRoom, Events, TypeOK, Phases, PhasesOK
  <2>2. PhasesOK'
    <3>1. /\ \A k \in Keys : peers'[k] # None => phase'[peers'[k]] = "done" /\ Key[peers'[k]] = k
          /\ \A s \in Inbound : phase'[s] \in {"version", "ready", "up"} => loop' = [at |-> "init", router |-> s]
      BY <1>0, <1>1, <2>q, <2>e DEF Accept, HasRoom, Events, TypeOK, PhasesOK
    <3>a. /\ loop'.at = "closing" => phase'[loop'.router] \in {"done", "failed"}
          /\ loop'.at = "init" => loop'.router \in Inbound /\ phase'[loop'.router] \in {"version", "ready", "up"}
      BY <1>0, <1>1, <2>q, <2>e DEF Accept, HasRoom, Events, TypeOK, PhasesOK
    <3>b. \A s \in closed' \cup drain'.left : phase'[s] \notin {"idle", "queued"}
      <4>1. r \notin closed \cup drain.left /\ closed \cup drain.left \subseteq Routers
        BY <1>0, <1>1, <2>q, <2>e DEF Accept, HasRoom, Events, TypeOK, PhasesOK
      <4> QED
        BY <4>1, <1>0, <1>1, <2>q, <2>e DEF Accept, HasRoom, Events, TypeOK, PhasesOK
    <3>2. \A i \in 1..Len(queue) : queue[i] \in Events /\ (queue[i].type = "NewPeer" => queue[i].router # r)
      <4>1. \A i \in 1..Len(queue) : queue[i] \in Events
        BY <2>q, ElementOfSeq
      <4>2. phase[r] = "idle"
        BY <1>1 DEF Accept
      <4> QED
        BY <4>1, <4>2, <1>0 DEF PhasesOK
    <3>3. ASSUME NEW i \in 1..Len(queue'), queue'[i].type = "NewPeer"
          PROVE  IF queue'[i].router \in Inbound
                 THEN /\ phase'[queue'[i].router] = "queued"
                      /\ \A j \in 1..Len(queue') : queue'[j] = queue'[i] => j = i
                 ELSE phase'[queue'[i].router] = "done"
      <4>1. CASE i \in 1..Len(queue) /\ queue'[i] = queue[i]
        BY <4>1, <3>2, <3>3, <1>0, <1>1, <2>q, <2>e DEF Accept, HasRoom, Events, TypeOK, PhasesOK
      <4>2. CASE i = Len(queue) + 1 /\ queue'[i] = e
        BY <4>2, <3>2, <3>3, <1>0, <1>1, <2>q, <2>e DEF Accept, HasRoom, Events, TypeOK, PhasesOK
      <4> QED
        BY <4>1, <4>2, <2>e
    <3> QED
      BY <3>1, <3>a, <3>b, <3>3 DEF PhasesOK
  <2>3. ASSUME NEW s \in Inbound PROVE LeavingOK(s)'
    BY <1>0, <1>1, <2>q, <2>e DEF Accept, HasRoom, Events, TypeOK, PhasesOK, LeavingOK, Known, Registered, Leaving, Queued
  <2> QED
    BY <2>1, <2>2, <2>3 DEF HubInv, LeavingOK
<1>2. ASSUME NEW r \in Routers, Dial(r) PROVE HubInv'
  <2>1. TypeOK'
    BY <1>0, <1>2 DEF Dial, Events, TypeOK, Phases, PhasesOK
  <2>2. PhasesOK'
    BY <1>0, <1>2 DEF Dial, Events, TypeOK, PhasesOK, Phases
  <2>3. ASSUME NEW s \in Inbound PROVE LeavingOK(s)'
    BY <1>0, <1>2 DEF Dial, Events, TypeOK, PhasesOK, LeavingOK, Known, Registered, Leaving, Queued
  <2> QED
    BY <2>1, <2>2, <2>3 DEF HubInv, LeavingOK
<1>3. ASSUME NEW r \in Routers, CheckPeer(r) PROVE HubInv'
  <2>1. TypeOK'
    BY <1>0, <1>3 DEF CheckPeer, Events, TypeOK, Phases, PhasesOK
  <2>2. PhasesOK'
    BY <1>0, <1>3 DEF CheckPeer, Events, TypeOK, PhasesOK, Phases
  <2>3. ASSUME NEW s \in Inbound PROVE LeavingOK(s)'
    BY <1>0, <1>3 DEF CheckPeer, Events, TypeOK, PhasesOK, LeavingOK, Known, Registered, Leaving, Queued
  <2> QED
    BY <2>1, <2>2, <2>3 DEF HubInv, LeavingOK
<1>4. ASSUME NEW r \in Routers, ExchangeReady(r) PROVE HubInv'
  <2>1. TypeOK'
    BY <1>0, <1>4 DEF ExchangeReady, Events, TypeOK, Phases, PhasesOK
  <2>2. PhasesOK'
    BY <1>0, <1>4 DEF ExchangeReady, Events, TypeOK, PhasesOK, Phases
  <2>3. ASSUME NEW s \in Inbound PROVE LeavingOK(s)'
    BY <1>0, <1>4 DEF ExchangeReady, Events, TypeOK, PhasesOK, LeavingOK, Known, Registered, Leaving, Queued
  <2> QED
    BY <2>1, <2>2, <2>3 DEF HubInv, LeavingOK
<1>5. ASSUME NEW r \in Routers, InitializeFails(r) PROVE HubInv'
  <2>1. TypeOK'
    BY <1>0, <1>5 DEF InitializeFails, CloseByTask, CloseByLoop, Events, TypeOK, Phases, PhasesOK
  <2>2. PhasesOK'
    BY <1>0, <1>5 DEF InitializeFails, CloseByTask, CloseByLoop, Events, TypeOK, PhasesOK, Phases
  <2>3. ASSUME NEW s \in Inbound PROVE LeavingOK(s)'
    BY <1>0, <1>5 DEF InitializeFails, CloseByTask, CloseByLoop, Events, TypeOK, PhasesOK, LeavingOK, Known, Registered, Leaving, Queued
  <2> QED
    BY <2>1, <2>2, <2>3 DEF HubInv, LeavingOK
<1>6. ASSUME NEW r \in Routers, SendNewPeer(r) PROVE HubInv'
  <2> DEFINE e == [type |-> "NewPeer", router |-> r]
  <2>q. queue \in Seq(Events) /\ e \in Events /\ queue' = Append(queue, e)
    BY <1>0, <1>6 DEF SendNewPeer, HasRoom, TypeOK, Events, PhasesOK
  <2> HIDE DEF e
  <2>e. /\ queue' \in Seq(Events)
        /\ \A i \in 1..Len(queue') : \/ i \in 1..Len(queue) /\ queue'[i] = queue[i]
                                     \/ i = Len(queue) + 1 /\ queue'[i] = e
        /\ Contains(queue', e) /\ \A x : Contains(queue, x) => Contains(queue', x)
    BY <2>q, Sending
  <2> USE DEF e
  <2>1. TypeOK'
    BY <1>0, <1>6, <2>q, <2>e DEF SendNewPeer, HasRoom, Events, TypeOK, Phases, PhasesOK
  <2>2. PhasesOK'
    BY <1>0, <1>6, <2>q, <2>e DEF SendNewPeer, HasRoom, Events, TypeOK, PhasesOK, Phases
  <2>3. ASSUME NEW s \in Inbound PROVE LeavingOK(s)'
    BY <1>0, <1>6, <2>q, <2>e DEF SendNewPeer, HasRoom, Events, TypeOK, PhasesOK, LeavingOK, Known, Registered, Leaving, Queued
  <2> QED
    BY <2>1, <2>2, <2>3 DEF HubInv, LeavingOK
<1>7. ASSUME NEW r \in Routers, Close(r) PROVE HubInv'
  <2>1. TypeOK'
    BY <1>0, <1>7 DEF Close, CloseByTask, Events, TypeOK, Phases, PhasesOK
  <2>2. PhasesOK'
    BY <1>0, <1>7 DEF Close, CloseByTask, Events, TypeOK, PhasesOK, Phases
  <2>3. ASSUME NEW s \in Inbound PROVE LeavingOK(s)'
    BY <1>0, <1>7 DEF Close, CloseByTask, Events, TypeOK, PhasesOK, LeavingOK, Known, Registered, Leaving, Queued
  <2> QED
    BY <2>1, <2>2, <2>3 DEF HubInv, LeavingOK
<1>8. ASSUME NEW r \in Routers, SendPeerClosing(r) PROVE HubInv'
  <2> DEFINE e == [type |-> "PeerClosing", router |-> r]
  <2>q. queue \in Seq(Events) /\ e \in Events /\ queue' = Append(queue, e)
    BY <1>0, <1>8 DEF SendPeerClosing, HasRoom, TypeOK, Events, PhasesOK
  <2> HIDE DEF e
  <2>e. /\ queue' \in Seq(Events)
        /\ \A i \in 1..Len(queue') : \/ i \in 1..Len(queue) /\ queue'[i] = queue[i]
                                     \/ i = Len(queue) + 1 /\ queue'[i] = e
        /\ Contains(queue', e) /\ \A x : Contains(queue, x) => Contains(queue', x)
    BY <2>q, Sending
  <2> USE DEF e
  <2>1. TypeOK'
    BY <1>0, <1>8, <2>q, <2>e DEF SendPeerClosing, HasRoom, Events, TypeOK, Phases, PhasesOK
  <2>2. PhasesOK'
    BY <1>0, <1>8, <2>q, <2>e DEF SendPeerClosing, HasRoom, Events, TypeOK, PhasesOK, Phases
  <2>3. ASSUME NEW s \in Inbound PROVE LeavingOK(s)'
    BY <1>0, <1>8, <2>q, <2>e DEF SendPeerClosing, HasRoom, Events, TypeOK, PhasesOK, LeavingOK, Known, Registered, Leaving, Queued
  <2> QED
    BY <2>1, <2>2, <2>3 DEF HubInv, LeavingOK
<1>9. ASSUME NEW r \in Routers, InsertInbound(r) PROVE HubInv'
  <2>1. TypeOK'
    BY <1>0, <1>9 DEF InsertInbound, InsertNewRouter, CloseByLoop, Events, TypeOK, Phases, PhasesOK
  <2>2. PhasesOK'
    BY <1>0, <1>9 DEF InsertInbound, InsertNewRouter, CloseByLoop, Events, TypeOK, PhasesOK, Phases
  <2>3. ASSUME NEW s \in Inbound PROVE LeavingOK(s)'
    BY <1>0, <1>9 DEF InsertInbound, InsertNewRouter, CloseByLoop, Events, TypeOK, PhasesOK, LeavingOK, Known, Registered, Leaving, Queued
  <2> QED
    BY <2>1, <2>2, <2>3 DEF HubInv, LeavingOK
<1>10. ASSUME NEW r \in Routers, CloseDrained(r) PROVE HubInv'
  <2>1. TypeOK'
    BY <1>0, <1>10 DEF CloseDrained, CloseByTask, Events, TypeOK, Phases, PhasesOK
  <2>2. PhasesOK'
    BY <1>0, <1>10 DEF CloseDrained, CloseByTask, Events, TypeOK, PhasesOK, Phases
  <2>3. ASSUME NEW s \in Inbound PROVE LeavingOK(s)'
    BY <1>0, <1>10 DEF CloseDrained, CloseByTask, Events, TypeOK, PhasesOK, LeavingOK, Known, Registered, Leaving, Queued
  <2> QED
    BY <2>1, <2>2, <2>3 DEF HubInv, LeavingOK
<1>11. CASE ReceiveOutbound
  <2>q. queue \in Seq(Events) /\ queue # <<>> /\ queue' = Tail(queue)
    BY <1>0, <1>11 DEF ReceiveOutbound, InsertNewRouter, CloseByLoop, TypeOK
  <2>e. /\ queue' \in Seq(Events) /\ Head(queue) \in Events
        /\ 1 \in 1..Len(queue) /\ queue[1] = Head(queue)
        /\ \A i \in 1..Len(queue') :
             i + 1 \in 1..Len(queue) /\ queue'[i] = queue[i + 1] /\ i + 1 # 1
        /\ \A x : Contains(queue, x) /\ x # Head(queue) => Contains(queue', x)
    BY <2>q, Receiving
  <2>1. TypeOK'
    BY <1>0, <1>11, <2>q, <2>e DEF ReceiveOutbound, InsertNewRouter, CloseByLoop, Events, TypeOK, Phases, PhasesOK
  <2>2. PhasesOK'
    <3>1. \A k \in Keys : peers'[k] # None => phase'[peers'[k]] = "done" /\ Key[peers'[k]] = k
      BY <1>0, <1>11, <2>q, <2>e DEF ReceiveOutbound, InsertNewRouter, CloseByLoop, Events, TypeOK, PhasesOK
    <3>2. \A r \in Inbound : phase'[r] \in {"version", "ready", "up"} => loop' = [at |-> "init", router |-> r]
      BY <1>0, <1>11, <2>q, <2>e, Zenon DEF ReceiveOutbound, InsertNewRouter, CloseByLoop, Events, TypeOK, PhasesOK
    <3>3. /\ loop'.at = "closing" => phase'[loop'.router] \in {"done", "failed"}
          /\ loop'.at = "init" => loop'.router \in Inbound /\ phase'[loop'.router] \in {"version", "ready", "up"}
      BY <1>0, <1>11, <2>q, <2>e DEF ReceiveOutbound, InsertNewRouter, CloseByLoop, Events, TypeOK, PhasesOK
    <3>4. ASSUME NEW i \in 1..Len(queue'), queue'[i].type = "NewPeer"
          PROVE  IF queue'[i].router \in Inbound
                 THEN /\ phase'[queue'[i].router] = "queued"
                      /\ \A j \in 1..Len(queue') : queue'[j] = queue'[i] => j = i
                 ELSE phase'[queue'[i].router] = "done"
      <4>1. /\ i + 1 \in 1..Len(queue) /\ queue'[i] = queue[i + 1] /\ queue[i + 1] \in Events
            /\ \A j \in 1..Len(queue') : j + 1 \in 1..Len(queue) /\ queue'[j] = queue[j + 1]
        BY <2>e, <2>q, ElementOfSeq
      <4>2. queue'[i].router \in Inbound => queue[i + 1] # queue[1]
        BY <4>1, <3>4, <2>e, <1>0 DEF PhasesOK
      <4>3. queue'[i].router \in Inbound => \A j \in 1..Len(queue') : queue'[j] = queue'[i] => j = i
        BY <4>1, <3>4, <1>0 DEF PhasesOK
      <4>4. queue'[i].router \in Inbound => phase'[queue'[i].router] = "queued"
        <5>1. queue'[i].router \in Inbound /\ Head(queue).type = "NewPeer" => queue'[i].router # Head(queue).router
          BY <4>1, <4>2, <3>4, <2>e, SameEvent
        <5> QED
          BY <4>1, <5>1, <3>4, <1>0, <1>11, <2>q, <2>e DEF ReceiveOutbound, InsertNewRouter, CloseByLoop, Events, PhasesOK, TypeOK
      <4>5. queue'[i].router \notin Inbound => phase'[queue'[i].router] = "done"
        BY <4>1, <3>4, <1>0, <1>11, <2>q, <2>e DEF ReceiveOutbound, InsertNewRouter, CloseByLoop, Events, PhasesOK, TypeOK
      <4> QED
        BY <4>3, <4>4, <4>5
    <3>5. \A r \in closed' \cup drain'.left : phase'[r] \notin {"idle", "queued"}
      BY <1>0, <1>11, <2>q, <2>e DEF ReceiveOutbound, InsertNewRouter, CloseByLoop, Events, TypeOK, PhasesOK
    <3> QED
      BY <3>1, <3>2, <3>3, <3>4, <3>5 DEF PhasesOK
  <2>3. ASSUME NEW s \in Inbound PROVE LeavingOK(s)'
    BY <1>0, <1>11, <2>q, <2>e, SMTT(30) DEF ReceiveOutbound, InsertNewRouter, CloseByLoop, Events, TypeOK, PhasesOK, LeavingOK, Known, Registered, Leaving, Queued
  <2> QED
    BY <2>1, <2>2, <2>3 DEF HubInv, LeavingOK
<1>12. CASE ReceiveInbound
  <2>q. queue \in Seq(Events) /\ queue # <<>> /\ queue' = Tail(queue)
    BY <1>0, <1>12 DEF ReceiveInbound, TypeOK
  <2>e. /\ queue' \in Seq(Events) /\ Head(queue) \in Events
        /\ 1 \in 1..Len(queue) /\ queue[1] = Head(queue)
        /\ \A i \in 1..Len(queue') :
             i + 1 \in 1..Len(queue) /\ queue'[i] = queue[i + 1] /\ i + 1 # 1
        /\ \A x : Contains(queue, x) /\ x # Head(queue) => Contains(queue', x)
    BY <2>q, Receiving
  <2>1. TypeOK'
    BY <1>0, <1>12, <2>q, <2>e DEF ReceiveInbound, Events, TypeOK, Phases, PhasesOK
  <2>2. PhasesOK'
    <3>1. \A k \in Keys : peers'[k] # None => phase'[peers'[k]] = "done" /\ Key[peers'[k]] = k
      BY <1>0, <1>12, <2>q, <2>e DEF ReceiveInbound, Events, TypeOK, PhasesOK
    <3>2. \A r \in Inbound : phase'[r] \in {"version", "ready", "up"} => loop' = [at |-> "init", router |-> r]
      BY <1>0, <1>12, <2>q, <2>e DEF ReceiveInbound, Events, TypeOK, PhasesOK
    <3>3. /\ loop'.at = "closing" => phase'[loop'.router] \in {"done", "failed"}
          /\ loop'.at = "init" => loop'.router \in Inbound /\ phase'[loop'.router] \in {"version", "ready", "up"}
      BY <1>0, <1>12, <2>q, <2>e DEF ReceiveInbound, Events, TypeOK, PhasesOK
    <3>4. ASSUME NEW i \in 1..Len(queue'), queue'[i].type = "NewPeer"
          PROVE  IF queue'[i].router \in Inbound
                 THEN /\ phase'[queue'[i].router] = "queued"
                      /\ \A j \in 1..Len(queue') : queue'[j] = queue'[i] => j = i
                 ELSE phase'[queue'[i].router] = "done"
      <4>1. /\ i + 1 \in 1..Len(queue) /\ queue'[i] = queue[i + 1] /\ queue[i + 1] \in Events
            /\ \A j \in 1..Len(queue') : j + 1 \in 1..Len(queue) /\ queue'[j] = queue[j + 1]
        BY <2>e, <2>q, ElementOfSeq
      <4>2. queue'[i].router \in Inbound => queue[i + 1] # queue[1]
        BY <4>1, <3>4, <2>e, <1>0 DEF PhasesOK
      <4>3. queue'[i].router \in Inbound => \A j \in 1..Len(queue') : queue'[j] = queue'[i] => j = i
        BY <4>1, <3>4, <1>0 DEF PhasesOK
      <4>4. queue'[i].router \in Inbound => phase'[queue'[i].router] = "queued"
        <5>1. queue'[i].router \in Inbound /\ Head(queue).type = "NewPeer" => queue'[i].router # Head(queue).router
          BY <4>1, <4>2, <3>4, <2>e, SameEvent
        <5> QED
          BY <4>1, <5>1, <3>4, <1>0, <1>12, <2>q, <2>e DEF ReceiveInbound, Events, PhasesOK, TypeOK
      <4>5. queue'[i].router \notin Inbound => phase'[queue'[i].router] = "done"
        BY <4>1, <3>4, <1>0, <1>12, <2>q, <2>e DEF ReceiveInbound, Events, PhasesOK, TypeOK
      <4> QED
        BY <4>3, <4>4, <4>5
    <3>5. \A r \in closed' \cup drain'.left : phase'[r] \notin {"idle", "queued"}
      BY <1>0, <1>12, <2>q, <2>e DEF ReceiveInbound, Events, TypeOK, PhasesOK
    <3> QED
      BY <3>1, <3>2, <3>3, <3>4, <3>5 DEF PhasesOK
  <2>3. ASSUME NEW s \in Inbound PROVE LeavingOK(s)'
    BY <1>0, <1>12, <2>q, <2>e DEF ReceiveInbound, Events, TypeOK, PhasesOK, LeavingOK, Known, Registered, Leaving, Queued
  <2> QED
    BY <2>1, <2>2, <2>3 DEF HubInv, LeavingOK
<1>13. CASE ReceivePeerClosing
  <2>q. queue \in Seq(Events) /\ queue # <<>> /\ queue' = Tail(queue)
    BY <1>0, <1>13 DEF ReceivePeerClosing, Without, TypeOK
  <2>e. /\ queue' \in Seq(Events) /\ Head(queue) \in Events
        /\ 1 \in 1..Len(queue) /\ queue[1] = Head(queue)
        /\ \A i \in 1..Len(queue') :
             i + 1 \in 1..Len(queue) /\ queue'[i] = queue[i + 1] /\ i + 1 # 1
        /\ \A x : Contains(queue, x) /\ x # Head(queue) => Contains(queue', x)
    BY <2>q, Receiving
  <2>1. TypeOK'
    BY <1>0, <1>13, <2>q, <2>e DEF ReceivePeerClosing, Without, Events, TypeOK, Phases, PhasesOK
  <2>2. PhasesOK'
    <3>1. \A k \in Keys : peers'[k] # None => phase'[peers'[k]] = "done" /\ Key[peers'[k]] = k
      BY <1>0, <1>13, <2>q, <2>e DEF ReceivePeerClosing, Without, Events, TypeOK, PhasesOK
    <3>2. \A r \in Inbound : phase'[r] \in {"version", "ready", "up"} => loop' = [at |-> "init", router |-> r]
      BY <1>0, <1>13, <2>q, <2>e DEF ReceivePeerClosing, Without, Events, TypeOK, PhasesOK
    <3>3. /\ loop'.at = "closing" => phase'[loop'.router] \in {"done", "failed"}
          /\ loop'.at = "init" => loop'.router \in Inbound /\ phase'[loop'.router] \in {"version", "ready", "up"}
      BY <1>0, <1>13, <2>q, <2>e DEF ReceivePeerClosing, Without, Events, TypeOK, PhasesOK
    <3>4. ASSUME NEW i \in 1..Len(queue'), queue'[i].type = "NewPeer"
          PROVE  IF queue'[i].router \in Inbound
                 THEN /\ phase'[queue'[i].router] = "queued"
                      /\ \A j \in 1..Len(queue') : queue'[j] = queue'[i] => j = i
                 ELSE phase'[queue'[i].router] = "done"
      <4>1. /\ i + 1 \in 1..Len(queue) /\ queue'[i] = queue[i + 1] /\ queue[i + 1] \in Events
            /\ \A j \in 1..Len(queue') : j + 1 \in 1..Len(queue) /\ queue'[j] = queue[j + 1]
        BY <2>e, <2>q, ElementOfSeq
      <4>2. queue'[i].router \in Inbound => queue[i + 1] # queue[1]
        BY <4>1, <3>4, <2>e, <1>0 DEF PhasesOK
      <4>3. queue'[i].router \in Inbound => \A j \in 1..Len(queue') : queue'[j] = queue'[i] => j = i
        BY <4>1, <3>4, <1>0 DEF PhasesOK
      <4>4. queue'[i].router \in Inbound => phase'[queue'[i].router] = "queued"
        <5>1. queue'[i].router \in Inbound /\ Head(queue).type = "NewPeer" => queue'[i].router # Head(queue).router
          BY <4>1, <4>2, <3>4, <2>e, SameEvent
        <5> QED
          BY <4>1, <5>1, <3>4, <1>0, <1>13, <2>q, <2>e DEF ReceivePeerClosing, Without, Events, PhasesOK, TypeOK
      <4>5. queue'[i].router \notin Inbound => phase'[queue'[i].router] = "done"
        BY <4>1, <3>4, <1>0, <1>13, <2>q, <2>e DEF ReceivePeerClosing, Without, Events, PhasesOK, TypeOK
      <4> QED
        BY <4>3, <4>4, <4>5
    <3>5. \A r \in closed' \cup drain'.left : phase'[r] \notin {"idle", "queued"}
      BY <1>0, <1>13, <2>q, <2>e DEF ReceivePeerClosing, Without, Events, TypeOK, PhasesOK
    <3> QED
      BY <3>1, <3>2, <3>3, <3>4, <3>5 DEF PhasesOK
  <2>3. ASSUME NEW s \in Inbound PROVE LeavingOK(s)'
    <3>1. CASE s = Head(queue).router
      BY <3>1, <1>0, <1>13, <2>q, <2>e, Zenon DEF ReceivePeerClosing, Without, Events, TypeOK, PhasesOK, LeavingOK, Known, Registered
    <3>2. CASE s # Head(queue).router
      <4>1. Known(s)' => Known(s)
        BY <3>2, <1>0, <1>13, <2>q, <2>e DEF ReceivePeerClosing, Without, Events, TypeOK, Known, Registered
      <4>2. [type |-> "PeerClosing", router |-> s] # Head(queue)
        BY <3>2
      <4> QED
        BY <4>1, <4>2, <1>0, <1>13, <2>q, <2>e DEF ReceivePeerClosing, Without, Events, TypeOK, LeavingOK, Leaving, Queued
    <3> QED
      BY <3>1, <3>2
  <2> QED
    BY <2>1, <2>2, <2>3 DEF HubInv, LeavingOK
<1>14. CASE LoopSendsPeerClosing
  <2> DEFINE e == [type |-> "PeerClosing", router |-> loop.router]
  <2>q. queue \in Seq(Events) /\ e \in Events /\ queue' = Append(queue, e)
    BY <1>0, <1>14 DEF LoopSendsPeerClosing, LoopHasRoom, HasRoom, TypeOK, Events, PhasesOK
  <2> HIDE DEF e
  <2>e. /\ queue' \in Seq(Events)
        /\ \A i \in 1..Len(queue') : \/ i \in 1..Len(queue) /\ queue'[i] = queue[i]
                                     \/ i = Len(queue) + 1 /\ queue'[i] = e
        /\ Contains(queue', e) /\ \A x : Contains(queue, x) => Contains(queue', x)
    BY <2>q, Sending
  <2> USE DEF e
  <2>1. TypeOK'
    BY <1>0, <1>14, <2>q, <2>e DEF LoopSendsPeerClosing, LoopHasRoom, HasRoom, Events, TypeOK, Phases, PhasesOK
  <2>2. PhasesOK'
    BY <1>0, <1>14, <2>q, <2>e, SMTT(30) DEF LoopSendsPeerClosing, LoopHasRoom, HasRoom, Events, TypeOK, PhasesOK, Phases
  <2>3. ASSUME NEW s \in Inbound PROVE LeavingOK(s)'
    BY <1>0, <1>14, <2>q, <2>e DEF LoopSendsPeerClosing, LoopHasRoom, HasRoom, Events, TypeOK, PhasesOK, LeavingOK, Known, Registered, Leaving, Queued
  <2> QED
    BY <2>1, <2>2, <2>3 DEF HubInv, LeavingOK
<1>15. CASE TerminateAllPeers
  <2>1. TypeOK'
    BY <1>0, <1>15 DEF TerminateAllPeers, Registered, Events, TypeOK, Phases, PhasesOK
  <2>2. PhasesOK'
    BY <1>0, <1>15 DEF TerminateAllPeers, Registered, Events, TypeOK, PhasesOK, Phases
  <2>3. ASSUME NEW s \in Inbound PROVE LeavingOK(s)'
    BY <1>0, <1>15 DEF TerminateAllPeers, Registered, Events, TypeOK, PhasesOK, LeavingOK, Known, Registered, Leaving, Queued
  <2> QED
    BY <2>1, <2>2, <2>3 DEF HubInv, LeavingOK
<1>16. CASE UNCHANGED hubVars
  BY <1>0, <1>16, SMTT(30) DEF hubVars, HubInv, TypeOK, PhasesOK, LeavingOK, Known, Registered, Leaving, Queued
<1> QED
  BY <1>1, <1>2, <1>3, <1>4, <1>5, <1>6, <1>7, <1>8, <1>9, <1>10, <1>11, <1>12, <1>13, <1>14, <1>15, <1>16 DEF HubNext, Loop, Task

\* HubInv is an invariant of the hub.
LEMMA HubInvariant == HubSpec => []HubInv
PROOF
<1>1. HubInit => HubInv
  BY HubInvInit
<1>2. HubInv /\ [HubNext]_hubVars => HubInv'
  BY HubInvStep
<1> QED
  BY <1>1, <1>2, PTL DEF HubSpec

-----------------------------------------------------------------------------
(* Theorems *)

\* An inbound router that is closed while it is in the table of peers is on its
\* way out of it, with a PeerClosing that nothing can overtake: whatever closes
\* it, before, while or after the hub registers it (Router::close, hub.rs).
THEOREM ClosedInboundLeave == HubSpec => []ClosedInboundPeersLeave
PROOF
<1>1. HubInv => ClosedInboundPeersLeave
  BY DEF HubInv, ClosedInboundPeersLeave, Known
<1> QED
  BY <1>1, HubInvariant, PTL

=============================================================================
