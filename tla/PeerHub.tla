------------------------------- MODULE PeerHub -------------------------------
(***************************************************************************)
(* The table of peers (protocol/p2p/src/core/hub.rs), the routers of their *)
(* connections (router.rs) and the two ways to a connection                *)
(* (connection_handler.rs): an outbound one is initialized by the task     *)
(* that dials, an inbound one by the event loop of the hub itself.  Both   *)
(* and every router that closes send an event to the hub, through one      *)
(* bounded channel the hub also sends to when it closes a router itself.   *)
(***************************************************************************)
EXTENDS Naturals, Sequences, SequencesExt

CONSTANTS
  Routers,      \* connections, each used once
  Outbound,     \* those that are dialled
  Keys,
  Key,          \* key of the peer at the other end: identity and ip
  ChannelSize,  \* hub_channel_size
  None

ASSUME HubAssumption ==
  /\ Key \in [Routers -> Keys] /\ Outbound \subseteq Routers
  /\ None \notin Routers

VARIABLES
  phase,   \* of each connection: idle, queued, version, ready, up, done, failed
  closed,  \* routers whose shutdown signal is taken
  notify,  \* routers with a task in close that is about to send PeerClosing
  queue,   \* hub channel
  peers,   \* Hub::peers
  loop,    \* the event loop: [at, router]
  drain    \* terminate_all_peers: [left, at]

hubVars == <<phase, closed, notify, queue, peers, loop, drain>>

Inbound == Routers \ Outbound
Idle == [at |-> "recv", router |-> None]

HubInit ==
  /\ phase = [r \in Routers |-> "idle"]
  /\ closed = {} /\ notify = {} /\ queue = <<>>
  /\ peers = [k \in Keys |-> None]
  /\ loop = Idle /\ drain = [left |-> {}, at |-> None]

HasRoom ==
  Len(queue) < ChannelSize

Registered(r) == peers[Key[r]] = r

\* Mutant: nobody is told.
CloseQuietly(r) ==
  /\ closed' = closed \cup {r}
  /\ UNCHANGED notify

\* Router::close by a task other than the event loop: only the first call counts.
CloseByTask(r) ==
  /\ closed' = closed \cup {r}
  /\ notify' = IF r \in closed THEN notify ELSE notify \cup {r}

\* Router::close by the event loop, which then waits for room in its own channel.
CloseByLoop(r) ==
  /\ closed' = closed \cup {r}
  /\ loop' = IF r \in closed THEN Idle ELSE [at |-> "closing", router |-> r]

-----------------------------------------------------------------------------
(* Connections *)

\* message_stream: the router of an inbound connection waits for the hub.
Accept(r) ==
  /\ r \in Inbound /\ phase[r] = "idle" /\ HasRoom
  /\ phase' = [phase EXCEPT ![r] = "queued"]
  /\ queue' = Append(queue, [type |-> "NewPeer", router |-> r])
  /\ UNCHANGED <<closed, notify, peers, loop, drain>>

\* connect
Dial(r) ==
  /\ r \in Outbound /\ phase[r] = "idle"
  /\ phase' = [phase EXCEPT ![r] = "version"]
  /\ UNCHANGED <<closed, notify, queue, peers, loop, drain>>

\* initialize_connection up to the check for duplicates, which reads the table ...
CheckPeer(r) ==
  /\ phase[r] = "version"
  /\ peers[Key[r]] = None
  /\ phase' = [phase EXCEPT ![r] = "ready"]
  /\ UNCHANGED <<closed, notify, queue, peers, loop, drain>>

\* ... and the exchange of ready messages, after which flows are launched.  What
\* was received before the router was closed is still read.
ExchangeReady(r) ==
  /\ phase[r] = "ready"
  /\ phase' = [phase EXCEPT ![r] = "up"]
  /\ UNCHANGED <<closed, notify, queue, peers, loop, drain>>

\* A duplicate, a mismatch, a timeout or a closed router: the task that
\* initializes the connection closes the router.
InitializeFails(r) ==
  /\ phase[r] \in {"version", "ready"}
  /\ phase' = [phase EXCEPT ![r] = "failed"]
  /\ IF r \in Outbound
     THEN CloseByTask(r) /\ UNCHANGED loop
     ELSE CloseByLoop(r) /\ UNCHANGED notify
  /\ UNCHANGED <<queue, peers, drain>>

\* connect, after the initialization.
SendNewPeer(r) ==
  /\ r \in Outbound /\ phase[r] = "up" /\ HasRoom
  /\ phase' = [phase EXCEPT ![r] = "done"]
  /\ queue' = Append(queue, [type |-> "NewPeer", router |-> r])
  /\ UNCHANGED <<closed, notify, peers, loop, drain>>

\* The receive loop ends, a flow fails or terminate is called; the receive loop
\* starts with the initialization.
Close(r) ==
  /\ phase[r] \in {"version", "ready", "up", "done"} /\ r \notin closed
  /\ CloseByTask(r)
  /\ UNCHANGED <<phase, queue, peers, loop, drain>>

SendPeerClosing(r) ==
  /\ r \in notify /\ HasRoom
  /\ notify' = notify \ {r}
  /\ queue' = Append(queue, [type |-> "PeerClosing", router |-> r])
  /\ UNCHANGED <<phase, closed, peers, loop, drain>>

-----------------------------------------------------------------------------
(* The event loop *)

\* insert_new_router
InsertNewRouter(r) ==
  /\ peers' = [peers EXCEPT ![Key[r]] = r]
  /\ IF peers[Key[r]] = None
     THEN loop' = Idle /\ UNCHANGED closed
     ELSE CloseByLoop(peers[Key[r]])

\* Only the same router is removed.
Without(r) ==
  IF Registered(r) THEN [peers EXCEPT ![Key[r]] = None] ELSE peers

ReceiveOutbound ==
  /\ loop = Idle /\ queue # <<>> /\ Head(queue).type = "NewPeer"
  /\ Head(queue).router \in Outbound
  /\ queue' = Tail(queue)
  /\ InsertNewRouter(Head(queue).router)
  /\ UNCHANGED <<phase, notify, drain>>

\* The handshake with an inbound peer is part of handling its event.
ReceiveInbound ==
  /\ loop = Idle /\ queue # <<>> /\ Head(queue).type = "NewPeer"
  /\ Head(queue).router \in Inbound
  /\ queue' = Tail(queue)
  /\ loop' = [at |-> "init", router |-> Head(queue).router]
  /\ phase' = [phase EXCEPT ![Head(queue).router] = "version"]
  /\ UNCHANGED <<closed, notify, peers, drain>>

InsertInbound(r) ==
  /\ loop.router = r /\ phase[r] = "up"
  /\ phase' = [phase EXCEPT ![r] = "done"]
  /\ InsertNewRouter(r)
  /\ UNCHANGED <<notify, queue, drain>>

ReceivePeerClosing ==
  /\ loop = Idle /\ queue # <<>> /\ Head(queue).type = "PeerClosing"
  /\ queue' = Tail(queue)
  /\ peers' = Without(Head(queue).router)
  /\ UNCHANGED <<phase, closed, notify, loop, drain>>

LoopHasRoom ==
  HasRoom

LoopSendsPeerClosing ==
  /\ loop.at = "closing" /\ LoopHasRoom
  /\ queue' = Append(queue, [type |-> "PeerClosing", router |-> loop.router])
  /\ loop' = Idle
  /\ UNCHANGED <<phase, closed, notify, peers, drain>>

-----------------------------------------------------------------------------
(* terminate_all_peers: the table is emptied at once, its routers are closed *)
(* one after the other.                                                      *)

TerminateAllPeers ==
  /\ drain.left = {} /\ \E k \in Keys : peers[k] # None
  /\ drain' = [drain EXCEPT !.left = {r \in Routers : Registered(r)}]
  /\ peers' = [k \in Keys |-> None]
  /\ UNCHANGED <<phase, closed, notify, queue, loop>>

CloseDrained(r) ==
  /\ r \in drain.left /\ drain.at \notin notify
  /\ CloseByTask(r)
  /\ drain' = [left |-> drain.left \ {r}, at |-> IF r \in closed THEN None ELSE r]
  /\ UNCHANGED <<phase, queue, peers, loop>>

Loop == ReceiveOutbound \/ ReceiveInbound \/ ReceivePeerClosing \/ LoopSendsPeerClosing

Task(r) ==
  \/ Accept(r) \/ Dial(r) \/ CheckPeer(r) \/ ExchangeReady(r) \/ InitializeFails(r)
  \/ SendNewPeer(r) \/ Close(r) \/ SendPeerClosing(r) \/ InsertInbound(r) \/ CloseDrained(r)

HubNext == Loop \/ TerminateAllPeers \/ \E r \in Routers : Task(r)

HubSpec == HubInit /\ [][HubNext]_hubVars

\* Every task that can go on does, and every initialization ends (its waits have
\* timeouts).  Peers need not connect, dial or close.
HubFairness ==
  /\ WF_hubVars(Loop)
  /\ \A r \in Routers :
       /\ WF_hubVars(SendPeerClosing(r)) /\ WF_hubVars(SendNewPeer(r)) /\ WF_hubVars(CloseDrained(r))
       /\ WF_hubVars(CheckPeer(r) \/ ExchangeReady(r) \/ InitializeFails(r))
       /\ WF_hubVars(InsertInbound(r))

-----------------------------------------------------------------------------
(* Properties *)

Queued(type, r) == Contains(queue, [type |-> type, router |-> r])

Leaving(r) ==
  \/ r \in notify \/ Queued("PeerClosing", r)
  \/ loop.at = "closing" /\ loop.router = r

\* An inbound router that is closed while it is in the table of peers is on its
\* way out of it: a task or the loop is about to send its PeerClosing, or that is in
\* the channel, behind the event that put it into the table (Router::close, hub.rs).
ClosedInboundPeersLeave ==
  \A r \in Inbound : Registered(r) /\ r \in closed => Leaving(r)

=============================================================================
