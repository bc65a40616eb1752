------------------------------ MODULE Network ------------------------------
(***************************************************************************)
(* How peers are met and kept, for TLC: the handshake of two nodes, the    *)
(* table of peers and the connection manager, and what peers that stay are *)
(* good for, the relay of blocks.  They share no state here, and a         *)
(* behaviour is one of either of them, which `component' names; the others *)
(* rest in an initial state.                                               *)
(***************************************************************************)
EXTENDS PeerHub

VARIABLES
  component,
  proto, network, net, box, step, applied, result, shut, ended, talked,
  book, banned, active, requests, lock, manager, ban, budget, permanent,
  bodies, processing, orphans, blockRequests, flow, tasks, invs, freed

handshakeVars == <<proto, network, net, box, step, applied, result, shut, ended, talked>>
connectionVars == <<book, banned, active, requests, lock, manager, ban, budget, permanent>>
relayVars == <<bodies, processing, orphans, blockRequests, flow, tasks, invs, freed>>
vars == <<component, hubVars, handshakeVars, connectionVars, relayVars>>

\* Two connections are accepted and one is dialled, all with one peer.
OnePeer == [r \in Routers |-> "k"]

\* Nodes of four protocol versions and two networks, with timeouts.
Shake == INSTANCE Handshake WITH
  closed <- shut,
  a <- "a", b <- "b", Protos <- 6..9, Networks <- {"main", "test"}, Timeouts <- TRUE

\* x answers and y does not; the node at x also connects to this one, from m, and so
\* does another one, from n.
Conn == INSTANCE Connections WITH
  loop <- manager,
  Addresses <- {"x", "y"}, InAddresses <- {"m", "n"},
  Ip <- [s \in {"x", "y", "m", "n"} |-> CASE s \in {"x", "m"} -> 1 [] s = "y" -> 2 [] OTHER -> 3],
  PeerKey <- [s \in {"x", "y", "m", "n"} |-> IF s = "m" THEN "x" ELSE s],
  Reachable <- {"x"}, OutboundTarget <- 1, InboundLimit <- 0, MaxFailed <- 1,
  MaxAddresses <- 1, Seeds <- {"y"}, MaxRequests <- 2, MaxLeaves <- 1, MaxGossip <- 1

\* The chain g, a, b with the tips c and d; each peer announces one of them, q also
\* the block b.  A peer may fail.
Relay == INSTANCE BlockRelay WITH
  requests <- blockRequests,
  Blocks <- {"a", "b", "c", "d"}, Genesis <- "g",
  Parents <- [a |-> {"g"}, b |-> {"a"}, c |-> {"b"}, d |-> {"b"}],
  Peers <- {"p", "q"},
  Announcements <- {[peer |-> "p", block |-> "c"], [peer |-> "q", block |-> "d"],
                    [peer |-> "q", block |-> "b"]},
  MaxOrphans <- 3, MayFail <- TRUE, MayBeFar <- FALSE

Init ==
  /\ component \in {"hub", "handshake", "connections", "relay"}
  /\ HubInit /\ Shake!Init /\ Conn!Init /\ Relay!Init
  /\ component # "handshake" => \A n \in Shake!Nodes : proto[n] = 7 /\ network[n] = "main"

AtHub == component = "hub" /\ UNCHANGED <<component, handshakeVars, connectionVars, relayVars>>
AtHandshake == component = "handshake" /\ UNCHANGED <<component, hubVars, connectionVars, relayVars>>
AtConnections == component = "connections" /\ UNCHANGED <<component, hubVars, handshakeVars, relayVars>>
AtRelay == component = "relay" /\ UNCHANGED <<component, hubVars, handshakeVars, connectionVars>>

Next ==
  \/ AtHub /\ HubNext
  \/ AtHandshake /\ Shake!Next
  \/ AtConnections /\ Conn!Next
  \/ AtRelay /\ Relay!Next

\* Both ends of a handshake go on while they can (a timeout need not happen).  The
\* connection manager runs at every tick, and its back-offs end.  Flows, tasks and
\* consensus go on; no IBD need come to revalidate the orphans.
Fairness ==
  /\ \A n \in Shake!Nodes :
       WF_vars(AtHandshake /\ Shake!Step(n)) /\ WF_vars(AtHandshake /\ Shake!Route(n))
  /\ WF_vars(AtConnections /\ Conn!LoopStep)
  /\ \A x \in {"x", "y"} : SF_vars(AtConnections /\ Conn!RetryIsDue(x))
  /\ \A p \in {"p", "q"} : WF_vars(AtRelay /\ Relay!FlowStep(p))
  /\ \A b \in {"a", "b", "c", "d"} :
       WF_vars(AtRelay /\ Relay!ProcessBlock(b)) /\ WF_vars(AtRelay /\ Relay!OnNewBlock(b))

Spec == Init /\ [][Next]_vars /\ Fairness

-----------------------------------------------------------------------------
(* Properties *)

\* The ends of a handshake agree in the end (Handshake).
OutcomesAgree == component = "handshake" => Shake!OutcomesAgree

\* The node of a permanent request is a peer again and again (Connections).
PermanentIsConnected == Conn!PermanentIsConnected

\* Every announced block is in the end part of the DAG, but for the two ways to
\* miss one (BlockRelay).
AnnouncedIsInserted == component = "relay" => Relay!AnnouncedIsInserted

=============================================================================
