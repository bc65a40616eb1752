------------------------------ MODULE Handshake ------------------------------
(***************************************************************************)
(* The handshake of two nodes (protocol/p2p/src/handshake.rs) as           *)
(* initialize_connection runs it (protocol/flows/src/flow_context.rs), with*)
(* the receive loop that routes what arrives (core/router.rs).  Messages   *)
(* are types; a version message carries the network and the protocol       *)
(* version of its sender, which are read from its node here.               *)
(***************************************************************************)
EXTENDS Naturals, Sequences

CONSTANTS
  a, b,       \* the two ends
  Protos,     \* protocol versions nodes may have
  Networks,
  Timeouts    \* BOOLEAN: can a wait time out?

Nodes == {a, b}
Other(n) == IF n = a THEN b ELSE a

VARIABLES
  proto, network,  \* of each node
  net,     \* messages on the way to each node, in order
  box,     \* incoming routes: received types not yet dequeued
  step,    \* of initialize_connection: what is sent and what was dequeued
  applied, \* protocol version of the registered flows, 0 before
  result,  \* "wait", "up" or "failed"
  closed,  \* Router::close was called
  ended,   \* the router is dropped: its outgoing stream ends
  talked   \* bound: one flow message each

vars == <<proto, network, net, box, step, applied, result, closed, ended, talked>>

Init ==
  /\ proto \in [Nodes -> Protos] /\ network \in [Nodes -> Networks]
  /\ net = [n \in Nodes |-> <<>>] /\ box = [n \in Nodes |-> {}]
  /\ step = [n \in Nodes |-> {}] /\ applied = [n \in Nodes |-> 0]
  /\ result = [n \in Nodes |-> "wait"]
  /\ closed = {} /\ ended = {} /\ talked = {}

\* enqueue; what is sent to a router that was dropped is lost.
Send(n, m) == net' = [net EXCEPT ![Other(n)] = Append(@, m)]
Done(n, m) == step' = [step EXCEPT ![n] = @ \cup {m}]

\* send_version_flow
SendVersion(n) ==
  /\ result[n] = "wait" /\ "sent" \notin step[n]
  /\ Done(n, "sent") /\ Send(n, "version")
  /\ UNCHANGED <<proto, network, box, applied, result, closed, ended, talked>>

\* Both flows run concurrently.
ReceivesVersion(n) ==
  TRUE

\* receive_version_flow
ReceiveVersion(n) ==
  /\ result[n] = "wait" /\ "version" \in box[n] /\ "version" \notin step[n]
  /\ ReceivesVersion(n)
  /\ Done(n, "version") /\ Send(n, "verack")
  /\ UNCHANGED <<proto, network, box, applied, result, closed, ended, talked>>

ReceiveVerack(n) ==
  /\ result[n] = "wait" /\ "sent" \in step[n] /\ "verack" \in box[n] /\ "verack" \notin step[n]
  /\ Done(n, "verack")
  /\ UNCHANGED <<proto, network, net, box, applied, result, closed, ended, talked>>

\* The flows registered for the version of the peer; 0 is VersionMismatch.
AppliedVersion(own, peer) ==
  IF peer >= own THEN own ELSE IF peer \in {7, 8} THEN peer ELSE 0

Accepts(n) ==
  /\ network[n] = network[Other(n)]
  /\ AppliedVersion(proto[n], proto[Other(n)]) # 0

Register(n) ==
  applied' = [applied EXCEPT ![n] = AppliedVersion(proto[n], proto[Other(n)])]

\* The version is accepted, flows are registered, and only then is the peer told.
SendReady(n) ==
  /\ result[n] = "wait" /\ {"version", "verack"} \subseteq step[n] /\ "ready" \notin step[n]
  /\ Accepts(n)
  /\ Register(n)
  /\ Done(n, "ready") /\ Send(n, "ready")
  /\ UNCHANGED <<proto, network, box, result, closed, ended, talked>>

\* The peer is ready: flows are launched, the handshake routes are dropped.
ReceiveReady(n) ==
  /\ result[n] = "wait" /\ "ready" \in step[n] /\ "ready" \in box[n]
  /\ result' = [result EXCEPT ![n] = "up"]
  /\ UNCHANGED <<proto, network, net, box, step, applied, closed, ended, talked>>

Awaited(n) ==
  IF "ready" \in step[n] THEN {"ready"} ELSE {"version", "verack"} \ step[n]

\* An error of initialize_connection: a reject message, unless the router was
\* closed, and close.
Fails(n) ==
  /\ result' = [result EXCEPT ![n] = "failed"]
  /\ closed' = closed \cup {n}
  /\ UNCHANGED <<proto, network, box, step, applied, ended, talked>>

Mismatch(n) ==
  /\ result[n] = "wait" /\ Awaited(n) = {} /\ ~Accepts(n)
  /\ Fails(n) /\ Send(n, "reject")

Timeout(n) ==
  /\ Timeouts /\ result[n] = "wait" /\ Awaited(n) \ box[n] # {} /\ n \notin closed
  /\ Fails(n) /\ Send(n, "reject")

\* A wait ends with ConnectionClosed when the senders of its route are dropped.
WaitIsCut(n) ==
  /\ result[n] = "wait" /\ n \in closed /\ Awaited(n) \ box[n] # {}
  /\ Fails(n) /\ UNCHANGED net

HandshakeTypes == {"version", "verack", "ready"}

\* Mutant: the loop goes on after a reject or the end of the stream.
GoesOn(n, m) ==
  \/ m \in HandshakeTypes /\ result[n] = "wait"
  \/ m = "flow" /\ applied[n] # 0
  \/ m \in {"reject", "end"}

\* route_to_flow: is there a route for the type?
HasRoute(n, m) ==
  \/ m \in HandshakeTypes /\ result[n] = "wait"
  \/ m = "flow" /\ applied[n] # 0

\* The receive loop: a reject, the end of the stream or a message without a route
\* ends it and closes the router.
Route(n) ==
  /\ net[n] # <<>> /\ n \notin closed
  /\ net' = [net EXCEPT ![n] = Tail(@)]
  /\ IF HasRoute(n, Head(net[n]))
     THEN box' = [box EXCEPT ![n] = @ \cup {Head(net[n])}] /\ UNCHANGED closed
     ELSE closed' = closed \cup {n} /\ UNCHANGED box
  /\ UNCHANGED <<proto, network, step, applied, result, ended, talked>>

\* A launched flow speaks.
Talk(n) ==
  /\ result[n] = "up" /\ n \notin talked
  /\ talked' = talked \cup {n}
  /\ Send(n, "flow")
  /\ UNCHANGED <<proto, network, box, step, applied, result, closed, ended>>

\* Neither initialize_connection nor a flow holds a closed router for long.
IsReleased(n) ==
  n \in closed /\ result[n] # "wait" /\ n \notin ended

\* The last reference to a closed router goes.
End(n) ==
  /\ IsReleased(n)
  /\ ended' = ended \cup {n}
  /\ Send(n, "end")
  /\ UNCHANGED <<proto, network, box, step, applied, result, closed, talked>>

Step(n) ==
  \/ SendVersion(n) \/ ReceiveVersion(n) \/ ReceiveVerack(n) \/ SendReady(n) \/ ReceiveReady(n)
  \/ Mismatch(n) \/ WaitIsCut(n) \/ Route(n) \/ Talk(n) \/ End(n)

Next == \E n \in Nodes : Step(n) \/ Timeout(n)

Spec == Init /\ [][Next]_vars

-----------------------------------------------------------------------------
(* Properties *)

\* The ends agree in the end: both connected, or both closed, also when one of
\* them is up already when the other gives up.
OutcomesAgree ==
  \/ <>[](closed = {} /\ \A n \in Nodes : result[n] = "up")
  \/ <>[](closed = Nodes)

=============================================================================
