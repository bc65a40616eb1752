----------------------------- MODULE Connections -----------------------------
(***************************************************************************)
(* The connection manager (components/connectionmanager/src/lib.rs) and    *)
(* the address manager it picks from (components/addressmanager/src/lib.rs)*)
(* The hub is the set of active peers: an outbound one has the address it  *)
(* was dialled at, an inbound one an address of its own.  The hub knows a  *)
(* peer by its key, the identity of the node and its ip, and has one peer  *)
(* of a key.  A request is due or waits for its next attempt.              *)
(***************************************************************************)
EXTENDS Integers, FiniteSets, FiniteSetsExt, Functions

CONSTANTS
  Addresses,       \* where nodes listen
  InAddresses,     \* where inbound connections come from
  Ip,              \* ip of each of both
  PeerKey,         \* key of the peer at each of both
  Reachable,       \* addresses a dial succeeds at
  OutboundTarget, InboundLimit,
  MaxFailed,       \* MAX_CONNECTION_FAILED_COUNT
  MaxAddresses,    \* MAX_ADDRESSES
  Seeds,           \* addresses the DNS seeders return
  MaxRequests,     \* bound: add_connection_request, ban and unban calls
  MaxLeaves,       \* bound: connections peers end or open
  MaxGossip,       \* bound: addresses from peers
  None

VARIABLES
  book,      \* address store: address -> connection_failed_count
  banned,    \* ips in the banned address store
  active,    \* peers of the hub: [addr, out]
  requests,  \* connection_requests: address -> [permanent, due, attempts]
  lock,      \* its lock is held by the loop
  loop,      \* handle_event: [at, snapshot, todo, kept, missing, iter, batch]
  ban,       \* ConnectionManager::ban: [at, ip, left]
  budget,    \* [requests, leaves, gossip]
  permanent  \* history: addresses whose last request was a permanent one

vars == <<book, banned, active, requests, lock, loop, ban, budget, permanent>>

NoFunction == [x \in {} |-> None]
IdleLoop == [at |-> "idle", snapshot |-> {}, todo |-> {}, kept |-> NoFunction,
             missing |-> 0, iter |-> {}, batch |-> NoFunction]
NoBan == [at |-> "idle", ip |-> None, left |-> {}]

Init ==
  /\ book = NoFunction /\ banned = {} /\ active = {} /\ requests = NoFunction
  /\ lock = FALSE /\ loop = IdleLoop /\ ban = NoBan
  /\ budget = [requests |-> MaxRequests, leaves |-> MaxLeaves, gossip |-> MaxGossip]
  /\ permanent = {}

-----------------------------------------------------------------------------
(* The address store *)

Put(f, x, v) == [y \in DOMAIN f \cup {x} |-> IF y = x THEN v ELSE f[y]]
Without(f, xs) == Restrict(f, DOMAIN f \ xs)

\* keep_limit: what exceeds the limit is one of those that failed most.
KeepLimit(f) ==
  IF Cardinality(DOMAIN f) <= MaxAddresses THEN {f}
  ELSE {Without(f, {x}) : x \in {y \in DOMAIN f : \A z \in DOMAIN f : f[z] <= f[y]}}

AddAddress(f, x) == IF x \in DOMAIN f THEN {f} ELSE KeepLimit(Put(f, x, 1))

MarkFailure(f, x) ==
  IF x \notin DOMAIN f THEN f
  ELSE IF f[x] + 1 > MaxFailed THEN Without(f, {x}) ELSE Put(f, x, f[x] + 1)

MarkSuccess(f, x) == IF x \in DOMAIN f THEN Put(f, x, 0) ELSE f

\* A connection that exists is no failure of its address.
Mark(f, x, res) ==
  IF res = "ok" THEN MarkSuccess(f, x) ELSE IF res = "exists" THEN f ELSE MarkFailure(f, x)

MarkAll(f, batch) ==
  [x \in {y \in DOMAIN f : y \in DOMAIN batch => y \in DOMAIN Mark(f, y, batch[y])} |->
     IF x \in DOMAIN batch THEN Mark(f, x, batch[x])[x] ELSE f[x]]

\* ReceiveAddressesFlow, or the address a peer gives in its version.
Gossip(x) ==
  /\ budget.gossip > 0
  /\ budget' = [budget EXCEPT !.gossip = @ - 1]
  /\ book' \in AddAddress(book, x)
  /\ UNCHANGED <<banned, active, requests, lock, loop, ban, permanent>>

-----------------------------------------------------------------------------
(* Requests of the operator *)

\* Mutant: the loop gives the lock up while it dials.
NeverLocked ==
  FALSE

Locked ==
  lock

AddConnectionRequest(x, isPermanent) ==
  /\ budget.requests > 0 /\ ~Locked
  /\ budget' = [budget EXCEPT !.requests = @ - 1]
  /\ requests' = Put(requests, x, [permanent |-> isPermanent, due |-> TRUE, attempts |-> 0])
  /\ permanent' = IF isPermanent THEN permanent \cup {x} ELSE permanent \ {x}
  /\ UNCHANGED <<book, banned, active, lock, loop, ban>>

HasPermanent(ip) == \E x \in DOMAIN requests : requests[x].permanent /\ Ip[x] = ip

HasPeer(x) == \E p \in active : PeerKey[p.addr] = PeerKey[x]

\* Hub::terminate, which goes by the key of the peers.
Terminated(ps) == {q \in active : \A p \in ps : PeerKey[q.addr] # PeerKey[p.addr]}

\* ban: refused for the ip of a permanent request; the peers of now are
\* terminated one after the other and then the ip is banned.
BanBegins(ip) ==
  /\ ban = NoBan /\ budget.requests > 0 /\ ~Locked
  /\ budget' = [budget EXCEPT !.requests = @ - 1]
  /\ IF HasPermanent(ip) THEN UNCHANGED ban
     ELSE ban' = [at |-> "terminate", ip |-> ip, left |-> {p \in active : Ip[p.addr] = ip}]
  /\ UNCHANGED <<book, banned, active, requests, lock, loop, permanent>>

BanTerminates(p) ==
  /\ ban.at = "terminate" /\ p \in ban.left
  /\ ban' = [ban EXCEPT !.left = @ \ {p}]
  /\ active' = Terminated({p})
  /\ UNCHANGED <<book, banned, requests, lock, loop, budget, permanent>>

BanIsStored ==
  /\ ban.at = "terminate" /\ ban.left = {}
  /\ banned' = banned \cup {ban.ip}
  /\ book' = Without(book, {x \in DOMAIN book : Ip[x] = ban.ip})
  /\ ban' = NoBan
  /\ UNCHANGED <<active, requests, lock, loop, budget, permanent>>

\* unban_call, or is_banned when a day has passed.
Unban(ip) ==
  /\ ip \in banned
  /\ banned' = banned \ {ip}
  /\ UNCHANGED <<book, active, requests, lock, loop, ban, budget, permanent>>

-----------------------------------------------------------------------------
(* Peers *)

PeerConnects(x) ==
  /\ budget.leaves > 0 /\ ~HasPeer(x)
  /\ budget' = [budget EXCEPT !.leaves = @ - 1]
  /\ active' = active \cup {[addr |-> x, out |-> FALSE]}
  /\ UNCHANGED <<book, banned, requests, lock, loop, ban, permanent>>

PeerLeaves(p) ==
  /\ p \in active /\ budget.leaves > 0
  /\ budget' = [budget EXCEPT !.leaves = @ - 1]
  /\ active' = active \ {p}
  /\ UNCHANGED <<book, banned, requests, lock, loop, ban, permanent>>

\* connect_peer, with PeerAlreadyExists as "exists"
Outcome(x) ==
  IF x \notin Reachable THEN "err" ELSE IF HasPeer(x) THEN "exists" ELSE "ok"

Connected(x) == IF Outcome(x) = "ok" THEN active \cup {[addr |-> x, out |-> TRUE]} ELSE active

\* initialize_connection adds the address of an outbound peer.
BookAfter(x) == IF Outcome(x) = "ok" THEN AddAddress(book, x) ELSE {book}

-----------------------------------------------------------------------------
(* handle_event *)

Start ==
  /\ loop.at = "idle"
  /\ loop' = [loop EXCEPT !.at = "lock", !.snapshot = active]
  /\ UNCHANGED <<book, banned, active, requests, lock, ban, budget, permanent>>

LockRequests ==
  /\ loop.at = "lock" /\ ~lock
  /\ lock' = TRUE
  /\ loop' = [loop EXCEPT !.at = "requests", !.todo = DOMAIN requests, !.kept = NoFunction]
  /\ UNCHANGED <<book, banned, active, requests, ban, budget, permanent>>

InSnapshot(x) ==
  \E p \in loop.snapshot : p.addr = x

\* Permanent requests are kept, with a back-off after a failure; attempts count up
\* to MAX_ACCOUNTABLE_ATTEMPTS here, which is all the back-off depends on.
AfterAttempt(x, res) ==
  IF ~requests[x].permanent THEN loop.kept
  ELSE Put(loop.kept, x,
           IF res = "ok" THEN [permanent |-> TRUE, due |-> TRUE, attempts |-> 0]
           ELSE [permanent |-> TRUE, due |-> FALSE, attempts |-> Min({requests[x].attempts + 1, 4})])

HandleRequest(x) ==
  /\ loop.at = "requests" /\ x \in loop.todo
  /\ IF InSnapshot(x) /\ ~requests[x].permanent
     THEN /\ loop' = [loop EXCEPT !.todo = @ \ {x}]
          /\ UNCHANGED <<book, active>>
     ELSE IF ~InSnapshot(x) /\ requests[x].due
     THEN /\ active' = Connected(x) /\ book' \in BookAfter(x)
          /\ loop' = [loop EXCEPT !.todo = @ \ {x}, !.kept = AfterAttempt(x, Outcome(x))]
     ELSE /\ loop' = [loop EXCEPT !.todo = @ \ {x}, !.kept = Put(@, x, requests[x])]
          /\ UNCHANGED <<book, active>>
  /\ UNCHANGED <<banned, requests, lock, ban, budget, permanent>>

ActiveOutbound == {p.addr : p \in {q \in loop.snapshot : q.out}}

\* The requests are replaced; then outbound connections, if any is missing.
UnlockRequests ==
  /\ loop.at = "requests" /\ loop.todo = {}
  /\ requests' = loop.kept /\ lock' = FALSE
  /\ loop' = IF Cardinality(ActiveOutbound) >= OutboundTarget
             THEN [loop EXCEPT !.at = "inbound"]
             ELSE [loop EXCEPT !.at = "outbound", !.iter = DOMAIN book \ ActiveOutbound,
                               !.missing = OutboundTarget - Cardinality(ActiveOutbound)]
  /\ UNCHANGED <<book, banned, active, ban, budget, permanent>>

\* next_attempt has come.
RetryIsDue(x) ==
  /\ ~lock /\ x \in DOMAIN requests /\ ~requests[x].due
  /\ requests' = [requests EXCEPT ![x].due = TRUE]
  /\ UNCHANGED <<book, banned, active, lock, loop, ban, budget, permanent>>

\* A batch of as many addresses as are missing, from the prioritized iterator.
TakeBatch(xs) ==
  /\ loop.at = "outbound" /\ loop.missing > 0 /\ loop.iter # {}
  /\ Cardinality(xs) = Min({loop.missing, Cardinality(loop.iter)})
  /\ loop' = [loop EXCEPT !.at = "dialling", !.iter = @ \ xs, !.batch = [x \in xs |-> None]]
  /\ UNCHANGED <<book, banned, active, requests, lock, ban, budget, permanent>>

DialOne(x) ==
  /\ loop.at = "dialling" /\ x \in DOMAIN loop.batch /\ loop.batch[x] = None
  /\ loop' = [loop EXCEPT !.batch[x] = Outcome(x)]
  /\ active' = Connected(x) /\ book' \in BookAfter(x)
  /\ UNCHANGED <<banned, requests, lock, ban, budget, permanent>>

FinishBatch ==
  /\ loop.at = "dialling" /\ \A x \in DOMAIN loop.batch : loop.batch[x] # None
  /\ book' = MarkAll(book, loop.batch)
  /\ LET ok == {x \in DOMAIN loop.batch : loop.batch[x] = "ok"} IN
     loop' = [loop EXCEPT !.at = "outbound", !.batch = NoFunction,
                          !.missing = loop.missing - Cardinality(ok)]
  /\ UNCHANGED <<banned, active, requests, lock, ban, budget, permanent>>

\* dns_seed_single: what the seeders answer is added, one after the other.
AddSeeds(f) == FoldSet(LAMBDA x, fs : UNION {AddAddress(g, x) : g \in fs}, {f}, Seeds)

\* Nothing is left to try: the DNS seeders are asked when connections are missing.
FinishOutbound ==
  /\ loop.at = "outbound" /\ (loop.missing = 0 \/ loop.iter = {})
  /\ IF loop.missing > 0 THEN book' \in AddSeeds(book) ELSE UNCHANGED book
  /\ loop' = [loop EXCEPT !.at = "inbound"]
  /\ UNCHANGED <<banned, active, requests, lock, ban, budget, permanent>>

Excess(n) ==
  IF n > InboundLimit THEN n - InboundLimit ELSE 0

\* handle_inbound_connections: random inbound peers above the limit go.
HandleInbound(ps) ==
  LET inbound == {p \in loop.snapshot : ~p.out} IN
  /\ loop.at = "inbound"
  /\ ps \subseteq inbound /\ Cardinality(ps) = Excess(Cardinality(inbound))
  /\ active' = Terminated(ps)
  /\ loop' = IdleLoop
  /\ UNCHANGED <<book, banned, requests, lock, ban, budget, permanent>>

LoopStep ==
  \/ Start \/ LockRequests \/ UnlockRequests \/ FinishBatch \/ FinishOutbound
  \/ \E x \in Addresses : HandleRequest(x) \/ DialOne(x)
  \/ \E xs \in SUBSET loop.iter : TakeBatch(xs)
  \/ \E ps \in SUBSET loop.snapshot : HandleInbound(ps)

Environment ==
  \/ \E x \in Addresses : Gossip(x) \/ \E isPermanent \in BOOLEAN : AddConnectionRequest(x, isPermanent)
  \/ \E x \in InAddresses : PeerConnects(x)
  \/ \E ip \in Range(Ip) : BanBegins(ip) \/ Unban(ip)
  \/ \E p \in ban.left : BanTerminates(p)
  \/ BanIsStored
  \/ \E p \in active : PeerLeaves(p)
  \/ \E x \in Addresses : RetryIsDue(x)

Next == LoopStep \/ Environment

Spec == Init /\ [][Next]_vars

-----------------------------------------------------------------------------
(* Properties *)

\* The node at an address that answers and is requested permanently is a peer
\* again and again, whatever is requested while the loop dials and replaces the
\* table, and however its connection ended.
PermanentIsConnected ==
  \A x \in Reachable : [](x \in permanent => <>(HasPeer(x) \/ x \notin permanent))

=============================================================================
