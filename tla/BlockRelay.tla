----------------------------- MODULE BlockRelay -----------------------------
(***************************************************************************)
(* Relay of blocks: one HandleRelayInvsFlow per peer                       *)
(* (protocol/flows/src/v7/blockrelay/flow.rs), the requests they share and *)
(* the task after a new block (flow_context.rs), and the pool of orphans   *)
(* (flowcontext/orphans.rs).  Consensus is the set of blocks with a body   *)
(* and the set it has been given and not yet answered for.  The node is in *)
(* sync: blocks are valid, none is too old to be relayed.                  *)
(***************************************************************************)
EXTENDS Naturals, Sequences, FiniteSets, Functions, SequencesExt

CONSTANTS
  Blocks, Parents, Genesis,
  Peers,
  Announcements,   \* [peer, block]: the invs that arrive, in any order, once each
  MaxOrphans,      \* max_orphans, at least 2
  MayFail,         \* BOOLEAN: can a peer fail?
  MayBeFar         \* BOOLEAN: can a block be out of the orphan resolution range?

VARIABLES
  bodies,      \* blocks with a body
  processing,  \* blocks given to consensus
  orphans,     \* the pool: block -> its set of children
  requests,    \* shared_block_requests: block -> obtained?
  flow,        \* per peer: pc, block, queued orphan roots, batch of ancestors
  tasks,       \* on_new_block tasks that are to unorphan
  invs,        \* announcements to come
  freed        \* history: blocks that came out of the pool

vars == <<bodies, processing, orphans, requests, flow, tasks, invs, freed>>

NoFunction == [x \in {} |-> {}]
IdleFlow == [pc |-> "idle", block |-> Genesis, indirect |-> <<>>, batch |-> {}]

Init ==
  /\ bodies = {Genesis} /\ processing = {} /\ orphans = NoFunction
  /\ requests = NoFunction
  /\ flow = [p \in Peers |-> IdleFlow]
  /\ tasks = {} /\ invs = Announcements /\ freed = {}

Pool == DOMAIN orphans
Without(f, xs) == Restrict(f, DOMAIN f \ xs)
Put(f, x, v) == [y \in DOMAIN f \cup {x} |-> IF y = x THEN v ELSE f[y]]

-----------------------------------------------------------------------------
(* The pool of orphans *)

\* Ancestors of a block through the pool, at most n generations up.
Reached(b) ==
  LET up[n \in Nat] ==
        IF n = 0 THEN Parents[b]
        ELSE up[n - 1] \cup UNION {Parents[o] : o \in up[n - 1] \cap Pool}
  IN up[Cardinality(Pool)]

\* get_orphan_roots: reached, neither in the pool nor with a body.
OrphanRoots(b) == Reached(b) \ (Pool \cup bodies)
OrphanAncestors(b) == Reached(b) \cap Pool

ChildOrphans(pool, b) == {o \in DOMAIN pool : b \in Parents[o]}

\* Mutant: any parent will do.
SomeParent(o, have) ==
  Parents[o] \cap have # {}

Processable(o, have) ==
  Parents[o] \subseteq have

\* unorphan_blocks: the descendants of root through the recorded children whose
\* parents have bodies or are being unorphaned with them.
Unorphaned(pool, have, root) ==
  LET rest == Without(pool, {root})
      first == IF root \in DOMAIN pool THEN pool[root] ELSE ChildOrphans(pool, root)
      grow[n \in Nat] ==
        IF n = 0 THEN {}
        ELSE LET q == grow[n - 1] IN
             q \cup {o \in DOMAIN rest :
                       /\ o \in first \cup UNION {rest[z] : z \in q}
                       /\ Processable(o, have \cup q)}
  IN grow[Cardinality(DOMAIN rest)]

RecordedChildren(b) ==
  ChildOrphans(orphans, b)

\* add_orphan, of a block with missing roots: into the pool and the children of
\* its parents.
Inserted(pool, b) ==
  [o \in DOMAIN pool \cup {b} |->
     IF o = b THEN RecordedChildren(b) \cap DOMAIN pool
     ELSE IF o \in Parents[b] THEN pool[o] \cup {b} ELSE pool[o]]

\* A full pool: a random orphan that is no ancestor is evicted, unless a few tries
\* find ancestors only.
MadeRoom(b) ==
  IF Cardinality(Pool) < MaxOrphans THEN {orphans}
  ELSE {Without(orphans, {o}) : o \in Pool \ OrphanAncestors(b)}

MayReject(b) == Cardinality(Pool) = MaxOrphans /\ OrphanAncestors(b) # {}

-----------------------------------------------------------------------------
(* Consensus *)

Given(bs) == processing' = processing \cup (bs \ bodies)

\* A block is inserted after its parents, and refused when one is unknown.
ProcessBlock(b) ==
  /\ b \in processing
  /\ \/ Parents[b] \subseteq bodies /\ bodies' = bodies \cup {b}
     \/ ~(Parents[b] \subseteq bodies \cup processing) /\ UNCHANGED bodies
  /\ processing' = processing \ {b}
  /\ UNCHANGED <<orphans, requests, flow, tasks, invs, freed>>

-----------------------------------------------------------------------------
(* The flow of peer p *)

Goto(p, pc) == flow' = [flow EXCEPT ![p].pc = pc]
Leave(p) == [flow[p] EXCEPT !.pc = "idle", !.block = Genesis, !.batch = {}]

\* Mutant: the roots of an orphan are not asked for.
NothingIndirect(p, roots) ==
  flow[p].indirect

\* enqueue_orphan_roots
WithIndirect(p, roots) ==
  flow[p].indirect \o SetToSeq(roots)

\* The next inv: an orphan root first.
TakeInv(p) ==
  /\ flow[p].pc = "idle"
  /\ IF flow[p].indirect # <<>>
     THEN /\ flow' = [flow EXCEPT ![p].pc = "inv", ![p].block = Head(flow[p].indirect),
                                  ![p].indirect = Tail(@)]
          /\ UNCHANGED invs
     ELSE \E a \in invs :
            /\ a.peer = p
            /\ flow' = [flow EXCEPT ![p].pc = "inv", ![p].block = a.block]
            /\ invs' = invs \ {a}
  /\ UNCHANGED <<bodies, processing, orphans, requests, tasks, freed>>

\* A known block is skipped, for a known orphan its roots are asked for.
LookUp(p) ==
  LET b == flow[p].block IN
  /\ flow[p].pc = "inv"
  /\ flow' = [flow EXCEPT ![p] =
       IF b \in bodies THEN Leave(p)
       ELSE IF b \in Pool
       THEN [Leave(p) EXCEPT !.indirect = WithIndirect(p, OrphanRoots(b))]
       ELSE [flow[p] EXCEPT !.pc = "request"]]
  /\ UNCHANGED <<bodies, processing, orphans, requests, tasks, invs, freed>>

\* try_adding_block_request: refused while another flow has obtained the block, or
\* has asked for it less than REQUEST_SCOPE_WAIT_TIME ago.
Request(p) ==
  LET b == flow[p].block IN
  /\ flow[p].pc = "request"
  /\ \/ /\ b \in DOMAIN requests => ~requests[b]
        /\ requests' = Put(requests, b, FALSE)
        /\ Goto(p, "wait")
     \/ /\ b \in DOMAIN requests
        /\ flow' = [flow EXCEPT ![p] = Leave(p)]
        /\ UNCHANGED requests
  /\ UNCHANGED <<bodies, processing, orphans, tasks, invs, freed>>

\* report_obtained and validate_and_insert_block
Receive(p) ==
  LET b == flow[p].block IN
  /\ flow[p].pc = "wait"
  /\ requests' = IF b \in DOMAIN requests THEN [requests EXCEPT ![b] = TRUE] ELSE requests
  /\ Given({b})
  /\ Goto(p, "validating")
  /\ UNCHANGED <<bodies, orphans, tasks, invs, freed>>

\* A timeout or a disconnection: the flow ends, its scope is dropped.
Fail(p) ==
  /\ MayFail /\ flow[p].pc = "wait"
  /\ requests' = Without(requests, {flow[p].block})
  /\ Goto(p, "dead")
  /\ UNCHANGED <<bodies, processing, orphans, tasks, invs, freed>>

\* The block is in: it is broadcast, its post-processing spawned, and the scope of
\* the request dropped.
Accepted(p) ==
  /\ flow[p].pc \in {"validating", "retry"} /\ flow[p].batch \cup {flow[p].block} \subseteq bodies
  /\ tasks' = tasks \cup {flow[p].block}
  /\ requests' = Without(requests, {flow[p].block})
  /\ flow' = [flow EXCEPT ![p] = Leave(p)]
  /\ UNCHANGED <<bodies, processing, orphans, invs, freed>>

\* MissingParents: an orphan, unless it is known as one.
IsOrphan(p) ==
  LET b == flow[p].block IN
  /\ flow[p].pc = "validating" /\ b \notin bodies \cup processing
  /\ IF b \in Pool
     THEN /\ flow' = [flow EXCEPT ![p] = Leave(p)]
          /\ requests' = Without(requests, {b})
     ELSE /\ Goto(p, "orphan")
          /\ UNCHANGED requests
  /\ UNCHANGED <<bodies, processing, orphans, tasks, invs, freed>>

\* add_orphan, for a block that lost its missing roots meanwhile: its ancestors
\* leave the pool and are processed, and so is the block, again.
AddOrphanNoRoots(p) ==
  LET b == flow[p].block
      ancestors == OrphanAncestors(b) IN
  /\ flow[p].pc = "orphan" /\ b \notin Pool /\ OrphanRoots(b) = {}
  /\ orphans' = Without(orphans, ancestors)
  /\ Given(ancestors \cup {b})
  /\ freed' = freed \cup ancestors
  /\ flow' = [flow EXCEPT ![p].pc = "retry", ![p].batch = ancestors]
  /\ UNCHANGED <<bodies, requests, tasks, invs>>

\* add_orphan otherwise.
AddOrphan(p) ==
  LET b == flow[p].block IN
  /\ flow[p].pc = "orphan"
  /\ \/ /\ b \notin Pool /\ OrphanRoots(b) # {}
        /\ \E pool \in MadeRoom(b) : orphans' = Inserted(pool, b)
        /\ flow' = [flow EXCEPT ![p] = [Leave(p) EXCEPT !.indirect = WithIndirect(p, OrphanRoots(b))]]
     \/ /\ b \in Pool \/ (OrphanRoots(b) # {} /\ MayReject(b))
        /\ flow' = [flow EXCEPT ![p] = Leave(p)]
        /\ UNCHANGED orphans
  /\ requests' = Without(requests, {b})
  /\ UNCHANGED <<bodies, processing, tasks, invs, freed>>

\* process_orphan, of a block out of the orphan resolution range: it is left to IBD.
TriggerIbd(p) ==
  /\ MayBeFar /\ flow[p].pc = "orphan"
  /\ flow' = [flow EXCEPT ![p] = Leave(p)]
  /\ requests' = Without(requests, {flow[p].block})
  /\ UNCHANGED <<bodies, processing, orphans, tasks, invs, freed>>

\* on_new_block
OnNewBlock(b) ==
  LET out == Unorphaned(orphans, bodies, b) IN
  /\ b \in tasks
  /\ tasks' = tasks \ {b}
  /\ orphans' = Without(orphans, out \cup {b})
  /\ Given(out)
  /\ freed' = freed \cup out
  /\ UNCHANGED <<bodies, requests, flow, invs>>

ProcessableRoots(pool) ==
  {o \in DOMAIN pool : Parents[o] \subseteq bodies}

\* revalidate_orphans, after an IBD: blocks that are in go; those with all parents
\* in are queued, each with the descendants that are processable when it may or
\* may not have been processed already.
RevalidateOrphans ==
  LET left == Without(orphans, bodies)
      roots == ProcessableRoots(left)
  IN
  /\ Pool # {}
  /\ \E done \in SUBSET roots :
       LET out == roots \cup UNION {Unorphaned(Without(left, roots \ {r}), bodies \cup done, r) : r \in roots} IN
       /\ bodies' = bodies \cup done
       /\ processing' = (processing \cup out) \ bodies'
       /\ orphans' = Without(left, out)
       /\ freed' = freed \cup out
  /\ UNCHANGED <<requests, flow, tasks, invs>>

FlowStep(p) ==
  \/ TakeInv(p) \/ LookUp(p) \/ Request(p) \/ Receive(p) \/ Accepted(p)
  \/ IsOrphan(p) \/ AddOrphanNoRoots(p) \/ AddOrphan(p)

NextButRevalidation ==
  \/ \E p \in Peers : FlowStep(p) \/ Fail(p) \/ TriggerIbd(p)
  \/ \E b \in Blocks : ProcessBlock(b) \/ OnNewBlock(b)

Next == NextButRevalidation \/ RevalidateOrphans

\* Flows, tasks and consensus go on; a peer need not fail.
Fairness ==
  /\ \A p \in Peers : WF_vars(FlowStep(p))
  /\ \A b \in Blocks : WF_vars(ProcessBlock(b)) /\ WF_vars(OnNewBlock(b))

\* Without an IBD; with one when there is one, on which nothing may count.
RelaySpec == Init /\ [][NextButRevalidation]_vars /\ Fairness
Spec == Init /\ [][Next]_vars /\ Fairness

-----------------------------------------------------------------------------
(* Properties *)

\* What comes out of the pool is never refused for a missing parent: its parents
\* have bodies or are given to consensus, before it or with it.
FreedHaveParents ==
  \A b \in freed \cap processing : Parents[b] \subseteq bodies \cup processing

\* An orphan whose parents are all in does not stay in the pool.
Resolved ==
  \A b \in Blocks : (b \in Pool /\ Parents[b] \subseteq bodies) ~> (b \notin Pool)

\* A block and its ancestors
PastOf(b) ==
  LET up[n \in Nat] == IF n = 0 THEN {b} ELSE up[n - 1] \cup UNION {Parents[x] : x \in up[n - 1] \ {Genesis}}
  IN up[Cardinality(Blocks)]

\* The peer that announced the block is gone, or one that was asked for it or for
\* an ancestor and did not answer.
LostWithPeer(a) ==
  \E p \in Peers : flow[p].pc = "dead" /\ (p = a.peer \/ flow[p].block \in PastOf(a.block))

\* An orphan all of whose parents are in: see Resolved.
Overlooked(b) == \E o \in PastOf(b) \cap Pool : Parents[o] \subseteq bodies

\* Every announced block is in the end part of the DAG, with all its ancestors,
\* whoever announced it, in whatever order, whichever peer takes over a request and
\* whichever other peers fail.  The two ways to miss one: its peer fails, or an
\* orphan under it is overlooked for good (no IBD comes to look again).
AnnouncedIsInserted ==
  \A a \in Announcements :
    <>(a.block \in bodies \/ LostWithPeer(a)) \/ <>[]Overlooked(a.block)

=============================================================================
