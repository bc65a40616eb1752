# A TLA+ model of the node

This directory holds TLA+ specifications of the node in this repository, the TLC
models that check them on small instances, and TLAPS proofs. Names follow the
Rust source; `PROJECT.json` maps each definition to the lines it stands for.

    tlc -config pipeline.cfg MCPipeline       # one run
    tlapm DepsManagerProofs.tla               # the proofs of a module

## The system

A node is a set of services in one process.

| part | modules | hard behaviour |
|---|---|---|
| dependency manager of block tasks | DepsManager, TaskService | duplicates, a child between two ends of its parents, lost wake-ups |
| header, body, virtual processor | BlockPipeline | many threads, reads long before writes, a DAG that grows during a search |
| pruning processor | PruningPoints, PruningChain, PruningProcessor | a crash in the middle, long deletions next to readers and IBD |
| DAG algorithms | Ghostdag, BlockDepth, DagTraversal, Reachability | shortcuts that must not change the answer |
| stores | CachedStore, StagingRelations, StagingSet | caches filled by readers, changes staged and lost |
| session lock | RfRwLock | readers first, wake-ups, cancelled waits |
| consensus manager, services | ConsensusManager, NodeRuntime | swapping and deleting instances, the order of a shutdown |
| mempool, templates | Mempool, MiningManager, BlockTemplateCache | validation without the lock, replacement, stale templates |
| p2p connections | PeerHub, Handshake, Connections | peers that leave in the middle, timeouts, retries |
| p2p flows | BlockRelay, TransactionRelay, ChainNegotiation | shared requests, orphans, a syncer whose chain moves |
| notifications | Subscriptions, Notifier, AddressTracker | order of events and of subscription changes |

A block goes from `validate_and_insert_block` through four workers (header, body,
virtual, pruning), each with a channel. Header and body processing run on a
thread pool, ordered by a dependency manager per stage. Relay flows and IBD feed
the pipeline through sessions, which hold the session lock; the virtual state
feeds the mempool, the templates and the notifications.

## Modules

### Tasks, lock and pipeline

**TaskService** says what a dependency manager is for: a task is accepted,
processed and done, once; never beside another task of its block, and not before
the tasks of its parents that were accepted earlier.

**DepsManager** is `BlockTaskDependencyManager`. `Register`, `Defer` and `Begin`
(the two outcomes of `try_begin`), `End` and `WaitForIdle` are one step each, as
the `pending` mutex is held throughout. `pool[h]` counts the `queue_block(h)`
closures the pool has not run; `dependents` is a bag, so that a hash listed twice
would show.

**RfRwLock** is the session lock: the readers-first lock, the semaphore under it
and the `Event` of the event-listener crate (2.5.3). The crate is not part of this
repository and its behaviour is an assumption: a FIFO of listeners of which a
prefix is notified, `notify(n)` brings the prefix to n, a wait that ends uses its
notification up, a dropped listener passes it on. `Cancel` drops the future of an
acquire; `NapListen` and `NapEnd` are the timed wait of `blocking_yield`. A client
is one use of the lock: a recursive reader is two clients.

**BlockPipeline** composes two instances of DepsManager with the channels, the
stores that steer the pipeline (statuses, headers selected tip, body tips), the
virtual worker and the loop of the pruning worker. Validation and commit are
separate steps of a pool thread; a commit is one step, as it is one database
batch. The virtual worker collects a batch, reads the tips, runs the heap search a
candidate at a time and answers the batch. What the validation rules say of a
submission is a constant (`HeaderFault`, `BodyFault`, `UtxoInvalid`); blue work
with its tie-break is an injective numbering.

### Pruning

**PruningPoints** holds the operators of `processes/pruning.rs` on a selected chain;
**PruningChain** grows every chain and compares them with their definitions; on them
PruningProcessor builds its one `Chain`, with the samples below each block
(`SamplePath`) and the path to a new pruning point (`PointsBetween`).
**PruningProcessor** is the worker (advance the pruning point, bring the UTXO set up
to it one chain block at a time, delete), recovery after a crash, the catch-up IBD,
arriving blocks and a reader of the UTXO set. Each database batch is a step, and
so is each place where prune yields its lock; a crash may come between any two.
A panic of the code is a crash. The two halves of
`intrusive_pruning_point_update` (find the path, write the points) are separate
steps, as they take the lock separately. The worker looks at the flags of an IBD
in each round of its loop and holds no lock in between, so that a whole import can
pass between two rounds; the history variable `overtaken` is set when the last
import did. Two simplifications: no block arrives while an IBD plan runs, and an
import follows only a complete download.

### DAG and stores

**Ghostdag** computes the data of each block of a growing DAG; **BlockDepth** and
**DagTraversal** extend it by the depth rules and by the walks of syncing.
**Reachability** is the interval tree with reindexing, the reindex root and
deletions; its capacity (60) is far below 2^64, so that intervals run out.
**CachedStore** is the cached access under each of the three disciplines of locks
its users follow; the writer of a batch does not read back what it wrote, as
`relations.rs` documents. **StagingRelations** and **StagingSet** are the staging
stores of relations and of ordered reachability sets.

### Node, mining, network, notifications

**ConsensusManager** is the manager, the factory and the management store, with
staging commit and cancel, deletions and restarts. A start that finds a staging key
without its entry panics, as `staging_consensus_entry` does. **NodeRuntime** is Core
and the async runtime; a service is what wakes it and what it joins. An IBD may
commit its consensus after the manager was stopped (`CommitAfterStop`).

**Mempool** holds the operators that run under the mempool's lock, **MiningManager**
the calls that give the lock up in between. Transactions have one size, so that a
limit is a number of transactions, and what may expire may expire at once. `late`
are the orphans that were inserted after a parent they were validated without.
**BlockTemplateCache** is `get_block_template` with its cache.

**PeerHub** is the hub's event loop with its bounded channel (512 in the code, 2
here). **Handshake** is both ends of a handshake with its timeouts. **Connections**
is the connection manager with the address book; two addresses may be of one peer
(`PeerKey`), and `permanent` remembers the permanent requests. **BlockRelay** assumes
a node in sync and valid blocks; an IBD, which revalidates orphans, may happen and
need not.
**TransactionRelay** counts transactions per interval where the code has rates.
**ChainNegotiation** assumes a syncer that answers from its own chain, which may
move and be pruned; the syncee reads one status at a time, while it learns blocks.

**Subscriptions** and **Notifier** are one notifier for one event type; listeners are
registered from the start. Its parent is the subscription it holds there. A
broadcaster polls its control channel and then the notifications, in two steps
(`look`), as `select_biased!` does.
**AddressTracker** is the map of addresses that all subscriptions share; only there
can a call fail for lack of room.

### Modules for TLC

MCPipeline, MCPruning and MCMempool give constants their values.
Concurrency, Dag, Node, Mining, Network, Relay and Notifications each put several
components side by side: `component`, chosen in Init, names the one that moves, and
the others rest in an initial state. They share no state, so that each behaviour
is one of a single component. Concurrency, Node and Network extend the components
that have proofs, so that a run and a theorem speak of the same definition.

Definitions under a comment that begins with "Mutant" are wrong variants of the
definition that follows; no specification uses them. Substituted for it, they
make the property listed with them in `PROJECT.json` fail.

## Runs

| run | instance | shows |
|---|---|---|
| concurrency | 3 clients and 3 permits; a diamond of 4 blocks with 6 submissions | a writer is alone, no wake-up is lost, readers do not wait for waiting writers; no block is queued twice, lost or stuck; TaskService is implemented |
| pipeline | five scenarios over one DAG of 12 blocks | verdicts are still true when committed, a faulty submission does not harm another or a child, virtual ends at the best sink, both stages use their manager as intended |
| pipeline_live | a chain, 3 submissions, exit at any time | every block submitted before the exit is answered; the exit reaches the last worker |
| pruning | a chain of 10 blocks and 2 side blocks | UTXO set and flags fit after any crash and recovery is possible, but for an import that overtakes the worker; promised data is kept, pruning completes |
| node | 5 services, two of which may panic; 3 starts and 2 stagings | a shutdown gets through; the data of the active consensus survives every crash, and it is the one handed out |
| mining | 5 transactions, 2 threads, pool of 2, orphan pool of 2; 2 template callers | the relations of the pool mirror each other, orphans wait for something missing, templates are not stale |
| network | 3 connections; all pairs of 4 protocol versions and 2 networks; 4 addresses; 2 peers | closed inbound peers leave the hub, the ends of a handshake agree, permanent requests are reconnected, announced blocks are inserted |
| relay | a diamond with failing peers; 3 transactions; a tree of 16 blocks | unorphaned blocks have their parents, every request is held by a flow, negotiation finds the highest shared block |
| dag | every DAG of 6 to 8 blocks, every chain of 12, every short sequence of operations | each algorithm and store gives what its definition says |
| notifications | 2 listeners, 3 kinds of events; 3 addresses of which 2 fit | the parent learns what listeners need, owed notifications are on their way, reference counts are exact |
| mempool_rbf | 3 transactions, 1 thread | a violation, see Findings |
| relay_stuck | a fork of 4 blocks, 2 peers | a violation, see Findings |

### Bounds

Each submission multiplies the interleavings of the pipeline: three or four meet
all pairs of (submission, stage). Two of a block with a child are what a manager's
queues need; a diamond gives a child two parents to wait for; a fork with a merge
block makes the search replace a candidate by two, one below the other. The
scenarios give each of the difficult cases a set of submissions of its own
(UTXO-invalid side, invalid blocks, wrong body, early timestamp, headers first).

With depths 3 and 2, a chain of ten blocks moves the pruning point more than once.
A node of the pruning run serves a syncee with one more crash, or has two IBDs and
one more crash, or is by itself and has two crashes; `MCPruning` pre-spends the
bounds, as all three at once exceed what TLC can do in minutes. Retention is three
blocks, enough to lie below a pruning point, and the node is not archival.

Clients of the lock number at most `MaxPermits`, as in the code, where that is
`usize::MAX`: with as many readers as permits, a release of one permit could wake
a writer and leave a reader asleep.

Seven blocks with k = 1 give every way in which the colouring can stop early: a
block outside the cluster, a blue with a full anticone, one that would fill
another's. Merge sets above a size limit exist too. Chains of twelve with depths
7 and 5 and scores that grow by one or two have depths that do not divide.

In the mining run the two parts of the mempool split the operations: five related
transactions without reorganisations and scans, and a parent and child with them.

Address-wise subscriptions are checked as those of a gRPC client, whose link to its
parent may break once: with notifications and two changes, and without them and
three. `ParentCatchesUp` names the one case in which the parent keeps more than is
needed (see Observations). With a parent in the same process, which is asked for
everything or nothing, no link breaks.

The depth rules are checked on every DAG of eight blocks with a pruning point that
moves: stored points that it passed, and blocks at exactly the depth above it, are
among them.

Transactions of the mining run come one by one and as a parent with its child in
one batch.

Deadlock is not checked: workers stop after Exit, and the bounded models use their
bounds up. Early stops would violate the liveness properties.

### Fairness

All fairness is weak but where noted. Threads, pool closures and polled tasks go on
while they can; channels are unbounded, or their bound is modelled. Nobody keeps a
guard of the session lock for ever. Callers, peers and operators owe nothing: they
need not submit, exit, signal or connect. Crashes, panics and timeouts may happen
and need not. In pruning, blocks keep arriving until the chain has its last one, a node
that stopped is started again, and the worker goes on, which includes that it gets
the lock it waits for (parking_lot is eventually fair). A due retry
of a connection request is strongly fair: the back-off ends although the loop
rebuilds the table. No IBD is assumed to come. Peers of the network run may fail
instead of answering, after which they are disconnected.

### Exceptions the properties name

Where the code has a case in which the property one would like does not hold, the
property says so and holds otherwise:

- `UtxoSetMatchesPosition`, `RecoveryIsPossible`: unless the last import ended
  while the worker was still applying diffs (`overtaken`);
- `ActiveIsIntact` speaks of the data of the active consensus, not of the start,
  which a dangling staging key makes panic;
- `ShutdownGetsThrough`: unless a consensus is committed after the stop;
- `OrphansWait`: unless a parent entered the pool between the validation and the
  insertion of the orphan (`late`), which the next change of the pool may resolve;
- `AnnouncedIsInserted`: unless the peer that announced the block failed, or one that
  was asked for it or for an ancestor (`LostWithPeer`), or it stays an orphan as in the finding below (`Overlooked`);
- `MergesAreBounded`: the point is exact unless a block lies exactly the depth above
  the pruning point, which is then found itself;
- `ParentCatchesUp`: unless a renewal with no address left subscribed to everything;
- `OwedIsOnItsWay`: unless a registration came between the two polls of a
  broadcaster, which handles it after the notification.

## Findings

Two disagreements between the code and its documentation are kept as runs.

- `mempool_rbf`: a transaction can be in the pool and the orphan pool at once;
  `remove_transaction` then removes the orphan only, and a replacement by fee joins
  the transaction it replaces.
- `relay_stuck`: `add_orphan` takes rooted ancestors out of the pool and nobody
  unorphans their other children; such an orphan stays until an IBD revalidates
  the pool, although its ancestors are in consensus.

### Observations

Points the models made explicit, which no run states:

- pruning: `is_in_transitional_ibd_state` is false before and after an import, so
  the worker does not notice one that passed between two rounds: it goes on with the
  diffs of the set that was replaced, and writes its old position over that of the
  import. A catch-up IBD may move the pruning point while prune has yielded
  (against the comment at `consensus/src/consensus/mod.rs:1144`); the proof prune
  then asks for may fail its `expect`. A chunk of the UTXO set may be read for the
  new pruning point before the set has reached it (`mod.rs:1037`). If the worker
  advances the point between the halves of a catch-up, points are stored twice.
  `process_body` unwraps a status that pruning may have removed.
- consensus manager: an instance committed after `stop` gets no exit signal, and
  join waits for its threads; a crash between the two writes of
  `delete_staging_entry` leaves a staging key without entry, on which every start
  panics (`factory.rs:131`);
  `set_is_archival_node` drops its batch; a commit deletes a directory whose
  threads still run. A panic that is not of the first service to return does not
  shut the runtime down.
- depth: a block exactly the depth above the pruning point gets the pruning point
  itself, one blue score short of the definition. A stored point below the pruning
  point is where the walk starts again; the models do not delete blocks, so that
  it is there is left to the comment at `block_depth.rs:87`.
- mempool: a child inserted in the same batch as its parent stays an orphan; a
  child that is in the pool before its parent stays among the ready ones.
- network: a dialled router that closes early is closed before it is inserted
  (hence `ClosedInboundPeersLeave`); the hub's loop can wait on its own full
  channel; `ban` misses a peer that connects while it disconnects others;
  `is_permanent` is true of any request.
- relay: `receive_transactions` announces nothing of a batch with one invalid
  transaction; the throttle of requests subtracts in the wrong order, and
  saturates at zero.
- notifications: renewing an address-wise subscription whose last address is gone
  subscribes to everything.
- pipeline: a block submitted after `signal_exit` is never answered.

## Proofs

`DepsManagerProofs` proves, for any set of blocks, submissions and any acyclic
DAG: type correctness, `ExactlyOnePlace`, `ExpectationsHold`, `IdleMeansDone`,
`SomethingMoves` and the implementation of `TaskService`. The assumptions are
that a task has a block and a block a sequence of parents, and that every set of
blocks has a member without parents in it, since a hash commits to the hashes of
its parents.

The inductive invariant `ManagerInv` joins these to `QueuesConsistent`: a queue
holds unanswered tasks of its block, without repetition, and its front is running
when it is marked as taken. `ExactlyOnePlace` alone is not inductive: `End` pops a
queue, and that the popped task is the one that was processed needs
`ExpectationsHold` and distinctness. `SomethingMoves` follows by taking a pending
block without pending parents: it cannot be a dependent, so it is queued or taken.

`SessionProofs` is about sessions: the lock behind them and the consensus they are
given. Of RfRwLock it proves, for any finite set of clients no larger than
`MaxPermits`: `LockTypeOK`, `Exclusive`, `PermitsConserved`, `OneListenerEach`,
`NoLostWakeup` and `ReadersFirst`. The inductive invariant is their conjunction.
`Exclusive` needs the counter to be exact, and the counter needs exclusion (a
release of a writer starts at zero). For `NoLostWakeup`, a client that fails to
take the lock while others sleep did so when it was not free; a release leaves
its client awake until it has notified; then the front of the queue is awake, as
it is after a notified client gives up. `ReadersFirst` needs that the queue fits
into `MaxPermits`, by injectivity of the queue, so that a writer's release reaches
all listeners.

Of ConsensusManager it proves `ActiveIsIntact` and `CommittedIsActive` for any
number of keys, starts (those that panic included), staging consensuses and crashes. `InstanceInv` says which
key each party can mean: the cached metadata is that of the disk, the staging key
of an IBD is the metadata's until the commit, the captured key of a new consensus
is nobody else's, and the active key is on no list of a running deletion.

`BlockPipelineLemmas` and `BlockPipelineProofs` prove, for any acyclic DAG with any
blue work and any submissions and faults: `StagesRefine`, `VerdictsStayTrue`,
`VirtualIsBest` and `NoSpuriousMissingParents`. The inductive invariant is
`ManagerInv` of both stages with `PipeInv`, whose parts build on each other:

- `Placed` says where a submission is; without it a task could be registered twice,
  which DepsManager does not allow, so that `StagesRefine` rests on it too.
- `Verdicts`: what a running task found out holds until it ends, as its manager
  keeps the other tasks of the block and of its parents away.
- `Bodies`: in the future of the finality point a body has the bodies of its
  parents below it, and the tips are above all of them.
- `Search`: every qualified block below the tips read is below some candidate of the
  heap, and a body that virtual has not seen is announced. `VirtualIsBest` speaks of
  the end of a search only and says nothing of how it gets there.
- `Order` and `Refusals`: a task follows the earlier submissions of its parents
  through both stages. A refusal is decided on the status of the parent, long after
  the submissions it has to do with.

The assumptions, beyond those of DepsManager, are that blue work grows from parent
to child and differs between blocks, that among the parents of a block one has the
most, and that trusted blocks are not in the future of the finality point (IBD
inserts the pruning point's anticone and past). Past and selected chain are defined as
least closed sets, which the provers can reason about, instead of recursively.

`PruningProcessorLemmas` and `PruningProcessorProofs` prove `UtxoSetMatchesPosition` and
`RecoveryIsPossible` for any length of the chain, depths, side blocks, retention,
syncers and any number of crashes and IBDs. Neither is inductive, as the worker and an IBD write the same
pointers, and the worker goes on with local copies of them. `PruningInv` adds:

- `PointersOK`: while the UTXO set is not stable the sink is the pruning point, so
  that nothing is there for the worker to advance to;
- `UtxoOK`: all diffs from the position up to the *sink*, not only up to the pruning
  point, which may move to any sample below the sink;
- `WorkerOK` and `PositionOK`: the root and point the worker works with are no higher
  than those of the database; when it gets to pruning, the UTXO set has arrived, so
  that what it deletes is below the position;
- `IbdOK`: what each remaining plan of an IBD may rely on, and that a set is flagged
  stable only after a download for the position just written.

All that is said of the UTXO set and of the position is said for a worker that no
import has overtaken, which is what the two properties are about.

`ChainAssumption` states what the definitions that recurse along the chain (samples,
header pruning points, the next pruning points) compute: samples are lower than
their blocks, and the next pruning point is a sample above the last one, at least
the pruning depth below the sink. That is induction over data and out of
reach of the prover; TLC evaluates it for the chain of the pruning run, and checks
the operators themselves for every chain of twelve blocks in the dag run.

`PruningDataProofs` proves `PromisedDataIsKept` under the same generality: the comment
in `prune` about what the node keeps is true between any two batches. prune decides
what to keep once and deletes for a long time, while blocks arrive and, when it
yields, the pruning point may be written by an IBD. `KeepInv`, inductive together
with `PruningInv`, says why the decision stays right:

- `StoreOK`: every sample up to the pruning point is a past pruning point, so the
  headers prune collected are all there are below it;
- `DataOK`: a block that lost its relations was below the windows of the pruning
  point, and stays below those of any later one, or is merged by nobody; above the
  root and the pruning point the data is complete, except for the bodies an IBD has
  listed as missing;
- `SweepOK`: from the first trim on, the sets cover all that the pruning point of
  this prune asks for, blocks of its anticone that a later chain block merges
  included. prune sees those up to its sink only; but the sink is the pruning depth
  above the pruning point, and a red block is merged within that depth of its parent.
  And no IBD runs while prune holds the lock;
- `CatchUpOK`: before the pruning point is written, the headers of all it will ask
  for have arrived and the path has every sample; before the missing bodies are
  declared complete they are.

It rests on `SamplesAssumption`, which says of the samples what `ChainAssumption` says
of their order: the sample of a block is the highest below it, and the points on the
way to a new pruning point leave no sample out. TLC evaluates it for the chain
of the pruning run.

`PeerHubProofs` proves `ClosedInboundPeersLeave` for any connections, keys and size
of the channel. The property is about registered routers; `HubInv` follows an inbound
connection from its event on: the event is in the channel once, the loop is busy
with it until it is registered, and if it is closed meanwhile its `PeerClosing`
waits, as only the loop takes events out.

Checked by TLC only:

- every liveness property: `pipeline_live`, `PruningCompletes`, the shutdown, the
  answers of the lock, relay and notifications; they need fairness and ENABLED;
- the DAG algorithms, the stores and the chain negotiation, which compare a
  recursive definition with its meaning: induction over data;
- the mempool, the templates, the relay flows, handshakes, connections and the
  notifications, whose operators fold over pools and queues.

## Not modelled

The map covers about 10,600 of some 192,000 lines of Rust, 6%. Most of the rest has
no state a model checker could help with:

- the script engine, hashing, ML-DSA and stealth addresses, MuHash and wide-integer
  arithmetic (difficulty, windows, coinbase): byte-level or stateless computations
  with their own test vectors;
- RPC, gRPC and wRPC plumbing, converters and generated code, the WASM bindings, the
  command lines and simulators: one request, one call of a modelled component;
- the wallet, the stratum bridge and the testnet tools: other programs, with
  their own storage and no part in the node's consistency;
- building, validating and applying pruning proofs: one pass over the headers of all
  levels, which shows nothing on DAGs of a few blocks;
- UTXO diffs, virtual parents and the contents of templates, the UTXO index:
  data that the models abstract to a validity per block;
- key encoding, iterators and migrations of the database; transport, compression
  and byte counters of p2p; port mapping; answering flows, which hold no state.

What is listed here is by far the larger part of the repository, so that the share
of lines that is modelled stays small however completely the node's own state
machines are.
