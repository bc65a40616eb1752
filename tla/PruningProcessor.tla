-------------------------- MODULE PruningProcessor --------------------------
(***************************************************************************)
(* The pruning processor and what races with it                            *)
(* (consensus/src/pipeline/pruning_processor/processor.rs): its worker     *)
(* moves the pruning point, brings the pruning point UTXO set up to it one *)
(* chain block at a time and deletes the data below the retention root,    *)
(* while new blocks arrive, a syncee reads the UTXO set and an IBD with a  *)
(* peer ahead of us moves the pruning point itself (the "catch-up" of      *)
(* protocol/flows/src/ibd/flow.rs and consensus/src/consensus/mod.rs).     *)
(* The process may crash between any two database batches; what is left is *)
(* picked up by recover_pruning_workflows_if_needed.                       *)
(*                                                                         *)
(* The chain blocks are 0 .. N, with the blue score as their number.  Side *)
(* blocks are red: each has a parent on the chain and a chain block that   *)
(* merges it.                                                              *)
(***************************************************************************)
EXTENDS PruningPoints, FiniteSets

CONSTANTS
  N,              \* the last chain block
  Side, SideParent, MergedBy,   \* side blocks; MergedBy = N + 1: never merged
  ProofBlocks,    \* blocks of a high level, which the pruning proof keeps
  Window,         \* depth of the DAA and GHOSTDAG windows below the pruning point
  Archival,       \* config.is_archival
  Retention,      \* retention period, in blocks; None: prune up to the pruning point
  SyncerSinks,    \* sinks of the peers an IBD may run with
  None,
  Partial,        \* a UTXO set that is being downloaded
  Wrong,          \* a UTXO set with the diffs of other blocks in it
  MaxCrashes, MaxIbds, MaxReads   \* bounds

Chained == 0..N
Blocks == Chained \cup Side

ASSUME PruningAssumption ==
  /\ N \in Nat /\ Side \cap Chained = {}
  /\ SideParent \in [Side -> Chained] /\ MergedBy \in [Side -> 1..N + 1]
  /\ \A b \in Side : /\ SideParent[b] + 1 < MergedBy[b]
                      /\ MergedBy[b] <= N => MergedBy[b] <= SideParent[b] + PruningDepth
  /\ ProofBlocks \subseteq Blocks
  /\ {None, Partial, Wrong} \cap Blocks = {}
  /\ SyncerSinks \subseteq Chained /\ Window \in Nat

\* The chain with its samples and header pruning points.
Chain ==
  LET score == [i \in Chained |-> i]
      build[n \in 0..N] ==
        IF n = 0 THEN [sample |-> [i \in Chained |-> Genesis], point |-> [i \in Chained |-> Genesis]]
        ELSE LET c == build[n - 1]
                 reply == ExpectedHeaderPruningPoint(
                            [score |-> score, sample |-> c.sample, point |-> c.point], n - 1, n)
             IN [c EXCEPT !.sample[n] = reply.sample, !.point[n] = reply.point]
  IN [score |-> score, sample |-> build[N].sample, point |-> build[N].point]

\* The samples from a block down to genesis.
SamplePath ==
  [b \in Chained |->
    LET closed == {S \in SUBSET Chained : b \in S /\ \A x \in S : Chain.sample[x] \in S}
    IN  {x \in Chained : \A S \in closed : x \in S}]

\* The header pruning points of the chain of k above low, up to high, oldest first.
PointsBetween(low, high, k) ==
  LET path == PointsOnPath(Chain, low, k)
      oldestFirst == [i \in 1 .. Len(path) |-> path[Len(path) + 1 - i]]
  IN  SelectSeq(oldestFirst, LAMBDA b : low < b /\ b <= high)

\* What the definitions of PruningPoints, which recurse along the chain, make of it:
\* samples are lower than their blocks, and the next pruning points are above the
\* present one and deep below the sink.
ASSUME ChainAssumption ==
  /\ Chain.sample \in [Chained -> Chained]
  /\ Chain.point \in [Chained -> Samples(Chain)]
  /\ Chain.sample[Genesis] = Genesis /\ \A b \in Chained \ {Genesis} : Chain.sample[b] < b
  /\ \A s \in Chained, p \in Samples(Chain) :
       LET next == NextPruningPoints(Chain, s, p)
       IN  /\ next \in Seq(Samples(Chain))
           /\ next # <<>> => p < Last(next) /\ Last(next) + PruningDepth <= s
  /\ \A low, high \in Samples(Chain), k \in Chained :
       low <= k => PointsBetween(low, high, k) \in Seq(Samples(Chain))

\* No sample is passed over: the sample of a block is the highest below it, and the
\* pruning points up to a new one are all the samples in between.
ASSUME SamplesAssumption ==
  /\ \A b \in Chained \ {Genesis} :
       /\ Chain.sample[b] \in Samples(Chain)
       /\ \A q \in Samples(Chain) : q < b => q <= Chain.sample[b]
  /\ \A s \in Chained, p \in Samples(Chain) :
       LET next == NextPruningPoints(Chain, s, p)
       IN  next # <<>> => \A q \in Samples(Chain) : p < q /\ q <= Last(next) => q \in Range(next)
  /\ \A low, high \in Samples(Chain), k \in Chained :
       LET between == PointsBetween(low, high, k)
       IN  low <= k /\ between # <<>> /\ Last(between) = high =>
             \A q \in Samples(Chain) : low < q /\ q <= high => q \in Range(between)

VARIABLES
  \* The database
  pps,         \* past_pruning_points_store up to the pruning point index
  root,        \* retention_period_root
  checkpoint,  \* retention_checkpoint
  position,    \* utxoset_position
  utxo,        \* the pruning point UTXO set: the block whose state it is, or Partial
  stable,      \* utxoset_stable_flag
  missing,     \* body_missing_anticone_blocks
  sink,        \* selected parent of the virtual state
  chainLow,    \* the lowest block of selected_chain_store
  data,        \* what the stores hold of each block
  \* The process
  node,        \* "up", "down" or the assertion it failed
  exiting,     \* is_consensus_exiting
  inbox,       \* the pruning channel: the sink of the last message, or None
  recovered,   \* the worker's flag
  w,           \* the worker: its place and its local variables
  ibd,         \* the IBD flow; it holds a session (the pruning lock) throughout
  read,        \* a call of get_pruning_point_utxos
  tasks,       \* blocks between the header and the body processor
  \* What only the model keeps
  crashes, ibds, reads,
  overtaken    \* the last import of a UTXO set ended with the worker still in its diffs

storeVars == <<pps, root, checkpoint, position, utxo, stable, missing, sink, chainLow, data>>
procVars == <<node, exiting, inbox, recovered, w, ibd, read, tasks>>
modelVars == <<crashes, ibds, reads, overtaken>>
vars == <<storeVars, procVars, modelVars>>

PruningPoint == Last(pps)
InTransitionalIbdState == missing # {} \/ ~stable

IdleWorker == [pc |-> "recv", sink |-> None, pp |-> None, root |-> None, next |-> None,
               keep |-> {}, relations |-> {}, headers |-> {}, queue |-> {}, current |-> None]
NoIbd == [pc |-> "idle", plan |-> <<>>, sink |-> None, target |-> None, add |-> <<>>]
NoRead == [pc |-> "idle", expected |-> None, chunk |-> None]

Start ==
  /\ pps = <<Genesis>> /\ root = Genesis /\ checkpoint = Genesis
  /\ position = Genesis /\ utxo = Genesis
  /\ stable = TRUE /\ missing = {}
  /\ sink = Genesis /\ chainLow = Genesis
  /\ data = [b \in Blocks |-> IF b = Genesis THEN "full" ELSE "none"]
  /\ node = "up" /\ exiting = FALSE /\ inbox = None /\ recovered = FALSE
  /\ w = IdleWorker /\ ibd = NoIbd /\ read = NoRead /\ tasks = {}
  /\ overtaken = FALSE

Init == Start /\ crashes = 0 /\ ibds = 0 /\ reads = 0

\* is_dag_ancestor_of(low, b) for a chain block low.
InFuture(low, b) == IF b \in Chained THEN low <= b ELSE low <= SideParent[b]
InPast(high, b) == IF b \in Chained THEN b < high ELSE MergedBy[b] <= high
Height(b) == IF b \in Chained THEN b ELSE SideParent[b] + 1

-----------------------------------------------------------------------------
(* The process: start, stop, crash, failed assertions *)

StopAs(reason) ==
  /\ node' = reason /\ exiting' = FALSE /\ inbox' = None /\ recovered' = FALSE
  /\ w' = IdleWorker /\ ibd' = NoIbd /\ read' = NoRead /\ tasks' = {}

Crash ==
  /\ node = "up" /\ crashes < MaxCrashes
  /\ crashes' = crashes + 1
  /\ StopAs("down")
  /\ UNCHANGED <<storeVars, ibds, reads, overtaken>>

\* signal_exit; it counts as one of the bounded crashes.
SignalExit ==
  /\ node = "up" /\ ~exiting /\ crashes < MaxCrashes
  /\ exiting' = TRUE /\ crashes' = crashes + 1
  /\ UNCHANGED <<storeVars, node, inbox, recovered, w, ibd, read, tasks, ibds, reads, overtaken>>

\* The worker leaves its loop on the Exit message and the process ends.
WorkerExit ==
  /\ node = "up" /\ exiting /\ w.pc = "recv" /\ inbox = None
  /\ StopAs("down")
  /\ UNCHANGED <<storeVars, modelVars>>

\* A failed unwrap or assert_eq ends the process.
Panic(reason) == StopAs(reason) /\ UNCHANGED <<storeVars, modelVars>>

Restart ==
  /\ node # "up"
  /\ node' = "up"
  /\ UNCHANGED <<storeVars, exiting, inbox, recovered, w, ibd, read, tasks, modelVars>>

-----------------------------------------------------------------------------
(* Blocks arrive.  Every reader of the pruning lock waits for prune. *)

HoldsPruningLock == w.pc \in {"sweep", "visit", "delete"}

\* resolve_virtual after a block: the channel to the worker only keeps the last
\* sink.  The chain does not grow on a UTXO set that is being replaced, nor, with
\* the relay flows pausing, before an IBD gets to the bodies.
AddBlock ==
  /\ node = "up" /\ ~exiting /\ ~HoldsPruningLock /\ ibd.pc = "idle"
  /\ ~InTransitionalIbdState /\ sink < N
  /\ sink' = sink + 1 /\ inbox' = sink + 1
  /\ data' = [b \in Blocks |->
                IF b = sink + 1 \/ (b \in Side /\ MergedBy[b] = sink + 1) THEN "full" ELSE data[b]]
  /\ UNCHANGED <<pps, root, checkpoint, position, utxo, stable, missing, chainLow,
                 node, exiting, recovered, w, ibd, read, tasks, modelVars>>

\* resolve_virtual after a block that does not change the sink.
ResolveVirtual ==
  /\ node = "up" /\ ~exiting /\ ~HoldsPruningLock /\ inbox = None
  /\ inbox' = sink
  /\ UNCHANGED <<storeVars, node, exiting, recovered, w, ibd, read, tasks, modelVars>>

HasStatus(b) == data[b] \in {"full", "header", "proof"}

\* The header of a block nobody merges: check_pruning_violation wants a parent in
\* the future of the pruning point.
ProcessHeader(b) ==
  /\ node = "up" /\ ~HoldsPruningLock
  /\ data[b] = "none" /\ HasStatus(SideParent[b]) /\ PruningPoint <= SideParent[b]
  /\ data' = [data EXCEPT ![b] = "header"]
  /\ tasks' = tasks \cup {b}
  /\ UNCHANGED <<pps, root, checkpoint, position, utxo, stable, missing, sink, chainLow,
                 node, exiting, inbox, recovered, w, ibd, read, modelVars>>

\* process_body, some time later: it unwraps the status of the block.
ProcessBody(b) ==
  /\ node = "up" /\ ~HoldsPruningLock /\ b \in tasks
  /\ \/ /\ HasStatus(b)
        /\ data' = [data EXCEPT ![b] = "full"]
        /\ tasks' = tasks \ {b}
        /\ UNCHANGED <<pps, root, checkpoint, position, utxo, stable, missing, sink, chainLow,
                       node, exiting, inbox, recovered, w, ibd, read, modelVars>>
     \/ ~HasStatus(b) /\ Panic("status of a pruned block")

-----------------------------------------------------------------------------
(* The worker: recovery, the pruning point and its UTXO set *)

WorkerUnchanged == UNCHANGED <<node, exiting, ibd, read, tasks, modelVars>>
Goto(pc) == w' = [w EXCEPT !.pc = pc]

Receive ==
  /\ node = "up" /\ w.pc = "recv" /\ inbox # None
  /\ w' = [IdleWorker EXCEPT !.pc = IF recovered THEN "advance" ELSE "recover", !.sink = inbox]
  /\ inbox' = None
  /\ UNCHANGED <<storeVars, recovered>> /\ WorkerUnchanged

\* recover_pruning_workflows_if_needed reads the pointers of an earlier run.
Recover ==
  /\ node = "up" /\ w.pc = "recover"
  /\ w' = [w EXCEPT !.pc = IF position # PruningPoint THEN "utxoBegin" ELSE "resume",
                    !.pp = PruningPoint, !.root = root, !.next = position + 1]
  /\ UNCHANGED <<storeVars, inbox, recovered>> /\ WorkerUnchanged

\* confirm_pruning_depth_below_virtual; the blue score of virtual is one above its
\* selected parent.
DeepBelowVirtual(b) == b + PruningDepth <= sink + 1

\* advance_retention_period_root: down the samples to the first that covers the
\* period, or to the root of the moment, which is a sample on the way.
AdvanceRetentionRoot(point) ==
  IF Retention = None THEN point
  ELSE LET enough == {b \in SamplePath[point] : b \in {root, Genesis} \/ b + Retention <= sink}
       IN CHOOSE b \in enough : \A d \in enough : d <= b

\* advance_pruning_point_if_possible up to its batch: past pruning points, pruning
\* point and retention root move together.
AdvancePruningPoint ==
  /\ node = "up" /\ w.pc = "advance"
  /\ LET next == NextPruningPoints(Chain, w.sink, PruningPoint)
     IN IF next = <<>>
        THEN Goto("recv") /\ UNCHANGED storeVars
        ELSE /\ pps' = pps \o next
             /\ root' = IF Archival THEN root ELSE AdvanceRetentionRoot(Last(next))
             /\ w' = [w EXCEPT !.pc = "utxoBegin", !.pp = Last(next), !.root = root',
                               !.next = PruningPoint + 1]
             /\ UNCHANGED <<checkpoint, position, utxo, stable, missing, sink, chainLow, data>>
  /\ UNCHANGED <<inbox, recovered>> /\ WorkerUnchanged

\* The state of the UTXO set after the diff of block b.
ApplyDiff(set, b) == IF set = b - 1 THEN b ELSE Wrong

\* advance_pruning_utxoset: false sends the worker back to its channel.
BeginAdvanceUtxoset ==
  /\ node = "up" /\ w.pc = "utxoBegin"
  /\ Goto(IF DeepBelowVirtual(w.pp) THEN "utxo" ELSE "recv")
  /\ UNCHANGED <<storeVars, inbox, recovered>> /\ WorkerUnchanged

\* Mutant: the flags of an IBD are not looked at.
HaltOnExit ==
  exiting

MustHalt ==
  exiting \/ InTransitionalIbdState

\* Mutant: the round goes on to prune.
AfterHaltPrune ==
  "prune"

AfterHalt ==
  "recv"

\* One round of its loop: a diff and the new position, in one batch.
AdvanceUtxoset ==
  /\ node = "up" /\ w.pc = "utxo" /\ w.next <= w.pp
  /\ IF MustHalt
     THEN Goto(AfterHalt) /\ UNCHANGED <<storeVars, inbox, recovered>> /\ WorkerUnchanged
     ELSE IF data[w.next] # "full"
     THEN Panic("no diff")
     ELSE /\ utxo' = ApplyDiff(utxo, w.next)
          /\ position' = w.next
          /\ w' = [w EXCEPT !.next = @ + 1]
          /\ UNCHANGED <<pps, root, checkpoint, stable, missing, sink, chainLow, data, inbox, recovered>>
          /\ WorkerUnchanged

EndAdvanceUtxoset ==
  /\ node = "up" /\ w.pc = "utxo" /\ w.next > w.pp
  /\ Goto(IF recovered THEN "prune" ELSE "resume")
  /\ UNCHANGED <<storeVars, inbox, recovered>> /\ WorkerUnchanged

\* Mutant: an interrupted prune is not taken up again.
ResumeWithoutPrune ==
  /\ node = "up" /\ w.pc = "resume"
  /\ IF ~DeepBelowVirtual(w.pp) \/ InTransitionalIbdState
     THEN Goto("recv") /\ UNCHANGED recovered
     ELSE IF FALSE
     THEN Goto("prune") /\ UNCHANGED recovered
     ELSE Goto("advance") /\ recovered' = TRUE
  /\ UNCHANGED <<storeVars, inbox>> /\ WorkerUnchanged

\* The rest of the recovery: an interrupted prune is taken up again.
ResumePrune ==
  /\ node = "up" /\ w.pc = "resume"
  /\ IF ~DeepBelowVirtual(w.pp) \/ InTransitionalIbdState
     THEN Goto("recv") /\ UNCHANGED recovered
     ELSE IF checkpoint # w.root
     THEN Goto("prune") /\ UNCHANGED recovered
     ELSE Goto("advance") /\ recovered' = TRUE
  /\ UNCHANGED <<storeVars, inbox>> /\ WorkerUnchanged

-----------------------------------------------------------------------------
(* The worker: prune *)

AfterPrune ==
  /\ Goto(IF recovered THEN "recv" ELSE "advance")
  /\ recovered' = TRUE

KeepBlocks(pp) == {pp} \cup {b \in Side : SideParent[b] < pp /\ pp < MergedBy[b] /\ MergedBy[b] <= sink}
KeepRelations(pp) == KeepBlocks(pp) \cup {b \in Blocks : InPast(pp, b) /\ pp <= Height(b) + Window}

\* The proof and the trusted data are those of the pruning point in the store.
BeginPrune ==
  /\ node = "up" /\ w.pc = "prune"
  /\ IF Archival
     THEN AfterPrune /\ UNCHANGED <<storeVars, inbox>> /\ WorkerUnchanged
     ELSE IF PruningPoint # w.pp \/ ~DeepBelowVirtual(PruningPoint)
     THEN Panic("proof of another pruning point")
     ELSE /\ w' = [w EXCEPT !.pc = "trim", !.keep = KeepBlocks(w.pp),
                            !.relations = KeepRelations(w.pp),
                            !.headers = {pps[i] : i \in 1..Len(pps) - 1}]
          /\ UNCHANGED <<storeVars, inbox, recovered>> /\ WorkerUnchanged

\* Mergesets of kept blocks lose the blocks that go: under the write lock, which
\* is released while the higher levels are collected.
TrimGhostdag ==
  /\ node = "up" /\ w.pc = "trim" /\ ibd.pc = "idle"
  /\ Goto("lock")
  /\ UNCHANGED <<storeVars, inbox, recovered>> /\ WorkerUnchanged

InTree(b) == data[b] \in {"full", "header", "proof"}
TreeParent(b) == IF b \in Side THEN SideParent[b] ELSE b - 1

\* The reachability tree: a deleted block leaves its children to its parent.
TreeChildren(b) ==
  {k \in Blocks : /\ InTree(k)
                  /\ b < Height(k)
                  /\ TreeParent(k) \in Chained
                  /\ \A m \in b + 1..TreeParent(k) : ~InTree(m)}
TreeRoots == {k \in Blocks : InTree(k) /\ \A m \in 0..TreeParent(k) : ~InTree(m)}

\* The second write lock: body tips and the selected chain below the root go in
\* one batch, then the traversal starts at the children of origin.
BeginSweep ==
  /\ node = "up" /\ w.pc = "lock" /\ ibd.pc = "idle"
  /\ IF w.root = w.pp /\ w.root < chainLow
     THEN Panic("retention root not on the selected chain")
     ELSE /\ chainLow' = IF chainLow <= w.root THEN w.root ELSE chainLow
          /\ w' = [w EXCEPT !.pc = "sweep", !.queue = TreeRoots]
          /\ UNCHANGED <<pps, root, checkpoint, position, utxo, stable, missing, sink, data, inbox, recovered>>
          /\ WorkerUnchanged

Spared(b) ==
  InFuture(w.root, b)

\* The order of the queue is left open.
Visit(b) ==
  /\ node = "up" /\ w.pc = "sweep" /\ b \in w.queue
  /\ w' = IF Spared(b)
          THEN [w EXCEPT !.queue = @ \ {b}]
          ELSE [w EXCEPT !.queue = (@ \ {b}) \cup (IF b \in Chained THEN TreeChildren(b) ELSE {}),
                         !.current = b, !.pc = "visit"]
  /\ UNCHANGED <<storeVars, inbox, recovered>> /\ WorkerUnchanged

\* After five milliseconds: stop when exiting, else let the readers in.
Yield ==
  /\ node = "up" /\ w.pc = "visit"
  /\ IF exiting THEN AfterPrune ELSE Goto("yield") /\ UNCHANGED recovered
  /\ UNCHANGED <<storeVars, inbox>> /\ WorkerUnchanged

Reacquire ==
  /\ node = "up" /\ w.pc = "yield" /\ ibd.pc = "idle"
  /\ Goto("delete")
  /\ UNCHANGED <<storeVars, inbox, recovered>> /\ WorkerUnchanged

\* Mutant: the blocks of the proof are not kept.
RemainsWithoutProof(b) ==
  IF b \in w.relations THEN "header"
  ELSE IF b \in w.headers THEN "pastPoint"
  ELSE "gone"

\* What is left of a block that is not kept in full.
Remains(b) ==
  IF b \in w.relations THEN "header"
  ELSE IF b \in ProofBlocks /\ InPast(w.pp, b) THEN "proof"
  ELSE IF b \in w.headers THEN "pastPoint"
  ELSE "gone"

Delete ==
  /\ node = "up" /\ w.pc \in {"visit", "delete"}
  /\ data' = IF w.current \in w.keep THEN data
             ELSE [data EXCEPT ![w.current] = Remains(w.current)]
  /\ w' = [w EXCEPT !.pc = "sweep", !.current = None]
  /\ UNCHANGED <<pps, root, checkpoint, position, utxo, stable, missing, sink, chainLow, inbox, recovered>>
  /\ WorkerUnchanged

EndSweep ==
  /\ node = "up" /\ w.pc = "sweep" /\ w.queue = {}
  /\ Goto("checkpoint")
  /\ UNCHANGED <<storeVars, inbox, recovered>> /\ WorkerUnchanged

SetCheckpoint ==
  /\ node = "up" /\ w.pc = "checkpoint"
  /\ checkpoint' = w.root
  /\ AfterPrune
  /\ UNCHANGED <<pps, root, position, utxo, stable, missing, sink, chainLow, data, inbox>>
  /\ WorkerUnchanged

-----------------------------------------------------------------------------
(* IBD with a peer whose sink is k and whose pruning point is Chain.point[k] *)

IbdUnchanged == UNCHANGED <<node, exiting, inbox, recovered, w, read, tasks, modelVars>>
Done == ibd' = IF Tail(ibd.plan) = <<>> THEN NoIbd ELSE [ibd EXCEPT !.plan = Tail(@)]
IbdAt(step) == node = "up" /\ ibd.pc = "running" /\ Head(ibd.plan) = step

\* determine_ibd_type, as the steps that follow from it; none for a peer that
\* lags behind or whose pruning point is unknown.
IbdPlan(point) ==
  IF point = PruningPoint
  THEN IF missing = {} THEN IF stable THEN <<"headers">> ELSE <<"clear", "download", "stable", "headers">>
       ELSE IF stable THEN <<"bodies", "embodied", "headers">>
       ELSE <<"bodies", "embodied", "clear", "download", "stable", "headers">>
  ELSE IF point < PruningPoint
  THEN IF InTransitionalIbdState THEN <<>> ELSE <<"headers">>
  ELSE IF ~InTransitionalIbdState /\ data[point] = "full"
  THEN <<"headers">>
  ELSE <<"headers", "verify", "write", "validate", "bodies", "embodied", "clear", "download", "stable">>

\* The session waits for the pruning lock.
StartIbd(k) ==
  /\ node = "up" /\ ~exiting /\ ~HoldsPruningLock /\ ibd.pc = "idle" /\ ibds < MaxIbds
  /\ sink < k
  /\ IbdPlan(Chain.point[k]) # <<>>
  /\ ibd' = [pc |-> "running", plan |-> IbdPlan(Chain.point[k]), sink |-> k,
             target |-> IF Chain.point[k] < PruningPoint THEN PruningPoint ELSE Chain.point[k],
             add |-> <<>>]
  /\ ibds' = ibds + 1
  /\ UNCHANGED <<storeVars, node, exiting, inbox, recovered, w, read, tasks, crashes, reads, overtaken>>

SyncHeaders ==
  /\ IbdAt("headers")
  /\ data' = [b \in Blocks |->
                IF data[b] = "none" /\ (b \in Chained => b <= ibd.sink) /\ (b \in Side => MergedBy[b] <= ibd.sink)
                THEN "header" ELSE data[b]]
  /\ Done
  /\ UNCHANGED <<pps, root, checkpoint, position, utxo, stable, missing, sink, chainLow>> /\ IbdUnchanged

\* get_and_verify_path_to_new_pruning_point: the points above ours up to the
\* target, oldest first.
PointsToAdd == PointsBetween(PruningPoint, ibd.target, ibd.sink)
PathIsValid ==
  /\ IsPruningSample(Chain.score[ibd.target], Chain.score[ibd.target - 1])
  /\ ibd.target + PruningDepth <= ibd.sink
  /\ PruningPoint \in Range(PointsOnPath(Chain, PruningPoint, ibd.sink))
  /\ PointsToAdd # <<>> /\ Last(PointsToAdd) = ibd.target

FailIbd ==
  /\ node = "up" /\ ibd.pc = "running"
  /\ ibd' = NoIbd
  /\ UNCHANGED storeVars /\ IbdUnchanged

\* intrusive_pruning_point_store_writes: one batch.
WritePruningPoint(add) ==
  /\ pps' = pps \o add
  /\ root' = IF Archival THEN root ELSE AdvanceRetentionRoot(ibd.target)
  /\ sink' = ibd.target /\ chainLow' = ibd.target
  /\ stable' = FALSE
  /\ missing' = {ibd.target} \cup
                {b \in Side : SideParent[b] < ibd.target /\ ibd.target < MergedBy[b] /\ MergedBy[b] <= ibd.sink}
  /\ UNCHANGED <<checkpoint, position, utxo, data>>

\* The pruning point may move between the two halves, which take its lock one
\* after the other.
VerifyPath ==
  /\ IbdAt("verify") /\ PathIsValid
  /\ ibd' = [ibd EXCEPT !.plan = Tail(@), !.add = PointsToAdd]
  /\ UNCHANGED storeVars /\ IbdUnchanged

WritePath ==
  /\ IbdAt("write")
  /\ WritePruningPoint(ibd.add)
  /\ Done
  /\ IbdUnchanged

\* validate_pruning_points: the sanity check of pruning_point_catchup.
ValidatePruningPoints ==
  /\ IbdAt("validate") /\ ArePruningPointsInValidChain(Chain, pps, ibd.sink)
  /\ Done
  /\ UNCHANGED storeVars /\ IbdUnchanged

\* sync_missing_trusted_bodies, and clear_body_missing_anticone_set after it.
SyncMissingTrustedBodies ==
  /\ IbdAt("bodies")
  /\ data' = [b \in Blocks |-> IF b \in missing THEN "full" ELSE data[b]]
  /\ Done
  /\ UNCHANGED <<pps, root, checkpoint, position, utxo, stable, missing, sink, chainLow>> /\ IbdUnchanged

ClearBodyMissing ==
  /\ IbdAt("embodied")
  /\ missing' = {}
  /\ Done
  /\ UNCHANGED <<pps, root, checkpoint, position, utxo, stable, sink, chainLow, data>> /\ IbdUnchanged

\* sync_new_utxo_set.  The worker holds no lock between two rounds of its loop, and
\* the flag it looks at in each of them may be lowered and up again in between.  The
\* commitment that is verified is that of the chunks, not of the set in the store.
ClearPruningUtxoSet ==
  /\ IbdAt("clear")
  /\ stable' = FALSE /\ utxo' = Partial
  /\ Done
  /\ UNCHANGED <<pps, root, checkpoint, position, missing, sink, chainLow, data>> /\ IbdUnchanged

ImportPruningPointUtxoSet ==
  /\ IbdAt("download")
  /\ utxo' = IF utxo = Partial THEN ibd.target ELSE Wrong
  /\ position' = ibd.target /\ sink' = ibd.target
  /\ Done
  /\ UNCHANGED <<pps, root, checkpoint, stable, missing, chainLow, data>> /\ IbdUnchanged

SetUtxosetStable ==
  /\ IbdAt("stable")
  /\ stable' = TRUE
  /\ overtaken' = (w.pc \in {"utxoBegin", "utxo"})
  /\ Done
  /\ UNCHANGED <<pps, root, checkpoint, position, utxo, missing, sink, chainLow, data>>
  /\ UNCHANGED <<node, exiting, inbox, recovered, w, read, tasks, crashes, ibds, reads>>

-----------------------------------------------------------------------------
(* A peer syncs from us: get_pruning_point_utxos *)

ReadUnchanged == UNCHANGED <<storeVars, node, exiting, inbox, recovered, w, ibd, tasks, crashes, ibds, overtaken>>

StartRead ==
  /\ node = "up" /\ read.pc = "idle" /\ reads < MaxReads
  /\ \E expected \in Chained :
        /\ PruningPoint = expected
        /\ read' = [NoRead EXCEPT !.pc = "read", !.expected = expected]
  /\ reads' = reads + 1
  /\ ReadUnchanged

ReadChunk ==
  /\ node = "up" /\ read.pc = "read"
  /\ read' = [read EXCEPT !.pc = "recheck", !.chunk = utxo]
  /\ UNCHANGED reads /\ ReadUnchanged

EndRead ==
  /\ node = "up" /\ read.pc = "recheck"
  /\ read' = IF PruningPoint = read.expected THEN [read EXCEPT !.pc = "served"] ELSE NoRead
  /\ UNCHANGED reads /\ ReadUnchanged

\* The chunk is sent.
SendChunk ==
  /\ node = "up" /\ read.pc = "served"
  /\ read' = NoRead
  /\ UNCHANGED reads /\ ReadUnchanged

-----------------------------------------------------------------------------
Worker ==
  \/ Receive \/ Recover \/ AdvancePruningPoint
  \/ BeginAdvanceUtxoset \/ AdvanceUtxoset \/ EndAdvanceUtxoset \/ ResumePrune
  \/ BeginPrune \/ TrimGhostdag \/ BeginSweep \/ (\E b \in Blocks : Visit(b))
  \/ Reacquire \/ Delete \/ EndSweep \/ SetCheckpoint

Ibd ==
  \/ (\E k \in SyncerSinks : StartIbd(k)) \/ FailIbd
  \/ SyncHeaders \/ VerifyPath \/ WritePath \/ ValidatePruningPoints
  \/ SyncMissingTrustedBodies \/ ClearBodyMissing
  \/ ClearPruningUtxoSet \/ ImportPruningPointUtxoSet \/ SetUtxosetStable

Next ==
  \/ Crash \/ SignalExit \/ WorkerExit \/ Restart
  \/ AddBlock \/ ResolveVirtual
  \/ \E b \in {s \in Side : MergedBy[s] > N} : ProcessHeader(b) \/ ProcessBody(b)
  \/ Worker \/ Yield \/ Ibd
  \/ StartRead \/ ReadChunk \/ EndRead \/ SendChunk

Spec == Init /\ [][Next]_vars

\* The threads of the node run on, and blocks keep arriving.
Fairness ==
  /\ WF_vars(Worker) /\ WF_vars(AddBlock) /\ WF_vars(ResolveVirtual)
  /\ WF_vars(WorkerExit) /\ WF_vars(Restart)

-----------------------------------------------------------------------------
(* Properties *)

\* A UTXO set flagged stable is exactly the state of the block utxoset_position
\* names, whatever the worker and an IBD did to it and wherever the node crashed -
\* unless a whole import passed between two rounds of the worker: is_in_transitional
\* _ibd_state is TRUE neither before nor after it, and the worker goes on with the
\* diffs of the set that was replaced.
UtxoSetMatchesPosition == stable /\ ~overtaken => utxo = position

\* A restarted worker can finish what it finds: the UTXO set is at or below the
\* pruning point and the diffs in between were not pruned.  A worker that was
\* overtaken by an import writes its old position over that of the import.
RecoveryIsPossible ==
  ~InTransitionalIbdState /\ ~overtaken =>
    /\ position <= PruningPoint
    /\ \A b \in position + 1..PruningPoint : data[b] = "full"

\* "We keep full data for pruning point and its anticone, relations for DAA/GD
\* windows and pruning proof, and only headers for past pruning points" - for the
\* pruning point of the moment, also while it moves and after a crash, and
\* everything from the retention root on.
PromisedDataIsKept ==
  /\ \A b \in KeepBlocks(PruningPoint) \ missing : data[b] = "full"
  /\ \A b \in KeepRelations(PruningPoint) : data[b] \in {"full", "header"}
  /\ \A b \in ProofBlocks : InPast(PruningPoint, b) => data[b] \in {"full", "header", "proof"}
  /\ \A i \in 1..Len(pps) - 1 : data[pps[i]] # "gone"
  /\ chainLow <= root => \A b \in (root..PruningPoint) \ missing : data[b] = "full"

=============================================================================
