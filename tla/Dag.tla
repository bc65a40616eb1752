-------------------------------- MODULE Dag --------------------------------
(***************************************************************************)
(* The block DAG and its stores, for TLC.  A behaviour is one of a single  *)
(* component, named by `component'; the others rest in an initial state.   *)
(* "colouring", "walks" and "depth" grow a DAG block by block and share    *)
(* its variables.                                                          *)
(***************************************************************************)
EXTENDS Naturals, TLC

CONSTANT None

VARIABLES
  component,
  parents, past, gd, depth, point,
  selectedChain,
  tree, relations, ancestors, chainOf, count, hints, deleted,
  kind, db, after, cache, tracked, writer, reader, writes, crashes,
  dbParents, dbChildren, staging, graph, committed, blocks, ops, lost, ok,
  bucket, setCache, entry, setOps, commits, expected

dagVars == <<parents, past, gd>>
depthVars == <<depth, point>>
treeVars == <<tree, relations, ancestors, chainOf, count, hints, deleted>>
cacheVars == <<kind, db, after, cache, tracked, writer, reader, writes, crashes>>
stagingVars == <<dbParents, dbChildren, staging, graph, committed, blocks, ops, lost, ok>>
setVars == <<bucket, setCache, entry, setOps, commits, expected>>
vars == <<component, dagVars, depthVars, selectedChain, treeVars, cacheVars, stagingVars, setVars>>

\* One block was mined at twice the difficulty.
HeavyBlock == [b \in 0..6 |-> IF b = 2 THEN 2 ELSE 1]
EqualWork == [b \in 0..7 |-> 1]

\* Every DAG of seven blocks, k = 1, whatever the order of the hashes.
Colouring == INSTANCE Ghostdag WITH
  Hashes <- 0..6, Genesis <- 0, K <- 1, Work <- HeavyBlock, MergesetSizeLimit <- 4

\* The walks over every DAG of six blocks.
Walks == INSTANCE DagTraversal WITH
  Hashes <- 0..5, Genesis <- 0, K <- 1, Work <- HeavyBlock, MergesetSizeLimit <- 3

\* Every DAG of eight blocks with two parents each, and a pruning point that moves.
Depths == INSTANCE BlockDepth WITH
  Hashes <- 0..7, Genesis <- 0, K <- 1, Work <- EqualWork, MergesetSizeLimit <- 4,
  MergeDepth <- 2, FinalityDepth <- 3, PruningDepth <- 4, MaxBlockParents <- 2

\* Every selected chain of twelve blocks.
Points == INSTANCE PruningChain WITH
  chain <- selectedChain, PruningDepth <- 7, FinalityDepth <- 5, MaxBlues <- 2, MaxLength <- 11

\* Every DAG of six blocks, with hints that move the reindex root and deletions.
Oracle == INSTANCE Reachability WITH
  parents <- relations, past <- ancestors, chain <- chainOf,
  Capacity <- 60, ReindexDepth <- 1, ReindexSlack <- 2, MaxBlocks <- 6, MaxBlockParents <- 2,
  MaxHints <- 2, MaxDeleted <- 2

\* Two readers and a writer of two keys.
Cached == INSTANCE CachedStore WITH
  Keys <- {"k1", "k2"}, Elems <- {"e1", "e2"}, Readers <- {"r1", "r2"},
  MaxSize <- 3, MinItems <- 1, MaxWrites <- 3, MaxCrashes <- 1

\* Five blocks through the staging relations.
Staged == INSTANCE StagingRelations WITH
  count <- blocks, MaxBlocks <- 5, MaxOps <- 4, MaxLost <- 1

\* One ordered set of up to five elements.
Ordered == INSTANCE StagingSet WITH
  cache <- setCache, ops <- setOps, Elems <- 1..5, MaxOps <- 4, MaxCommits <- 3

Init ==
  /\ component \in {"colouring", "walks", "depth", "points", "oracle", "cached", "staged", "ordered"}
  /\ Depths!DepthInit
  /\ Points!Init
  /\ Oracle!Init
  /\ Cached!Init
  /\ component # "cached" => kind = "item"
  /\ Staged!Init
  /\ Ordered!Init

At(c) == component = c /\ UNCHANGED component
DagAt(c) ==
  At(c) /\ UNCHANGED <<selectedChain, treeVars, cacheVars, stagingVars, setVars>>
RestOfDag == UNCHANGED <<dagVars, depthVars>>

Next ==
  \/ DagAt("colouring") /\ UNCHANGED depthVars /\ Colouring!Next
  \/ DagAt("walks") /\ UNCHANGED depthVars /\ Walks!Next
  \/ DagAt("depth") /\ Depths!NextBlock
  \/ At("points") /\ RestOfDag /\ UNCHANGED <<treeVars, cacheVars, stagingVars, setVars>> /\ Points!Next
  \/ At("oracle") /\ RestOfDag /\ UNCHANGED <<selectedChain, cacheVars, stagingVars, setVars>> /\ Oracle!Next
  \/ At("cached") /\ RestOfDag /\ UNCHANGED <<selectedChain, treeVars, stagingVars, setVars>> /\ Cached!Next
  \/ At("staged") /\ RestOfDag /\ UNCHANGED <<selectedChain, treeVars, cacheVars, setVars>> /\ Staged!Next
  \/ At("ordered") /\ RestOfDag /\ UNCHANGED <<selectedChain, treeVars, cacheVars, stagingVars>> /\ Ordered!Next

Spec == Init /\ [][Next]_vars

-----------------------------------------------------------------------------
(* Properties *)

\* GHOSTDAG's shortcuts do not change its outcome: the merge set is what the past
\* adds to that of the selected parent, the blues are those of the greedy k-cluster,
\* anticone sizes and scores count them, and the order is topological (Ghostdag).
GhostdagIsExact ==
  component = "colouring" =>
    /\ Colouring!MergesetIsExact /\ Colouring!ColouringIsGreedy
    /\ Colouring!AnticoneSizesAreExact /\ Colouring!ScoreCountsBlues
    /\ Colouring!MergesetOrderIsTopological

\* The chunks of headers a syncer sends are, one after the other, everything the
\* syncee misses, once and parents first; the other walks (missing bodies, block
\* locators, chain paths, anticones) find what they are shortcuts for as well
\* (DagTraversal).
WalksAreExact ==
  component = "walks" =>
    /\ Walks!StreamIsComplete /\ Walks!AntipastIsExact /\ Walks!MissingBodiesAreComplete
    /\ Walks!LocatorReachesLow /\ Walks!PathLeadsThere /\ Walks!TraversalIsExact

\* No block refers to one below its merge depth root, and the stored points are
\* those of the definition, wherever the pruning point was (BlockDepth).
MergesAreBounded ==
  component = "depth" => Depths!ParentsAreAboveTheRoot /\ Depths!PointsAreExact

\* Hopping along the stored samples finds the pruning point a direct search would,
\* none is skipped and only the true list of them is accepted (PruningChain).
PruningPointsAreExact ==
  component = "points" =>
    Points!HopsFindThePoint /\ Points!NextIsComplete /\ Points!OnlyTheTrueListIsValid

\* The reachability oracle answers what the DAG and the selected chain say, however
\* often intervals were reallocated, the root moved or blocks deleted, and no
\* operation fails (Reachability).
OracleIsExact ==
  component = "oracle" =>
    /\ Oracle!ReachabilityTypeOK /\ Oracle!DagQueriesAreExact /\ Oracle!ChainQueriesAreExact
    /\ Oracle!RelationsAreExact /\ Oracle!ListsAreOrdered

\* Whenever no batch is open, what a cache holds is what the database holds, and its
\* size is accounted for (CachedStore).
CacheIsCoherent == component = "cached" => Cached!CacheIsCoherent /\ Cached!CacheIsAccounted

\* What a staging store answers, and what its commit leaves in the database, is
\* what its operations were meant to give, whether or not a staging was lost
\* (StagingRelations) and whatever the cache dropped (StagingSet).
StoresAreExact ==
  /\ component = "staged" => Staged!StagingIsExact /\ Staged!StoreIsExact
  /\ component = "ordered" => Ordered!SetIsExact

=============================================================================
