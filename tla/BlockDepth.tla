----------------------------- MODULE BlockDepth -----------------------------
(***************************************************************************)
(* The merge depth root and the finality point of every block              *)
(* (consensus/src/processes/block_depth.rs) and the rule that a block may  *)
(* not merge what is below its merge depth root                            *)
(* (check_bounded_merge_depth).  Both points are computed from those of    *)
(* the selected parent, walking up the chain, and are ORIGIN (None) when   *)
(* they would lie below the pruning point of the moment; the pruning point *)
(* moves up the chain meanwhile.  Blocks are not deleted here: a walk may  *)
(* start from a stored point that the pruning point has passed, as it does *)
(* in the code as long as that block is there.                             *)
(***************************************************************************)
EXTENDS Ghostdag

CONSTANTS
  MergeDepth, FinalityDepth, PruningDepth,
  MaxBlockParents   \* params.max_block_parents

VARIABLES
  depth,   \* depth_store: the merge root and the finality point of each block
  point    \* the pruning point

depthVars == <<vars, depth, point>>

RECURSIVE ChainDown(_)
ChainDown(b) ==
  IF b = Genesis THEN <<b>> ELSE <<b>> \o ChainDown(gd[b].selected)

IsChainAncestorOf(a, b) == a \in ToSet(ChainDown(b))

\* forward_chain_iterator
ChainUp(from, to) ==
  SelectSeq(Reverse(ChainDown(to)), LAMBDA b : IsChainAncestorOf(from, b))

\* Mutant: the walk goes one block too far.
ShallowerThanRequired(score, required) ==
  score > required

\* The walk up the chain stops at the first block that is too shallow.
TooShallow(score, required) ==
  score >= required

\* The block at depth d is not below the pruning point.
IsAbovePoint(data, d) ==
  /\ data.score >= gd[point].score + d
  /\ IsChainAncestorOf(point, data.selected)

WalkStart(stored) ==
  IF stored = None THEN point ELSE stored

\* calculate_block_at_depth; stored is the point of the selected parent.
BlockAtDepth(data, d, stored) ==
  IF data.score < d THEN Genesis
  ELSE IF ~IsAbovePoint(data, d) THEN None
  ELSE LET start == WalkStart(stored)
           walk == ChainUp(start, data.selected)
           stop == SelectInSeq(walk, LAMBDA b : TooShallow(gd[b].score, data.score - d))
       IN IF stop = 0 THEN Last(walk)
          ELSE IF stop = 1 THEN start
          ELSE walk[stop - 1]

\* ORIGIN, None here, is the root of the reachability tree, below every block.
AncestorOrOrigin(a, b) == a = None \/ IsDagAncestorOf(a, b)
ChainAncestorOrOrigin(a, b) == a = None \/ IsChainAncestorOf(a, b)

KosherizingBlues(data, root) ==
  {b \in ToSet(data.blues) : ChainAncestorOrOrigin(root, b)}

\* check_bounded_merge_depth
BoundedMergeDepth(data, root) ==
  \A red \in ToSet(data.reds) :
    \/ AncestorOrOrigin(root, red)
    \/ \E b \in KosherizingBlues(data, root) : IsDagAncestorOf(red, b)

DepthInit ==
  /\ Init
  /\ depth = (Genesis :> [merge |-> None, finality |-> None])
  /\ point = Genesis

\* A block (hashes in order of arrival here) whose merge depth is bounded.
AddBlockWithDepth(ps) ==
  LET b == Cardinality(Blocks)
      data == GhostdagData(ps)
      stored == depth[data.selected]
      merge == BlockAtDepth(data, MergeDepth, stored.merge)
  IN /\ b \in Hashes
     /\ AddBlock(b, ps)
     /\ BoundedMergeDepth(data, merge)
     /\ depth' = (b :> [merge |-> merge, finality |-> BlockAtDepth(data, FinalityDepth, stored.finality)])
                   @@ depth
     /\ UNCHANGED point

\* The pruning point moves to a block of the heaviest chain at pruning depth.
MovePoint(b) ==
  LET tip == FindSelectedParent(Blocks)
  IN /\ b # point /\ IsChainAncestorOf(point, b)
     /\ IsChainAncestorOf(b, tip)
     /\ gd[b].score + PruningDepth <= gd[tip].score
     /\ point' = b
     /\ UNCHANGED <<vars, depth>>

NextBlock ==
  \/ \E ps \in {S \in SUBSET Blocks : S # {} /\ Cardinality(S) <= MaxBlockParents} : AddBlockWithDepth(ps)
  \/ \E b \in Blocks : MovePoint(b)
  \/ Blocks = Hashes /\ UNCHANGED depthVars

DepthSpec == DepthInit /\ [][NextBlock]_depthVars

-----------------------------------------------------------------------------
(* Properties *)

\* The block at depth d by definition: the highest of the chain whose score is
\* less than the block's by more than d; Genesis when there is none.
AtDepth(b, d) ==
  LET deep == {c \in ToSet(ChainDown(b)) \ {b} : gd[c].score + d < gd[b].score}
  IN IF deep = {} THEN Genesis
     ELSE CHOOSE c \in deep : \A e \in deep : gd[e].score <= gd[c].score

\* The points found from those of the selected parent are the ones of the
\* definition, wherever the pruning point was and has moved to since, and never lie
\* below those of the selected parent.  One exception: when the selected parent has
\* none, the walk starts at the pruning point, and stops there although it is not
\* deeper than d but at d exactly.
PointIsExact(b, d, found, stored) ==
  found # None =>
    /\ \/ found = AtDepth(b, d)
       \/ stored = None /\ IsChainAncestorOf(found, point) /\ gd[found].score + d = gd[b].score
    /\ stored # None => IsChainAncestorOf(stored, found)

PointsAreExact ==
  \A b \in Blocks \ {Genesis} :
    LET stored == depth[gd[b].selected]
    IN /\ PointIsExact(b, MergeDepth, depth[b].merge, stored.merge)
       /\ PointIsExact(b, FinalityDepth, depth[b].finality, stored.finality)

\* No block refers to one below its merge depth root: the blues are above it
\* anyway, since a blue has no more than k others in its anticone, and what a blue
\* makes up for is in the past of the blue, hence no parent.
ParentsAreAboveTheRoot ==
  \A b \in Blocks : \A c \in parents[b] \cup ToSet(gd[b].blues) :
    depth[b].merge # None => IsDagAncestorOf(depth[b].merge, c)

=============================================================================
