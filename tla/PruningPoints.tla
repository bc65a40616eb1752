--------------------------- MODULE PruningPoints ---------------------------
(***************************************************************************)
(* Which blocks are pruning points (consensus/src/processes/pruning.rs).   *)
(*                                                                         *)
(* A selected chain c has the blocks 0 (genesis) .. n, with                *)
(*   c.score    the blue score of each block (headers_store),              *)
(*   c.sample   its pruning_sample_from_pov (pruning_samples_store),       *)
(*   c.point    the pruning point in its header.                           *)
(* A block is a pruning sample when it is the first of its chain in a new  *)
(* epoch of FinalityDepth blue scores, and the pruning point of a block is *)
(* its most recent sample at depth PruningDepth.  The code never looks for *)
(* it directly: it hops along the stored samples, with two clamps.         *)
(***************************************************************************)
EXTENDS Naturals, Sequences, Functions

CONSTANTS
  PruningDepth,    \* P, params.pruning_depth
  FinalityDepth    \* F, params.finality_depth

ASSUME DepthAssumption ==
  /\ PruningDepth \in Nat \ {0}
  /\ FinalityDepth \in Nat \ {0}

Last(s) == s[Len(s)]

\* Mutant: rounds down.
StepsRoundedDown ==
  PruningDepth \div FinalityDepth

\* pruning_samples_steps: div_ceil(P, F).
PruningSamplesSteps == (PruningDepth + FinalityDepth - 1) \div FinalityDepth

FinalityScore(blueScore) == blueScore \div FinalityDepth

IsPruningSample(selfScore, ancestorScore) ==
  FinalityScore(ancestorScore) < FinalityScore(selfScore)

Genesis == 0

\* expected_header_pruning_point for a block on top of parent: its sample is the
\* parent, when that is a sample itself, or the parent's.  From there the search
\* hops towards genesis until a sample has depth P; a block that is a sample
\* takes no more than PruningSamplesSteps hops and none goes below the pruning
\* point of its parent.
ExpectedHeaderPruningPoint(c, parent, blueScore) ==
  LET sample ==
        IF parent = Genesis THEN Genesis
        ELSE IF IsPruningSample(c.score[parent], c.score[c.sample[parent]]) THEN parent
        ELSE c.sample[parent]
      isSelfSample == IsPruningSample(blueScore, c.score[parent])
      hop[steps \in Nat, current \in DOMAIN c.score] ==
        IF \/ current = Genesis
           \/ c.score[current] + PruningDepth <= blueScore
           \/ isSelfSample /\ steps = PruningSamplesSteps
           \/ current = c.point[parent]
        THEN current
        ELSE hop[steps + 1, c.sample[current]]
  IN [sample |-> sample, point |-> hop[1, sample]]

\* next_pruning_points: the pruning points between the current one and the one of
\* the sink, oldest first; none while the sink is not deep enough.
NextPruningPoints(c, sink, current) ==
  LET point == ExpectedHeaderPruningPoint(c, sink - 1, c.score[sink]).point
      down[i \in DOMAIN c.score] ==
        IF i = current THEN <<>> ELSE Append(down[c.sample[i]], i)
  IN IF \/ sink = Genesis
        \/ c.score[current] + PruningDepth > c.score[sink]
        \/ c.score[point] <= c.score[current]
     THEN <<>>
     ELSE down[point]

\* pruning_points_on_path_to_syncer_sink: the header pruning points of the chain
\* above a block, newest first, without repetitions in a row.
PointsOnPath(c, low, sink) ==
  LET path[i \in low..sink] ==
        IF i = low THEN <<>>
        ELSE LET below == path[i - 1]
             IN IF below # <<>> /\ Head(below) = c.point[i] THEN below
                ELSE <<c.point[i]>> \o below
  IN path[sink]

\* The queue from the first b on; empty without one.
DropUpTo(queue, b) ==
  LET at == {i \in DOMAIN queue : queue[i] = b}
  IN IF at = {} THEN <<>> ELSE SubSeq(queue, CHOOSE i \in at : \A j \in at : i <= j, Len(queue))

\* are_pruning_points_in_valid_chain: is past (genesis first, the pruning point
\* last) what the headers point to?  Each entry must be the head of the queue of
\* expected points and adds the point of its own header at the end.
ArePruningPointsInValidChain(c, past, sink) ==
  LET expected == DropUpTo(PointsOnPath(c, Last(past), sink), Last(past))
      walk[i \in 0..Len(past), queue \in Seq(DOMAIN c.score)] ==
        IF queue = <<>> \/ Head(queue) # past[i] THEN FALSE
        ELSE IF i = 1 THEN Tail(queue) = <<>> /\ past[i] = Genesis
        ELSE IF Tail(queue) = <<>> THEN FALSE
        ELSE walk[i - 1,
                  IF Last(queue) = c.point[past[i]] THEN Tail(queue)
                  ELSE Append(Tail(queue), c.point[past[i]])]
  IN walk[Len(past), expected]

-----------------------------------------------------------------------------
(* What the hops are meant to find *)

\* Every sample of the chain, by definition.
Samples(c) ==
  {Genesis} \cup {i \in DOMAIN c.score \ {Genesis} : IsPruningSample(c.score[i], c.score[i - 1])}

\* The most recent sample at depth P, genesis when there is none.
DeepEnough(c, i) ==
  LET deep == {j \in Samples(c) : j < i /\ c.score[j] + PruningDepth <= c.score[i]}
  IN IF deep = {} THEN Genesis ELSE CHOOSE j \in deep : \A k \in deep : k <= j

=============================================================================
