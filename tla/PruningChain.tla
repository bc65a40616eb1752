---------------------------- MODULE PruningChain ----------------------------
(***************************************************************************)
(* Every selected chain up to a length.  A block adds the blues of its     *)
(* mergeset to the blue score of its selected parent, at least one (the    *)
(* selected parent itself) and at most MaxBlues, and stores its pruning    *)
(* sample and its pruning point.  The pruning point code is compared with  *)
(* its definition on each of them.                                         *)
(***************************************************************************)
EXTENDS PruningPoints, FiniteSets

CONSTANTS
  MaxBlues,   \* the most blues a block may merge: K + 1
  MaxLength   \* bound on the length of the chain

VARIABLE chain

Sink == Cardinality(DOMAIN chain.score) - 1

Init == chain = [score |-> [i \in {Genesis} |-> 0],
                 sample |-> [i \in {Genesis} |-> Genesis],
                 point |-> [i \in {Genesis} |-> Genesis]]

Extended(f, v) == [i \in 0..Sink + 1 |-> IF i <= Sink THEN f[i] ELSE v]

\* A block is validated on top of the sink: its header is checked against the
\* expected pruning point and its sample is stored with it.
AddBlock ==
  /\ Sink < MaxLength
  /\ \E blues \in 1..MaxBlues :
       LET blueScore == chain.score[Sink] + blues
           reply == ExpectedHeaderPruningPoint(chain, Sink, blueScore)
       IN chain' = [score |-> Extended(chain.score, blueScore),
                    sample |-> Extended(chain.sample, reply.sample),
                    point |-> Extended(chain.point, reply.point)]

Next == AddBlock
Spec == Init /\ [][Next]_chain

-----------------------------------------------------------------------------
\* Hopping along the stored samples (expected_header_pruning_point) finds the
\* most recent sample at pruning depth: neither the clamp of samples to
\* PruningSamplesSteps hops nor the clamp to the pruning point of the selected
\* parent ever stops the search elsewhere.
HopsFindThePoint == chain.point[Sink] = DeepEnough(chain, Sink)

\* next_pruning_points returns every pruning point above the current one and up
\* to the one of the sink, whichever earlier block made the current one the
\* pruning point: none is skipped when several epochs passed at once, so the
\* past pruning points stay a complete list.
NextIsComplete ==
  \A i \in DOMAIN chain.score :
    LET current == chain.point[i]
        next == NextPruningPoints(chain, Sink, current)
    IN /\ {next[k] : k \in DOMAIN next}
            = {b \in Samples(chain) : current < b /\ b <= chain.point[Sink]}
       /\ \A k \in 1..Len(next) - 1 : next[k] < next[k + 1]

Lists(top) ==
  {SelectSeq([k \in 1..top + 1 |-> k - 1], LAMBDA b : b \in S \cup {top}) : S \in SUBSET (0..top - 1)}

\* are_pruning_points_in_valid_chain accepts a list of past pruning points for
\* the pruning point of the sink exactly when it is the list of all samples up
\* to it (the pruning point of a headers proof is never genesis).
OnlyTheTrueListIsValid ==
  LET top == chain.point[Sink]
  IN top # Genesis =>
       \A past \in Lists(top) :
         ArePruningPointsInValidChain(chain, past, Sink)
           <=> {past[k] : k \in DOMAIN past} = {b \in Samples(chain) : b <= top}

=============================================================================
