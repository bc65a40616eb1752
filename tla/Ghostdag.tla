------------------------------ MODULE Ghostdag ------------------------------
(***************************************************************************)
(* GHOSTDAG (consensus/src/processes/ghostdag): the selected parent, the   *)
(* merge set and the colouring of every block of a DAG that grows by one   *)
(* block at a time, in any shape.                                          *)
(*                                                                         *)
(* A block is its hash, a number.  parents and past are the relations and  *)
(* the answers of the reachability service (see Reachability.tla), gd is   *)
(* the ghostdag store:                                                     *)
(*   selected, blues, reds   the selected parent and the merge set, both   *)
(*                           colours in ascending blue work                *)
(*   sizes                   blues_anticone_sizes, the anticone sizes that *)
(*                           changed at this block                         *)
(*   score, work             blue score and blue work                      *)
(* The colouring walks down the selected chain and stops early wherever it *)
(* can; what it is meant to compute is the greedy k-cluster below.         *)
(***************************************************************************)
EXTENDS Naturals, FiniteSets, Sequences, SequencesExt

CONSTANTS
  Hashes,             \* the blocks that may be added
  Genesis,
  K,                  \* params.ghostdag_k
  Work,               \* calc_work(bits) of each block
  MergesetSizeLimit,  \* params.mergeset_size_limit
  None

VARIABLES parents, past, gd

vars == <<parents, past, gd>>

Blocks == DOMAIN parents
PastOf(S) == UNION {past[b] \cup {b} : b \in S}
IsDagAncestorOf(a, b) == a = b \/ a \in past[b]

\* SortableBlock: by blue work, then by hash.
Below(a, b) ==
  \/ gd[a].work < gd[b].work
  \/ gd[a].work = gd[b].work /\ a < b

SortBlocks(S) ==
  LET sort[T \in SUBSET S] ==
        IF T = {} THEN <<>>
        ELSE LET least == CHOOSE b \in T : \A c \in T \ {b} : Below(b, c)
             IN <<least>> \o sort[T \ {least}]
  IN sort[S]

FindSelectedParent(ps) ==
  CHOOSE p \in ps : \A q \in ps \ {p} : Below(q, p)

\* unordered_mergeset_without_selected_parent: from the other parents backwards,
\* up to the past of the selected one.
UnorderedMergeset(selected, ps) ==
  LET search[queue \in SUBSET Hashes, mergeset \in SUBSET Hashes] ==
        IF queue = {} THEN mergeset
        ELSE LET found == {p \in UNION {parents[b] : b \in queue} :
                             p \notin mergeset /\ ~IsDagAncestorOf(p, selected)}
             IN search[found, mergeset \cup found]
      others == ps \ {selected}
  IN search[others, others]

\* blue_anticone_size of a block in the view of a (possibly unfinished) block's
\* data; None where the code panics.
RECURSIVE BlueAnticoneSize(_, _)
BlueAnticoneSize(block, data) ==
  IF block \in DOMAIN data.sizes THEN data.sizes[block]
  ELSE IF data.selected \in {Genesis, None} THEN None
  ELSE BlueAnticoneSize(block, gd[data.selected])

\* The candidate's blue anticone, or that of a blue in it, would exceed k.
Violates(size, peerSize) ==
  size > K \/ peerSize = K

\* check_blue_candidate_with_chain_block: the blues of one chain block that are in
\* the candidate's anticone.
CheckPeers(data, blues, candidate, state) ==
  FoldLeft(LAMBDA st, peer :
             IF st.colour = "red" \/ IsDagAncestorOf(peer, candidate) THEN st
             ELSE LET size == BlueAnticoneSize(peer, data)
                  IN [colour |-> IF Violates(st.size + 1, size) THEN "red" ELSE "pending",
                      size |-> st.size + 1,
                      sizes |-> (peer :> size) @@ st.sizes],
           state, blues)

\* Mutant: the walk ends at the first chain block below the selected parent.
StopsEarly(at, candidate) ==
  at # None

\* All remaining blues are in the past of this chain block.
AllBelow(at, candidate) ==
  at # None /\ IsDagAncestorOf(at, candidate)

\* The walk of check_blue_candidate down the selected chain; at is None for the
\* new block itself.
RECURSIVE WalkDown(_, _, _, _)
WalkDown(data, candidate, at, state) ==
  IF AllBelow(at, candidate) THEN [state EXCEPT !.colour = "blue"]
  ELSE LET chain == IF at = None THEN data ELSE gd[at]
           next == CheckPeers(data, chain.blues, candidate, state)
       IN IF next.colour = "red" THEN next
          ELSE WalkDown(data, candidate, chain.selected, next)

CheckBlueCandidate(data, candidate) ==
  IF Len(data.blues) = K + 1 THEN [colour |-> "red"]
  ELSE WalkDown(data, candidate, None, [colour |-> "pending", size |-> 0, sizes |-> <<>>])

AddBlue(data, candidate, c) ==
  [data EXCEPT !.blues = Append(@, candidate),
               !.sizes = [b \in DOMAIN c.sizes |-> c.sizes[b] + 1] @@ (candidate :> c.size) @@ @]

BlueScore(data) ==
  gd[data.selected].score + Len(data.blues)

BlueWork(data) ==
  gd[data.selected].work + FoldLeft(LAMBDA w, b : w + Work[b], 0, data.blues)

\* ghostdag: the data of a block with these parents.
GhostdagData(ps) ==
  LET selected == FindSelectedParent(ps)
      start == [selected |-> selected, blues |-> <<selected>>, reds |-> <<>>,
                sizes |-> (selected :> 0), score |-> 0, work |-> 0]
      coloured ==
        FoldLeft(LAMBDA data, candidate :
                   LET c == CheckBlueCandidate(data, candidate)
                   IN IF c.colour = "blue" THEN AddBlue(data, candidate, c)
                      ELSE [data EXCEPT !.reds = Append(@, candidate)],
                 start, SortBlocks(UnorderedMergeset(selected, ps)))
  IN [coloured EXCEPT !.score = BlueScore(coloured), !.work = BlueWork(coloured)]

MergesetSize(data) == Len(data.blues) + Len(data.reds)

\* ascending_mergeset_without_selected_parent, after the selected parent.
ConsensusOrderedMergeset(data) ==
  <<data.selected>> \o SortBlocks(ToSet(Tail(data.blues)) \cup ToSet(data.reds))

Init ==
  /\ parents = (Genesis :> {})
  /\ past = (Genesis :> {})
  /\ gd = (Genesis :> [selected |-> None, blues |-> <<>>, reds |-> <<>>, sizes |-> <<>>,
                       score |-> 0, work |-> 0])

\* A header whose parents are no ancestors of each other, and whose merge set is
\* within the limit.
AddBlock(b, ps) ==
  /\ b \notin Blocks
  /\ ps # {}
  /\ \A p, q \in ps : p \notin past[q]
  /\ LET data == GhostdagData(ps)
     IN /\ MergesetSize(data) <= MergesetSizeLimit
        /\ gd' = (b :> data) @@ gd
  /\ parents' = (b :> ps) @@ parents
  /\ past' = (b :> PastOf(ps)) @@ past

Complete ==
  /\ Blocks = Hashes
  /\ UNCHANGED vars

Next ==
  \/ \E b \in Hashes : \E ps \in SUBSET Blocks : AddBlock(b, ps)
  \/ Complete

GhostdagSpec == Init /\ [][Next]_vars

-----------------------------------------------------------------------------
(* What the data is meant to be *)

Anticone(b, S) == {c \in S : c # b /\ c \notin past[b] /\ b \notin past[c]}

\* The blue past of a block: the blues of its selected chain.
RECURSIVE BlueSet(_)
BlueSet(b) ==
  IF b = Genesis THEN {}
  ELSE ToSet(gd[b].blues) \cup BlueSet(gd[b].selected)

\* Can c join the blue set S without making it other than a k-cluster?
Fits(c, S) ==
  /\ Cardinality(Anticone(c, S)) <= K
  /\ \A b \in Anticone(c, S) : Cardinality(Anticone(b, S)) < K

\* The blues of a merge set, greedily, in consensus order.
GreedyBlues(b) ==
  FoldLeft(LAMBDA S, c : IF Fits(c, S) THEN S \cup {c} ELSE S,
           BlueSet(gd[b].selected) \cup {gd[b].selected},
           SortBlocks((past[b] \ past[gd[b].selected]) \ {gd[b].selected}))

-----------------------------------------------------------------------------
(* Properties *)

\* The merge set of a block is what its past has and that of its selected parent
\* does not: unordered_mergeset_without_selected_parent misses nothing although
\* it stops at the selected parent's past.
MergesetIsExact ==
  \A b \in Blocks \ {Genesis} :
    ToSet(gd[b].blues) \cup ToSet(gd[b].reds) = past[b] \ past[gd[b].selected]

\* The shortcuts of the colouring (stop at the first chain block below the
\* candidate, give up at k + 1 blues, sizes from the nearest entry) do not change
\* its outcome: the blues are those of the greedy k-cluster.
ColouringIsGreedy ==
  \A b \in Blocks \ {Genesis} : BlueSet(b) = GreedyBlues(b)

\* The size found in the nearest entry down the chain is the true one; the lookup
\* never runs off the chain ("block is not in blue set of the given context").
AnticoneSizesAreExact ==
  \A b \in Blocks : \A c \in BlueSet(b) :
    BlueAnticoneSize(c, gd[b]) = Cardinality(Anticone(c, BlueSet(b)))

\* The blue score counts the blue past, whatever way it was merged.
ScoreCountsBlues ==
  \A b \in Blocks : gd[b].score = Cardinality(BlueSet(b))

\* "Note that this is a topological order even though the selected parent has
\* highest blue work": no block of an ordered merge set comes before its past.
MergesetOrderIsTopological ==
  \A b \in Blocks \ {Genesis} :
    LET order == ConsensusOrderedMergeset(gd[b])
    IN \A i, j \in 1..Len(order) : i < j => order[j] \notin past[order[i]]

=============================================================================
