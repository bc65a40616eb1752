---------------------------- MODULE DagTraversal ----------------------------
(***************************************************************************)
(* The walks over the DAG that syncing and virtual processing are built    *)
(* from: the chunks of headers a syncer sends, the bodies a syncee misses, *)
(* block locators (consensus/src/processes/sync), chain paths and          *)
(* anticones (traversal_manager.rs), over every DAG that Ghostdag.tla can  *)
(* build.  Each is checked against what it is a shortcut for.              *)
(***************************************************************************)
EXTENDS Ghostdag

\* The selected chain of a block, from the block down to genesis
\* (default_backward_chain_iterator).
RECURSIVE ChainDown(_)
ChainDown(b) ==
  IF b = Genesis THEN <<b>> ELSE <<b>> \o ChainDown(gd[b].selected)

IsChainAncestorOf(a, b) == a \in ToSet(ChainDown(b))

\* forward_chain_iterator and backward_chain_iterator, both ends included.
BackwardChain(from, to) ==
  SelectSeq(ChainDown(from), LAMBDA b : IsChainAncestorOf(to, b))

ForwardChain(from, to) == Reverse(BackwardChain(to, from))

FindHighestCommonChainBlock(low, high) ==
  ChainDown(low)[SelectInSeq(ChainDown(low), LAMBDA b : IsChainAncestorOf(b, high))]

\* The blocks the other side has already.
InPastOfLow(b, low, common) ==
  IsDagAncestorOf(b, low)

\* Mutant: the last chain block is left for the next chunk.
WithoutHighest(blocks, highest) ==
  blocks

\* The merge sets do not have the last chain block itself.
WithHighest(blocks, highest) ==
  Append(blocks, highest)

\* antipast_hashes_between: the ordered merge sets of the chain above low, as many
\* whole ones as fit.
AntipastHashesBetween(low, high, maxBlocks) ==
  LET common == FindHighestCommonChainBlock(low, high)
      reached ==
        FoldLeft(LAMBDA acc, b :
                   IF acc.full \/ Len(acc.blocks) + MergesetSize(gd[b]) > maxBlocks
                   THEN [acc EXCEPT !.full = TRUE]
                   ELSE [full |-> FALSE, highest |-> b,
                         blocks |-> acc.blocks \o
                           SelectSeq(ConsensusOrderedMergeset(gd[b]),
                                     LAMBDA c : ~InPastOfLow(c, low, common))],
                 [full |-> FALSE, highest |-> common, blocks |-> <<>>],
                 Tail(ForwardChain(common, high)))
  IN [blocks |-> IF reached.highest = common THEN <<>> ELSE WithHighest(reached.blocks, reached.highest),
      highest |-> reached.highest]

\* The headers a syncer streams between a chain ancestor and a block
\* (RequestHeaders), one chunk after another, each from where the last one ended.
RECURSIVE Stream(_, _, _)
Stream(low, high, maxBlocks) ==
  IF low = high THEN <<>>
  ELSE LET chunk == AntipastHashesBetween(low, high, maxBlocks)
       IN IF chunk.blocks = <<>> THEN <<None>>
          ELSE chunk.blocks \o Stream(Last(chunk.blocks), high, maxBlocks)

\* Going up, the parent of the first header-only block.
HighestBelow(forward, i) ==
  forward[i]

\* get_missing_block_body_hashes: one step up from the pruning point and one step
\* down from high in turn, until one of them meets the border.
MissingBlockBodyHashes(point, high, bodies) ==
  LET forward == ForwardChain(point, high)
      backward == BackwardChain(high, point)
      search[i \in 1..Len(forward)] ==
        IF i = Len(forward) THEN None
        ELSE IF forward[i + 1] \notin bodies THEN HighestBelow(forward, i)
        ELSE IF backward[i] \in bodies THEN backward[i]
        ELSE search[i + 1]
      highest == search[1]
  IN IF highest \in {None, high} THEN <<>>
     ELSE SelectSeq(AntipastHashesBetween(highest, high, Cardinality(Hashes)).blocks,
                    LAMBDA b : b \notin bodies)

\* lowest_chain_block_above_or_equal_to_blue_score
RECURSIVE LowestChainBlockAbove(_, _)
LowestChainBlockAbove(b, score) ==
  IF b = Genesis \/ gd[gd[b].selected].score < score THEN b
  ELSE LowestChainBlockAbove(gd[b].selected, score)

NextScore(score, step, low) ==
  IF score < step \/ score - step < low THEN low ELSE score - step

\* create_block_locator_from_pruning_point, without a limit.
BlockLocator(high, low) ==
  LET locate[b \in Blocks, step \in Nat] ==
        IF gd[b].score <= gd[low].score THEN <<b>>
        ELSE <<b>> \o locate[LowestChainBlockAbove(b, NextScore(gd[b].score, step, gd[low].score)),
                             2 * step]
  IN locate[high, 1]

FirstOf(limit, seq) ==
  SubSeq(seq, 1, IF limit < Len(seq) THEN limit ELSE Len(seq))

\* calculate_chain_path, with a limit on the blocks added.
ChainPath(from, to, limit) ==
  LET common == FindHighestCommonChainBlock(from, to)
  IN [removed |-> SelectSeq(ChainDown(from), LAMBDA b : ~IsChainAncestorOf(b, to)),
      added |-> FirstOf(limit, Tail(ForwardChain(common, to)))]

StopsAt(b, block) ==
  IsDagAncestorOf(b, block)

\* antipast_traversal from the tips; the anticone leaves out the future.
AntipastTraversal(tips, block, anticoneOnly) ==
  LET search[queue \in SUBSET Hashes, visited \in SUBSET Hashes] ==
        LET here == {b \in queue : ~StopsAt(b, block)}
            found == UNION {parents[b] : b \in here} \ visited
        IN {b \in here : anticoneOnly => ~IsDagAncestorOf(block, b)}
             \cup IF found = {} THEN {} ELSE search[found, visited \cup found]
  IN search[tips, tips]

-----------------------------------------------------------------------------
(* Properties *)

Closed(b) == past[b] \cup {b}

\* Every block comes after its parents, or the receiver has them.
InOrder(seq, known) ==
  \A i \in 1..Len(seq) : \A p \in parents[seq[i]] :
    p \in known \/ \E j \in 1..i - 1 : seq[j] = p

\* The chunks between low and high are, one after another, exactly the headers
\* that high has and low does not, each once and after its parents, for every
\* chunk size the assertion allows, although each chunk but the first starts from
\* the last block of the one before.
StreamIsComplete ==
  \A high \in Blocks : \A low \in ToSet(ChainDown(high)) :
    \A maxBlocks \in {MergesetSizeLimit, MergesetSizeLimit + 1} :
      LET stream == Stream(low, high, maxBlocks)
      IN /\ ToSet(stream) = Closed(high) \ Closed(low)
         /\ Len(stream) = Cardinality(ToSet(stream))
         /\ InOrder(stream, Closed(low))

\* From a low that is not on the chain of high (as in the GetBlocks RPC), one
\* unlimited chunk has what high has and low does not, in order.
AntipastIsExact ==
  \A low, high \in Blocks :
    LET blocks == AntipastHashesBetween(low, high, Cardinality(Hashes)).blocks
    IN high \notin Closed(low) =>
         ToSet(blocks) = Closed(high) \ Closed(low) /\ InOrder(blocks, Closed(low))

\* The missing bodies above the pruning point are found whichever of the two walks
\* meets the border first, for any set of bodies that is closed under parents.
MissingBodiesAreComplete ==
  \A high \in Blocks : \A heads \in SUBSET (Blocks \ {Genesis}) :
    LET bodies == PastOf(heads) \cup {Genesis}
    IN ToSet(MissingBlockBodyHashes(Genesis, high, bodies)) = Closed(high) \ bodies

\* A locator starts with high, ends with low ("ensuring the final block is `low`")
\* and goes down the chain of high; a block may come twice, when its selected
\* parent is below the score of the next step.
LocatorReachesLow ==
  \A high \in Blocks : \A low \in ToSet(ChainDown(high)) :
    LET locator == BlockLocator(high, low)
    IN /\ Head(locator) = high /\ Last(locator) = low
       /\ \A i \in 1..Len(locator) - 1 : locator[i + 1] \in ToSet(ChainDown(locator[i]))

\* A chain path applied to the chain of one block gives the chain of the other; cut
\* off by a limit, it gives the chain of a block below it.
PathLeadsThere ==
  \A from, to \in Blocks : \A limit \in {1, Cardinality(Hashes)} :
    LET path == ChainPath(from, to, limit)
        kept == SelectSeq(Reverse(ChainDown(from)), LAMBDA b : b \notin ToSet(path.removed))
        new == kept \o path.added
    IN /\ new = Reverse(ChainDown(Last(new)))
       /\ IF limit = 1 THEN from = to \/ path.added # <<>> \/ Last(new) = to ELSE Last(new) = to

\* The traversal from the tips finds the anticone and the antipast of any block.
TraversalIsExact ==
  LET tips == {b \in Blocks : \A c \in Blocks : b \notin past[c]}
  IN \A b \in Blocks :
       /\ AntipastTraversal(tips, b, TRUE) = Anticone(b, Blocks)
       /\ AntipastTraversal(tips, b, FALSE) = Blocks \ Closed(b)

=============================================================================
