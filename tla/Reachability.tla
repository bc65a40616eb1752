---------------------------- MODULE Reachability ----------------------------
(***************************************************************************)
(* The reachability oracle (consensus/src/processes/reachability): a tree  *)
(* of intervals over the selected parents, reindexed when an interval runs *)
(* out, and for every block an ordered list of blocks that cover the rest  *)
(* of its future.                                                          *)
(*                                                                         *)
(* parents is the reachability relations store, whose links may be new     *)
(* after deletions.  tree is the reachability store: parent, children, interval [s, e],      *)
(* height and fcs (future covering set) of each block, and the reindex     *)
(* root; ok is lost when the code returns an error or fails an assertion.  *)
(* past and chain are the truth: the DAG's and the selected chain's *)
(* ancestors among the blocks that have not been deleted.  Block 0 is      *)
(* ORIGIN; blocks are numbered as they arrive.                             *)
(***************************************************************************)
EXTENDS Integers, FiniteSets, Sequences, SequencesExt, TLC

CONSTANTS
  Capacity,         \* the interval of ORIGIN is 1 .. Capacity (2^64 - 2)
  ReindexDepth,     \* 100
  ReindexSlack,     \* 2^12
  MaxBlocks,        \* bound: blocks added
  MaxBlockParents,  \* bound: direct parents
  MaxHints,         \* bound: hints of the selected tip
  MaxDeleted,       \* bound: blocks deleted
  None

Origin == 0

VARIABLES tree, parents, past, chain, count, hints, deleted

vars == <<tree, parents, past, chain, count, hints, deleted>>

-----------------------------------------------------------------------------
(* Intervals *)

Ival(s, e) == [s |-> s, e |-> e]
Size(i) == (i.e + 1) - i.s
Covers(i, j) == i.s <= j.s /\ j.e <= i.e
StrictlyCovers(i, j) == i.s <= j.s /\ j.e < i.e
Sum(sizes) == FoldLeft(LAMBDA a, b : a + b, 0, sizes)

SplitExact(first, sizes) ==
  [k \in 1..Len(sizes) |->
     LET start == first + Sum(SubSeq(sizes, 1, k - 1))
     IN Ival(start, start + sizes[k] - 1)]

\* Half of the remaining interval, rounded up.
SplitHalf(i) == Ival(i.s, i.s + ((Size(i) + 1) \div 2) - 1)

\* split_exponential: what is left over is shared in proportion to 2^size, each
\* share rounded to the nearest, the last child taking the rest.  Integers here,
\* floats in the code, which may round a tie the other way; any split that gives each
\* child its size would do.
SplitExponential(i, sizes) ==
  LET extra == Size(i) - Sum(sizes)
      most == CHOOSE m \in ToSet(sizes) : \A n \in ToSet(sizes) : n <= m
      weight == [k \in 1..Len(sizes) |-> 2 ^ (12 - (most - sizes[k]))]
      all == Sum(weight)
      biased ==
        FoldLeft(LAMBDA acc, k :
                   LET share == (2 * extra * weight[k] + all) \div (2 * all)
                       bias == IF k = Len(sizes) \/ share > acc.left THEN acc.left ELSE share
                   IN [left |-> acc.left - bias, sizes |-> Append(acc.sizes, sizes[k] + bias)],
                 [left |-> extra, sizes |-> <<>>], [k \in 1..Len(sizes) |-> k])
  IN SplitExact(i.s, biased.sizes)

-----------------------------------------------------------------------------
(* The tree.  Every operation takes the store t and returns it changed. *)

Failed(t) == [t EXCEPT !.ok = FALSE]
SetInterval(t, b, i) == [t EXCEPT !.interval[b] = i]
ChildrenCapacity(t, b) == Ival(t.interval[b].s, t.interval[b].e - 1)

RemainingBefore(t, b) ==
  LET c == ChildrenCapacity(t, b)
  IN IF t.children[b] = <<>> THEN c ELSE Ival(c.s, t.interval[Head(t.children[b])].s - 1)

RemainingAfter(t, b) ==
  LET c == ChildrenCapacity(t, b)
  IN IF t.children[b] = <<>> THEN c ELSE Ival(t.interval[Last(t.children[b])].e + 1, c.e)

IsChainAncestorOf(t, a, b) == Covers(t.interval[a], t.interval[b])
IsStrictChainAncestorOf(t, a, b) == StrictlyCovers(t.interval[a], t.interval[b])

\* binary_search_descendant: the position of the one block of an ordered list
\* whose interval has the descendant's point, or where it would be inserted.
SearchDescendant(t, list, descendant) ==
  LET at == t.interval[descendant].e
      i == Cardinality({k \in 1..Len(list) : t.interval[list[k]].s <= at})
  IN IF i > 0 /\ (t.interval[list[i]].s = at \/ IsChainAncestorOf(t, list[i], descendant))
     THEN [found |-> TRUE, index |-> i]
     ELSE [found |-> FALSE, index |-> i + 1]

IsDagAncestorOf(t, a, b) ==
  IsChainAncestorOf(t, a, b) \/ SearchDescendant(t, t.fcs[a], b).found

NextChainAncestor(t, descendant, ancestor) ==
  t.children[ancestor][SearchDescendant(t, t.children[ancestor], descendant).index]

RECURSIVE SubtreeSize(_, _)
SubtreeSize(t, b) ==
  1 + Sum([k \in 1..Len(t.children[b]) |-> SubtreeSize(t, t.children[b][k])])

Sizes(t, list) == [k \in 1..Len(list) |-> SubtreeSize(t, list[k])]

SetIntervals(t, list, intervals) ==
  FoldLeft(LAMBDA u, k : SetInterval(u, list[k], intervals[k]), t, [k \in 1..Len(list) |-> k])

\* propagate_interval
RECURSIVE Propagate(_, _)
Propagate(t, b) ==
  LET kids == t.children[b]
  IN IF kids = <<>> \/ ~t.ok THEN t
     ELSE IF Size(ChildrenCapacity(t, b)) < Sum(Sizes(t, kids)) THEN Failed(t)
     ELSE FoldLeft(Propagate,
                   SetIntervals(t, kids, SplitExponential(ChildrenCapacity(t, b), Sizes(t, kids))),
                   kids)

SetAndPropagate(t, b, i) == Propagate(SetInterval(t, b, i), b)

Before(list, b) == SubSeq(list, 1, SelectInSeq(list, LAMBDA c : c = b) - 1)
After(list, b) == SubSeq(list, SelectInSeq(list, LAMBDA c : c = b) + 1, Len(list))

\* apply_interval_op with increase, increase_start, ...: what is added to each end.
Moved(t, b, ds, de) == Ival(t.interval[b].s + ds, t.interval[b].e + de)

-----------------------------------------------------------------------------
(* Reindexing for a block outside the subtree of the reindex root: room is  *)
(* taken from the slack on the chain between the common ancestor and the    *)
(* root.  side is 1 when it is taken before the chain and -1 after it.      *)

Slack(t, b, side) == Size(IF side = 1 THEN RemainingBefore(t, b) ELSE RemainingAfter(t, b))

\* increase_start or decrease_end of a block of the chain
Shrunk(t, b, side, offset) ==
  IF side = 1 THEN Moved(t, b, offset, 0) ELSE Moved(t, b, 0, -offset)

\* offset_siblings_before and offset_siblings_after: the siblings between current
\* and the allocation block move, which takes the room itself; without the
\* allocation block among them all move.
OffsetSiblings(t, alloc, current, side, offset) ==
  LET kids == t.children[t.parent[current]]
      nearest == IF side = 1 THEN Reverse(Before(kids, current)) ELSE After(kids, current)
      moved == IF alloc \in ToSet(nearest) THEN Before(nearest, alloc) ELSE nearest
      shifted == FoldLeft(LAMBDA u, b :
                            SetAndPropagate(u, b, Moved(u, b, side * offset, side * offset)),
                          t, moved)
  IN IF alloc \in ToSet(nearest)
     THEN SetAndPropagate(shifted, alloc, IF side = 1 THEN Moved(shifted, alloc, 0, offset)
                                                      ELSE Moved(shifted, alloc, -offset, 0))
     ELSE shifted

\* The walk back from current to the common ancestor.
RECURSIVE WalkDown(_, _, _, _, _, _)
WalkDown(t, alloc, common, current, side, keep) ==
  LET b == t.parent[current]
      offset == Slack(t, b, side) - keep
  IN IF b = common \/ ~t.ok THEN t
     ELSE IF offset < 0 THEN Failed(t)
     ELSE WalkDown(OffsetSiblings(SetInterval(t, b, Shrunk(t, b, side, offset)),
                                  alloc, b, side, offset),
                   alloc, common, b, side, keep)

\* reclaim_interval_before and reclaim_interval_after: up the chain until the
\* slack met is enough, or to the root, which has room for it and for new slack.
RECURSIVE Reclaim(_, _, _, _, _, _, _, _)
Reclaim(t, alloc, common, current, side, required, sum, len) ==
  LET slack == Slack(t, current, side)
      rootOffset == required + ReindexSlack * len - sum
      offset == slack - (sum + slack - required)
  IN IF current = t.root
     THEN WalkDown(OffsetSiblings(SetAndPropagate(t, current, Shrunk(t, current, side, rootOffset)),
                                  alloc, current, side, rootOffset),
                   alloc, common, current, side, ReindexSlack)
     ELSE IF sum + slack >= required
     THEN WalkDown(OffsetSiblings(SetInterval(t, current, Shrunk(t, current, side, offset)),
                                  alloc, current, side, offset),
                   alloc, common, current, side, 0)
     ELSE Reclaim(t, alloc, common, NextChainAncestor(t, t.root, current),
                  side, required, sum + slack, len + 1)

EarlierThanRoot(t, alloc, common) ==
  LET chosen == NextChainAncestor(t, t.root, common)
  IN Reclaim(t, alloc, common, chosen,
             IF t.interval[alloc].s < t.interval[chosen].s THEN 1 ELSE -1,
             SubtreeSize(t, alloc), 0, 0)

\* reindex_intervals: up the tree to the first block with room for its subtree.
RECURSIVE ReindexIntervals(_, _)
ReindexIntervals(t, current) ==
  IF Size(t.interval[current]) >= SubtreeSize(t, current) THEN Propagate(t, current)
  ELSE IF current = Origin \/ current = t.root THEN Failed(t)
  ELSE IF IsStrictChainAncestorOf(t, t.parent[current], t.root)
  THEN EarlierThanRoot(t, current, t.parent[current])
  ELSE ReindexIntervals(t, t.parent[current])

-----------------------------------------------------------------------------
(* Adding a block *)

\* add_tree_block
AddTreeBlock(t, b, parent) ==
  LET room == RemainingAfter(t, parent)
      u == [t EXCEPT !.children = @ @@ (b :> <<>>),
                     !.parent = @ @@ (b :> parent),
                     !.height = @ @@ (b :> t.height[parent] + 1),
                     !.fcs = @ @@ (b :> <<>>),
                     !.interval = @ @@ (b :> IF Size(room) = 0 THEN room ELSE SplitHalf(room))]
      v == [u EXCEPT !.children[parent] = Append(@, b)]
  IN IF Size(room) = 0 THEN ReindexIntervals(v, b) ELSE v

\* insert_to_future_covering_set
InsertToFutureCoveringSet(t, merged, b) ==
  LET at == SearchDescendant(t, t.fcs[merged], b)
  IN IF at.found THEN Failed(t) ELSE [t EXCEPT !.fcs[merged] = InsertAt(@, at.index, b)]

\* add_block_with_params; the order of the mergeset does not matter.
AddBlockTo(t, b, selected, mergeset) ==
  FoldLeft(LAMBDA u, m : InsertToFutureCoveringSet(u, m, b),
           AddTreeBlock(t, b, selected), SetToSeq(mergeset))

-----------------------------------------------------------------------------
(* Moving the reindex root *)

RECURSIVE FindCommonTreeAncestor(_, _)
FindCommonTreeAncestor(t, b) ==
  IF IsChainAncestorOf(t, b, t.root) THEN b ELSE FindCommonTreeAncestor(t, t.parent[b])

\* The highest block of the hint's chain, from b on, that is ReindexDepth below it.
RECURSIVE Highest(_, _, _)
Highest(t, hint, b) ==
  LET child == NextChainAncestor(t, hint, b)
  IN IF t.height[hint] - t.height[child] < ReindexDepth THEN b ELSE Highest(t, hint, child)

\* find_next_reindex_root
FindNextReindexRoot(t, hint) ==
  LET start == IF IsChainAncestorOf(t, t.root, hint) THEN t.root
               ELSE FindCommonTreeAncestor(t, hint)
  IN IF /\ ~IsChainAncestorOf(t, t.root, hint)
        /\ t.height[hint] - t.height[t.root] < ReindexSlack
     THEN [ancestor |-> t.root, next |-> t.root]
     ELSE [ancestor |-> start, next |-> Highest(t, hint, start)]

\* tighten_intervals_before and _after: each sibling gets exactly its size.
Tighten(t, siblings, first) ==
  FoldLeft(Propagate,
           SetIntervals(t, siblings, SplitExact(first, Sizes(t, siblings))), siblings)

\* expand_interval_to_chosen
ExpandIntervalToChosen(t, child, allocation, isFinal) ==
  SetInterval(IF isFinal /\ ~Covers(allocation, t.interval[child])
              THEN SetAndPropagate(t, child, Ival(allocation.s + ReindexSlack,
                                                  allocation.e - ReindexSlack))
              ELSE t,
              child, allocation)

\* concentrate_interval
ConcentrateInterval(t, parent, child, isFinal) ==
  LET kids == t.children[parent]
      before == Sum(Sizes(t, Before(kids, child)))
      after == Sum(Sizes(t, After(kids, child)))
      i == t.interval[parent]
      u == Tighten(t, Before(kids, child), i.s + ReindexSlack)
      v == Tighten(u, After(kids, child), i.e - ReindexSlack - after)
  IN ExpandIntervalToChosen(v, child, Ival(i.s + before + ReindexSlack,
                                           i.e - after - ReindexSlack - 1), isFinal)

RECURSIVE Concentrate(_, _, _)
Concentrate(t, ancestor, next) ==
  LET child == NextChainAncestor(t, next, ancestor)
  IN IF ancestor = next THEN t
     ELSE Concentrate(ConcentrateInterval(t, ancestor, child, child = next), child, next)

\* try_advancing_reindex_root
TryAdvancingReindexRoot(t, hint) ==
  LET found == FindNextReindexRoot(t, hint)
  IN IF found.next = t.root THEN t
     ELSE [Concentrate(t, found.ancestor, found.next) EXCEPT !.root = found.next]

-----------------------------------------------------------------------------
(* Deleting a block *)

Without(f, b) == [x \in DOMAIN f \ {b} |-> f[x]]

ReplaceIn(list, i, items) == SubSeq(list, 1, i - 1) \o items \o SubSeq(list, i + 1, Len(list))

\* Mutant: the covering sets lose the block.
CoveringDropped(t, merged, b) ==
  [t EXCEPT !.fcs[merged] = SelectSeq(@, LAMBDA x : x # b)]

\* replace_future_covering_item
ReplaceCovering(t, merged, b) ==
  LET at == SearchDescendant(t, t.fcs[merged], b)
  IN IF at.found THEN [t EXCEPT !.fcs[merged] = ReplaceIn(@, at.index, t.children[b])]
     ELSE Failed(t)

\* The room of the block goes to its first and last child, or to the sibling on
\* its left.
HandOver(t, b, kids, siblings, index) ==
  LET i == t.interval[b]
  IN IF kids = <<>>
     THEN IF index = 1 THEN t
          ELSE SetInterval(t, siblings[index - 1],
                           Ival(t.interval[siblings[index - 1]].s, i.e))
     ELSE LET u == SetInterval(t, Head(kids), Ival(i.s, IF Len(kids) = 1 THEN i.e
                                                        ELSE t.interval[Head(kids)].e))
          IN IF Len(kids) = 1 THEN u
             ELSE SetInterval(u, Last(kids), Ival(t.interval[Last(kids)].s, i.e))

\* delete_block
DeleteFrom(t, b, mergeset) ==
  LET parent == t.parent[b]
      kids == t.children[b]
      index == SearchDescendant(t, t.children[parent], b).index
      u == [t EXCEPT !.children[parent] = ReplaceIn(@, index, kids),
                     !.parent = [x \in DOMAIN @ |-> IF x \in ToSet(kids) THEN parent ELSE @[x]]]
      v == FoldLeft(LAMBDA w, m : ReplaceCovering(w, m, b), u, SetToSeq(mergeset))
      w == HandOver(v, b, kids, t.children[parent], index)
  IN [w EXCEPT !.children = Without(@, b), !.parent = Without(@, b), !.height = Without(@, b),
               !.fcs = Without(@, b), !.interval = Without(@, b)]

-----------------------------------------------------------------------------
(* The actions *)

Blocks == DOMAIN past

\* unordered_mergeset_without_selected_parent: a walk over the relations.
RECURSIVE GrowMergeset(_, _)
GrowMergeset(mergeset, selected) ==
  LET more == {p \in UNION {parents[m] : m \in mergeset} :
                 ~IsDagAncestorOf(tree, p, selected)} \ mergeset
  IN IF more = {} THEN mergeset ELSE GrowMergeset(mergeset \cup more, selected)

UnorderedMergeset(selected, blockParents) ==
  GrowMergeset(blockParents \ {selected}, selected)

\* The parents of a deleted block its child does not reach otherwise.
NeededGrandparents(b, child) ==
  {g \in parents[b] : \A p \in parents[child] \ {b} : ~IsDagAncestorOf(tree, g, p)}

\* delete_reachability_relations, without the mergeset it returns.
DeleteRelations(b) ==
  [x \in Blocks \ {b} |->
     IF b \in parents[x] THEN (parents[x] \ {b}) \cup NeededGrandparents(b, x) ELSE parents[x]]

Init ==
  /\ tree = [parent |-> (Origin :> None), children |-> (Origin :> <<>>),
             interval |-> (Origin :> Ival(1, Capacity)), height |-> (Origin :> 0),
             fcs |-> (Origin :> <<>>), root |-> Origin, ok |-> TRUE]
  /\ parents = (Origin :> {})
  /\ past = (Origin :> {})
  /\ chain = (Origin :> {})
  /\ count = 0
  /\ hints = 0
  /\ deleted = 0

\* A header is committed: any selected parent, since the oracle does not choose it.
AddBlock ==
  /\ tree.ok
  /\ count < MaxBlocks
  /\ \E of \in SUBSET Blocks : \E selected \in of :
       /\ Cardinality(of) <= MaxBlockParents
       /\ Origin \in of <=> count = 0
       /\ \A p, q \in of : p \notin past[q]
       /\ LET b == count + 1
          IN /\ tree' = AddBlockTo(tree, b, selected, UnorderedMergeset(selected, of))
             /\ parents' = parents @@ (b :> of)
             /\ past' = past @@ (b :> of \cup UNION {past[p] : p \in of})
             /\ chain' = chain @@ (b :> chain[selected] \cup {selected})
             /\ count' = b
  /\ UNCHANGED <<hints, deleted>>

\* hint_virtual_selected_parent, for a tip of the headers or the sink.
HintVirtualSelectedParent ==
  /\ tree.ok
  /\ hints < MaxHints
  /\ \E hint \in Blocks \ {Origin} :
       /\ \A b \in Blocks : hint \notin past[b]
       /\ tree' = TryAdvancingReindexRoot(tree, hint)
  /\ hints' = hints + 1
  /\ UNCHANGED <<parents, past, chain, count, deleted>>

\* The pruning processor deletes blocks far below the reindex root.
DeleteBlock ==
  /\ tree.ok
  /\ deleted < MaxDeleted
  /\ \E b \in Blocks \ {Origin} :
       /\ tree.root \notin chain[b] \cup {b}
       /\ Blocks # {Origin, b}
       /\ tree' = DeleteFrom(tree, b, UnorderedMergeset(tree.parent[b], parents[b]))
       /\ parents' = DeleteRelations(b)
       /\ past' = [x \in Blocks \ {b} |-> past[x] \ {b}]
       /\ chain' = [x \in Blocks \ {b} |-> chain[x] \ {b}]
  /\ deleted' = deleted + 1
  /\ UNCHANGED <<count, hints>>

Next == AddBlock \/ HintVirtualSelectedParent \/ DeleteBlock

Spec == Init /\ [][Next]_vars

-----------------------------------------------------------------------------
(* Properties *)

\* One entry per block everywhere, and no operation has returned an error or
\* failed an assertion of the interval arithmetic.
ReachabilityTypeOK ==
  /\ tree.ok
  /\ tree.root \in Blocks
  /\ \A f \in {DOMAIN tree.parent, DOMAIN tree.children, DOMAIN tree.interval, DOMAIN tree.height,
               DOMAIN tree.fcs, DOMAIN chain, DOMAIN parents} : f = Blocks
  /\ \A b \in Blocks : ToSet(tree.fcs[b]) \subseteq Blocks /\ ToSet(tree.children[b]) \subseteq Blocks

\* is_dag_ancestor_of answers what the DAG says, for every two blocks that are
\* left, however often blocks were reindexed, the root moved or blocks deleted
\* ("for any other B, C, DAG/chain queries are guaranteed to return the same
\* results as before the deletion").
DagQueriesAreExact ==
  \A a, b \in Blocks : IsDagAncestorOf(tree, a, b) <=> a \in past[b] \cup {b}

\* The reachability relations keep exactly the topology of the blocks that are
\* left: the parents of a block are the highest of its ancestors, which are
\* linked through them although the blocks between are gone.
RelationsAreExact ==
  \A b \in Blocks :
    parents[b] = {a \in past[b] : \A c \in past[b] : a \notin past[c]}

\* is_chain_ancestor_of and get_next_chain_ancestor answer what the selected chain
\* says, for the same blocks.
ChainQueriesAreExact ==
  \A a, b \in Blocks :
    /\ IsChainAncestorOf(tree, a, b) <=> a \in chain[b] \cup {b}
    /\ a \in chain[b] =>
         /\ SearchDescendant(tree, tree.children[a], b).found
         /\ NextChainAncestor(tree, b, a)
              \in {c \in chain[b] \cup {b} : chain[c] = chain[a] \cup {a}}

\* The children of a block have intervals of their own within its capacity, in
\* order, and the blocks that cover a block are disjoint and in order: the two
\* lists every binary search runs on (assert_hashes_ordered).
ListsAreOrdered ==
  \A b \in Blocks :
    /\ \A c \in ToSet(tree.children[b]) :
         /\ Size(tree.interval[c]) > 0
         /\ Covers(ChildrenCapacity(tree, b), tree.interval[c])
    /\ \A list \in {tree.children[b], tree.fcs[b]} : \A k \in 1..Len(list) - 1 :
         tree.interval[list[k]].e < tree.interval[list[k + 1]].s

=============================================================================
