-------------------------- MODULE ChainNegotiation --------------------------
(***************************************************************************)
(* How a syncing node finds the highest block it shares with the selected  *)
(* chain of a peer (protocol/flows/src/ibd/negotiate.rs), while that chain *)
(* moves, is pruned, and the syncing node itself learns blocks by relay.   *)
(*                                                                         *)
(* The blocks of both nodes are a tree given by the paths of it (selected  *)
(* parents).  tip, point and root are the syncer's selected tip, pruning   *)
(* point and the lowest block its selected_chain_store still has; known    *)
(* are the blocks the syncee has a status for, other than StatusInvalid.   *)
(* One answer of the syncer is one step (it reads the chain store under    *)
(* one lock); the syncee looks at it block by block in later ones.         *)
(***************************************************************************)
EXTENDS Naturals, Sequences, SequencesExt, FiniteSets

CONSTANTS
  Blocks,        \* the tree's blocks
  Genesis,
  Samples,       \* the blocks that can be pruning points
  InitialTips,   \* where the syncer's chain may end at first
  Path,          \* the selected chain of every block, from Genesis to the block
  MaxRestarts,   \* 32 in the code
  MaxLearned,    \* bound: blocks the syncee learns meanwhile
  MaxMoves,      \* bound: changes of the syncer's chain meanwhile
  None

\* An index of the chain store.
IndexOf(b) == Len(Path[b]) - 1

VARIABLES
  tip, point, root,   \* the syncer
  known, invalid,     \* the syncee's statuses
  pc,                 \* full, scan, zoom, done or failed
  locator, at,        \* locator_hashes, and where the syncee is in it
  low, high,          \* current_highest_known.., lowest_unknown_syncer_chain_hash
  zooms,              \* negotiation_zoom_counts
  restarts,           \* negotiation_restart_counter
  initialLen,         \* initial_locator_len
  result,             \* highest_known_syncer_chain_hash
  sink,               \* syncer_virtual_selected_parent
  learned, moves,     \* the bounds' counters
  knownAt             \* history: known when the last full locator was made

syncer == <<tip, point, root, moves>>
search == <<pc, locator, at, low, high, zooms, restarts, initialLen, result, sink, knownAt>>
statuses == <<known, invalid, learned>>
vars == <<syncer, statuses, search>>

InStore(b) == b \in ToSet(Path[tip]) /\ IndexOf(b) >= IndexOf(root)

\* create_virtual_selected_chain_block_locator: from high down with doubling steps,
\* then low.
Locator(lo, hi) ==
  LET down[i \in 0..IndexOf(hi), step \in Nat] ==
        IF i <= IndexOf(lo) THEN <<lo>>
        ELSE IF i < step THEN <<Path[hi][i + 1], lo>>
        ELSE <<Path[hi][i + 1]>> \o down[i - step, 2 * step]
  IN IF lo = hi THEN <<lo>> ELSE down[IndexOf(hi), 1]

\* The syncee knows some block and its past; the syncer is at any tip, pruned or not.
Init ==
  /\ tip \in InitialTips
  /\ point \in Samples \cap ToSet(Path[tip])
  /\ root \in {Genesis, point}
  /\ known \in {{}} \cup {ToSet(Path[b]) : b \in Blocks}
  /\ invalid = {}
  /\ pc = "full"
  /\ locator = <<>> /\ at = 1
  /\ low = None /\ high = None
  /\ zooms = 0 /\ restarts = 0 /\ initialLen = 0
  /\ result = None
  /\ sink = None
  /\ learned = 0 /\ moves = 0
  /\ knownAt = {}

\* A full locator, the first or one after a restart.
AskFull ==
  /\ pc = "full"
  /\ locator' = Locator(point, tip)
  /\ initialLen' = Len(locator')
  /\ sink' = tip
  /\ pc' = "scan"
  /\ low' = None /\ high' = None
  /\ knownAt' = known
  /\ UNCHANGED <<syncer, statuses, at, zooms, restarts, result>>

\* The status of one more block of the locator, from the highest down.
IsKnown == locator[at] \in known
LowestUnknown == IF IsKnown THEN high ELSE locator[at]
HighestKnown == IF IsKnown THEN locator[at] ELSE None

ScanNext ==
  /\ pc = "scan"
  /\ locator[at] \notin known \cup invalid /\ at < Len(locator)
  /\ at' = at + 1
  /\ high' = LowestUnknown
  /\ UNCHANGED <<syncer, statuses, pc, locator, low, zooms, restarts, initialLen, result, sink, knownAt>>

\* The first that is known, or the last; a search that has nothing to narrow ends here.
ScanEnds ==
  /\ pc = "scan"
  /\ locator[at] \notin invalid /\ (IsKnown \/ at = Len(locator))
  /\ at' = 1
  /\ low' = HighestKnown
  /\ high' = LowestUnknown
  /\ IF LowestUnknown = None \/ HighestKnown = None \/ Len(locator) = 1
     THEN pc' = "done" /\ result' = HighestKnown
     ELSE pc' = "zoom" /\ UNCHANGED result
  /\ UNCHANGED <<syncer, statuses, locator, zooms, restarts, initialLen, sink, knownAt>>

\* "sent invalid chain block"
ScanFails ==
  /\ pc = "scan" /\ locator[at] \in invalid
  /\ pc' = "failed"
  /\ UNCHANGED <<syncer, statuses, locator, at, low, high, zooms, restarts, initialLen, result, sink, knownAt>>

\* Mutant: three blocks are close enough.
CloseEnough(loc) ==
  Len(loc) <= 3

\* Two blocks, one above the other, are the end of the search.
IsFound(loc) ==
  Len(loc) = 2

ZoomLimit ==
  initialLen * 2

\* The locator between the highest known and the lowest unknown block.
ZoomIn ==
  /\ pc = "zoom"
  /\ InStore(low) /\ InStore(high)
  /\ locator' = Locator(low, high)
  /\ zooms' = zooms + 1
  /\ IF locator' # <<>> /\ (Head(locator') # high \/ Last(locator') # low)
     THEN pc' = "failed" /\ UNCHANGED result
     ELSE IF IsFound(locator') THEN pc' = "done" /\ result' = low
     ELSE IF zooms' > ZoomLimit THEN pc' = "failed" /\ UNCHANGED result
     ELSE pc' = "scan" /\ UNCHANGED result
  /\ low' = None /\ high' = None
  /\ UNCHANGED <<syncer, statuses, at, restarts, initialLen, sink, knownAt>>

\* negotiation_restart_counter is checked after it is counted.
MayRestart ==
  restarts + 1 <= MaxRestarts

\* BlockNotInSelectedParentChain: the syncer answers with an empty locator and
\* the search starts over.
Restart ==
  /\ pc = "zoom"
  /\ ~(InStore(low) /\ InStore(high))
  /\ zooms' = 0
  /\ restarts' = restarts + 1
  /\ pc' = IF MayRestart THEN "full" ELSE "failed"
  /\ UNCHANGED <<syncer, statuses, locator, at, low, high, initialLen, result, sink, knownAt>>

\* What happens after the search is of no interest here.
Negotiating == pc \in {"full", "scan", "zoom"}

\* The syncer's sink moves to a longer chain, above its pruning point.
NewSink(b) ==
  /\ Negotiating
  /\ moves < MaxMoves
  /\ IndexOf(b) > IndexOf(tip)
  /\ point \in ToSet(Path[b])
  /\ tip' = b
  /\ moves' = moves + 1
  /\ UNCHANGED <<point, root, statuses, search>>

\* The syncer's pruning point moves up its chain, and the chain store is pruned
\* below the root of the retention period, which may stay behind.
Prune(b, r) ==
  /\ Negotiating
  /\ moves < MaxMoves
  /\ b \in Samples \cap ToSet(Path[tip]) /\ IndexOf(b) > IndexOf(point)
  /\ r \in {root, point, b}
  /\ point' = b
  /\ root' = r
  /\ moves' = moves + 1
  /\ UNCHANGED <<tip, statuses, search>>

\* A block reaches the syncee by relay, and is found valid or invalid.
Learn(b) ==
  /\ Negotiating
  /\ learned < MaxLearned
  /\ b \notin known \cup invalid
  /\ b # Genesis /\ Path[b][Len(Path[b]) - 1] \in known
  /\ \/ known' = known \cup {b} /\ UNCHANGED invalid
     \/ invalid' = invalid \cup {b} /\ UNCHANGED known
  /\ learned' = learned + 1
  /\ UNCHANGED <<syncer, search>>

Negotiate == AskFull \/ ScanNext \/ ScanEnds \/ ScanFails \/ ZoomIn \/ Restart

Finished ==
  /\ pc \in {"done", "failed"}
  /\ UNCHANGED vars

Next ==
  \/ Negotiate
  \/ \E b \in Blocks : NewSink(b)
  \/ \E b, r \in Blocks : Prune(b, r)
  \/ \E b \in Blocks : Learn(b)
  \/ Finished

NegotiationSpec == Init /\ [][Next]_vars

-----------------------------------------------------------------------------
(* Properties *)

\* The known blocks of the chain that ends in b, by position.
KnownUpTo(b, set) == {IndexOf(c) : c \in ToSet(Path[b]) \cap set}

\* max(past(syncee) \cap chain(syncer)): the block found is known, it is on the
\* chain of the sink that is reported with it, and no block of that chain above it
\* was known when the search (re)started.  Without a shared block there was none.
FindsTheHighest ==
  pc = "done" =>
    IF result = None
    THEN ToSet(Path[sink]) \cap knownAt \cap {b \in Blocks : IndexOf(b) >= IndexOf(Last(locator))} = {}
    ELSE /\ result \in known \cap ToSet(Path[sink])
         /\ \A i \in KnownUpTo(sink, knownAt) : i <= IndexOf(result)

=============================================================================
