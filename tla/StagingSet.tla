----------------------------- MODULE StagingSet -----------------------------
(***************************************************************************)
(* An ordered set of the reachability store: the tree children or the      *)
(* future covering set of a block (model/stores/reachability.rs).  The     *)
(* database holds its elements without order (bucket) and reading sorts    *)
(* them by interval; the cache holds them in order; a staging entry holds  *)
(* the whole ordered set and what was added to and deleted from it.        *)
(*                                                                         *)
(* An element is a number and its interval starts there: sets are used in  *)
(* the order of their elements.                                            *)
(***************************************************************************)
EXTENDS Naturals, FiniteSets, Sequences, SequencesExt

CONSTANTS
  Elems,       \* 1..n
  MaxOps,      \* bound: operations in one staging
  MaxCommits,  \* bound: commits
  None

VARIABLES bucket, cache, entry, ops, commits, expected

vars == <<bucket, cache, entry, ops, commits, expected>>

InOrder(s) == SetToSortSeq(s, <)

\* StagingSetEntry::mark_addition and mark_deletion
Mark(e, added, deleted) ==
  [set |-> e.set,
   additions |-> (e.additions \ deleted) \cup (added \ e.deletions),
   deletions |-> (e.deletions \ added) \cup (deleted \ e.additions)]

\* DbReachabilitySet::read, for the first operation on the entry of a staging.
StoredSet == IF cache = None THEN InOrder(bucket) ELSE cache

Staged == IF entry = None THEN [set |-> StoredSet, additions |-> {}, deletions |-> {}] ELSE entry

IndexFor(set, x) == Cardinality({i \in 1..Len(set) : set[i] < x}) + 1

\* append (of the last child) and insert (of a covering block) at its place.
InsertElement(x) ==
  /\ ops < MaxOps
  /\ commits < MaxCommits
  /\ x \notin expected
  /\ entry' = Mark([Staged EXCEPT !.set = InsertAt(@, IndexFor(@, x), x)], {x}, {})
  /\ expected' = expected \cup {x}
  /\ ops' = ops + 1
  /\ UNCHANGED <<bucket, cache, commits>>

\* replace: an element gives way to its tree children, which have parts of its
\* interval and so take its place between its neighbours.
Replace(x, with) ==
  /\ ops < MaxOps
  /\ commits < MaxCommits
  /\ x \in expected
  /\ with \cap expected = {}
  /\ x \notin with
  /\ \A y \in with, z \in expected \ {x} : (z < y) <=> (z < x)
  /\ LET i == IndexFor(Staged.set, x)
         spliced == SubSeq(Staged.set, 1, i - 1) \o InOrder(with)
                      \o SubSeq(Staged.set, i + 1, Len(Staged.set))
     IN entry' = Mark(Mark([Staged EXCEPT !.set = spliced], {}, {x}), with, {})
  /\ expected' = (expected \ {x}) \cup with
  /\ ops' = ops + 1
  /\ UNCHANGED <<bucket, cache, commits>>

\* commit_staging_entry and the flush of its batch
Commit ==
  /\ entry # None
  /\ cache' = entry.set
  /\ bucket' = (bucket \ entry.deletions) \cup entry.additions
  /\ entry' = None
  /\ ops' = 0
  /\ commits' = commits + 1
  /\ UNCHANGED expected

\* The cache may drop the set whenever another is inserted.
Evict ==
  /\ cache # None
  /\ cache' = None
  /\ UNCHANGED <<bucket, entry, ops, commits, expected>>

Init ==
  /\ bucket = {}
  /\ cache = None
  /\ entry = None
  /\ ops = 0
  /\ commits = 0
  /\ expected = {}

Next ==
  \/ \E x \in Elems : InsertElement(x)
  \/ \E x \in Elems, with \in SUBSET Elems : Replace(x, with)
  \/ Commit
  \/ Evict

Spec == Init /\ [][Next]_vars

-----------------------------------------------------------------------------
(* Properties *)

\* The set in the staging, and in the cache without one, is the right one and in
\* order for the binary searches, and the differences kept beside it take the
\* bucket to the same set: a restart or an eviction changes nothing.
SetIsExact ==
  /\ Staged.set = InOrder(expected)
  /\ (bucket \ Staged.deletions) \cup Staged.additions = expected

=============================================================================
