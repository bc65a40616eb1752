-------------------------- MODULE StagingRelations --------------------------
(***************************************************************************)
(* Parents and children of blocks, changed through a staging store         *)
(* (consensus/src/processes/relations.rs, model/stores/relations.rs).      *)
(*                                                                         *)
(* dbParents and dbChildren are the store; staging holds what was changed  *)
(* since and is either committed with a batch or lost.  graph is the truth: *)
(* the parents of each block there should be, committed the last one that  *)
(* reached the database.  Block 0 is ORIGIN.                               *)
(***************************************************************************)
EXTENDS Naturals, FiniteSets, FiniteSetsExt, TLC

CONSTANTS
  MaxBlocks,   \* bound: blocks inserted
  MaxOps,      \* bound: operations in one staging
  MaxLost      \* bound: stagings lost

Origin == 0

VARIABLES dbParents, dbChildren, staging, graph, committed, count, ops, lost, ok

vars == <<dbParents, dbChildren, staging, graph, committed, count, ops, lost, ok>>

Nothing == [deletions |-> {}, overrides |-> << >>, inserted |-> {}, removed |-> {}]

Drop(f, k) == [x \in DOMAIN f \ {k} |-> f[x]]

-----------------------------------------------------------------------------
(* The staging store s.  children_insertions and children_deletions are the *)
(* sets of pairs <<parent, child>> inserted and removed.                    *)

HasIn(s, b) == b \notin s.deletions /\ b \in DOMAIN s.overrides \cup DOMAIN dbParents

GetParents(s, b) == IF b \in DOMAIN s.overrides THEN s.overrides[b] ELSE dbParents[b]

GetChildren(s, b) ==
  {c \in 1..MaxBlocks : <<b, c>> \in (dbChildren \cup s.inserted) \ s.removed}

SetParents(s, b, parents) == [s EXCEPT !.overrides = (b :> parents) @@ @]

\* insert_child fails on a deleted entry and on a child that was removed.
MayInsertChild(s, p, c) == p \notin s.deletions /\ <<p, c>> \notin s.removed

InsertChildren(s, ps, c) == [s EXCEPT !.inserted = @ \cup {<<p, c>> : p \in ps}]

\* delete_child, for each parent
DeleteChild(s, ps, c) ==
  [s EXCEPT !.inserted = @ \ {<<p, c>> : p \in ps}, !.removed = @ \cup {<<p, c>> : p \in ps}]

DeleteEntries(s, b) ==
  [s EXCEPT !.overrides = Drop(@, b),
            !.inserted = {pair \in @ : pair[1] # b},
            !.removed = {pair \in @ : pair[1] # b},
            !.deletions = @ \cup {b}]

-----------------------------------------------------------------------------
(* processes/relations.rs *)

\* insert_with_writer
InsertInto(s, b, parents) == InsertChildren(SetParents(s, b, parents), parents, b)

\* replace_parent
ReplaceParent(s, b, replaced, with) ==
  InsertChildren(SetParents(s, b, (GetParents(s, b) \ {replaced}) \cup with), with, b)

\* delete
DeleteBlockFrom(s, b) == DeleteChild(DeleteEntries(s, b), GetParents(s, b), b)

Ancestors(g, b) ==
  LET anc[x \in DOMAIN g] == g[x] \cup UNION {anc[p] : p \in g[x]} IN anc[b]

\* delete_reachability_relations: the parents a child does not reach otherwise.
NeededGrandparents(parentsOfChild, parents, b) ==
  {g \in parents : \A p \in parentsOfChild \ {b} : g # p /\ g \notin Ancestors(graph, p)}

\* delete_level_relations: ORIGIN for a child without other parents.
OriginIfAlone(parentsOfChild, parents, b) ==
  IF parentsOfChild = {b} THEN {Origin} ELSE {}

\* The loop over the children: links[c] are the parents c gets in place of b.
Relink(s, b, links) ==
  FoldSet(LAMBDA c, t : ReplaceParent(t, c, b, links[c]), s, DOMAIN links)

-----------------------------------------------------------------------------
(* The actions *)

Op ==
  /\ ops < MaxOps
  /\ ops' = ops + 1
  /\ UNCHANGED <<dbParents, dbChildren, committed, lost>>

\* A new header, with any parents that do not have one another as ancestors.
Insert ==
  /\ Op
  /\ count < MaxBlocks
  /\ \E parents \in SUBSET DOMAIN graph \ {{}} :
       /\ Cardinality(parents) <= 2
       /\ \A p, q \in parents : p \notin Ancestors(graph, q)
       /\ staging' = InsertInto(staging, count + 1, parents)
       /\ graph' = graph @@ (count + 1 :> parents)
       /\ ok' = (ok /\ ~HasIn(staging, count + 1)
                    /\ \A p \in parents : MayInsertChild(staging, p, count + 1))
  /\ count' = count + 1

\* A deletion, by either rule: the truth is the graph with the block's links
\* replaced in one go.
Delete(Links(_, _, _)) ==
  /\ Op
  /\ \E b \in DOMAIN graph \ {Origin} :
     \E links \in {[c \in GetChildren(staging, b) |->
                      Links(GetParents(staging, c), GetParents(staging, b), b)]} :
       /\ staging' = DeleteBlockFrom(Relink(staging, b, links), b)
       /\ graph' = [x \in DOMAIN graph \ {b} |->
                      IF b \in graph[x] THEN (graph[x] \ {b}) \cup Links(graph[x], graph[b], b)
                      ELSE graph[x]]
       /\ ok' = (ok /\ \A c \in DOMAIN links : \A p \in links[c] : MayInsertChild(staging, p, c))
  /\ UNCHANGED count

DeleteReachabilityRelations == Delete(NeededGrandparents)

DeleteLevelRelations == Delete(OriginIfAlone)

\* Mutant: a deleted entry keeps its children.
ChildrenOfDeletedKept ==
  (dbChildren \cup staging.inserted) \ staging.removed

CommittedChildren ==
  {pair \in dbChildren \cup staging.inserted : pair[1] \notin staging.deletions} \ staging.removed

\* commit, and the batch is written: overrides and insertions, then deletions.
Commit ==
  /\ staging # Nothing
  /\ dbParents' = [b \in (DOMAIN dbParents \cup DOMAIN staging.overrides) \ staging.deletions |->
                     GetParents(staging, b)]
  /\ dbChildren' = CommittedChildren
  /\ staging' = Nothing
  /\ ops' = 0
  /\ committed' = graph
  /\ UNCHANGED <<graph, count, lost, ok>>

\* The staging is dropped: the process ends before the batch is written.
Lose ==
  /\ lost < MaxLost
  /\ staging # Nothing
  /\ staging' = Nothing
  /\ graph' = committed
  /\ ops' = 0
  /\ lost' = lost + 1
  /\ UNCHANGED <<dbParents, dbChildren, committed, count, ok>>

Init ==
  /\ dbParents = (Origin :> {})
  /\ dbChildren = {}
  /\ staging = Nothing
  /\ graph = (Origin :> {})
  /\ committed = graph
  /\ count = 0
  /\ ops = 0
  /\ lost = 0
  /\ ok = TRUE

Next == Insert \/ DeleteReachabilityRelations \/ DeleteLevelRelations \/ Commit \/ Lose

Spec == Init /\ [][Next]_vars

-----------------------------------------------------------------------------
(* Properties *)

\* What the staging store answers is the graph its operations were meant to give,
\* and none of them met an error ("We expect deletion to be permanent").
StagingIsExact ==
  /\ ok
  /\ {b \in 0..MaxBlocks : HasIn(staging, b)} = DOMAIN graph
  /\ \A b \in DOMAIN graph :
       /\ GetParents(staging, b) = graph[b]
       /\ GetChildren(staging, b) = {c \in DOMAIN graph : b \in graph[c]}

\* After a commit, and after a staging was lost, the two stores are those of the
\* committed graph: no child without its parent's link and no link left behind.
StoreIsExact ==
  /\ dbParents = committed
  /\ dbChildren = {<<p, c>> \in (DOMAIN committed) \X (DOMAIN committed) : p \in committed[c]}

=============================================================================
