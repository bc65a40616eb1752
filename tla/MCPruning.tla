----------------------------- MODULE MCPruning -----------------------------
(***************************************************************************)
(* A small DAG for the pruning processor: side block 102 is in the         *)
(* anticone of pruning point 4; nobody merges block 103, which is on top   *)
(* of pruning point 2.  A node serves a syncee, or syncs with peers, or    *)
(* does neither and may crash more often.                                  *)
(***************************************************************************)
EXTENDS PruningProcessor

LooseSide == {102, 103}
LooseSideParent == [b \in LooseSide |-> IF b = 102 THEN 3 ELSE 2]
LooseSideMergedBy == [b \in LooseSide |-> IF b = 102 THEN 5 ELSE N + 1]

ProofBlocks1 == {0, 1}

\* Each of the three gives the others' share of the bounds away.
Alone == ibds = MaxIbds /\ reads = MaxReads
MixedInit ==
  /\ Start
  /\ \/ crashes = 1 /\ ibds = 0 /\ reads = MaxReads
     \/ crashes = 1 /\ ibds = MaxIbds /\ reads = 0
     \/ crashes = 0 /\ ibds = MaxIbds /\ reads = MaxReads

MixedSpec == MixedInit /\ [][Next]_vars
FairMixedSpec == MixedSpec /\ Fairness

-----------------------------------------------------------------------------
\* A node by itself finishes pruning, whatever crashes and exits interrupt the
\* worker: the UTXO set reaches the pruning point and the data below the retention
\* root goes (recover_pruning_workflows_if_needed takes up what was left).
PruningCompletes == Alone => <>[](position = PruningPoint /\ checkpoint = root)

=============================================================================
