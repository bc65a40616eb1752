----------------------- MODULE PruningProcessorProofs -----------------------
(***************************************************************************)
(* A pruning point UTXO set that is flagged stable is the state of the     *)
(* block its position names, and a restarted worker finds the diffs up to  *)
(* the pruning point in place: for any chain, any DAG of side blocks, any  *)
(* number of crashes, exits and IBDs, and wherever they happen.            *)
(*                                                                         *)
(* Both follow from PruningInv; here are the steps that move the pruning   *)
(* point and the UTXO set: those of the worker and those of an IBD.        *)
(***************************************************************************)
EXTENDS PruningProcessorLemmas

-----------------------------------------------------------------------------
(* The worker moves the pruning point and its UTXO set *)

\* An IBD that runs on a stable UTXO set has not touched it, nor will its next step.
LEMMA StableIbd ==
  ASSUME PruningInv, ibd.pc = "running", stable
  PROVE  /\ ibd.plan \notin RenewalPlans
         /\ Head(ibd.plan) \notin {"validate", "bodies", "embodied", "clear", "download", "stable"}
<1>1. ibd.plan \notin RenewalPlans
  BY DEF PruningInv, IbdOK
<1> QED
  BY <1>1, RunningPlan, PlanOfStep

\* One round of advance_pruning_utxoset: the diff is that of the block above the
\* position, because nobody else moved the position meanwhile.
LEMMA AdvanceUtxosetStep ==
  ASSUME PruningInv, AdvanceUtxoset
  PROVE  PruningInv'
<1>1. /\ TypeOK /\ PointersOK /\ UtxoOK /\ WorkerOK /\ PositionOK /\ IbdOK
      /\ PruningPoint \in Points /\ PruningPoint \in Nat /\ sink \in Nat /\ position \in Nat /\ root \in Nat
      /\ w.pc = "utxo" /\ w.next <= w.pp /\ w \in WorkerType
  BY Parts DEF AdvanceUtxoset, TypeOK
<1>2. CASE MustHalt
  <2>1. /\ UNCHANGED <<pps, root, position, utxo, stable, overtaken, missing, sink, data, exiting, inbox, recovered, ibd>>
        /\ w' = [w EXCEPT !.pc = "recv"]
    BY <1>2 DEF AdvanceUtxoset, AfterHalt, Goto, WorkerUnchanged, storeVars, modelVars
  <2>2. PruningPoint' = PruningPoint
    BY <2>1 DEF PruningPoint
  <2>3. w' \in WorkerType /\ w'.pc = "recv"
    BY <1>1, <2>1 DEF WorkerType, WorkerSteps
  <2>4. stable => exiting
    BY <1>1, <1>2 DEF MustHalt, InTransitionalIbdState, PointersOK
  <2>5. TypeOK' /\ PointersOK' /\ UtxoOK'
    BY <1>1, <2>1, <2>2, <2>3 DEF TypeOK, PointersOK, UtxoOK
  <2>6. WorkerOK' /\ PositionOK'
    BY <2>1, <2>3, <2>4 DEF WorkerOK, PositionOK, PruneSteps
  <2>7. IbdOK'
    BY <1>1, <2>1, <2>2 DEF IbdOK
  <2> QED
    BY <2>5, <2>6, <2>7 DEF PruningInv
<1>3. CASE ~MustHalt /\ data[w.next] # "full"
  BY <1>3, StopStep DEF AdvanceUtxoset, Panic, modelVars
<1>4. CASE ~MustHalt /\ data[w.next] = "full"
  <2>1. /\ UNCHANGED <<pps, root, stable, overtaken, missing, sink, data, exiting, inbox, recovered, ibd>>
        /\ utxo' = ApplyDiff(utxo, w.next) /\ position' = w.next /\ w' = [w EXCEPT !.next = @ + 1]
    BY <1>4 DEF AdvanceUtxoset, WorkerUnchanged, modelVars
  <2>2. PruningPoint' = PruningPoint
    BY <2>1 DEF PruningPoint
  <2>3. stable /\ ~exiting
    BY <1>1, <1>4 DEF MustHalt, InTransitionalIbdState, TypeOK
  <2>4. w.next \in Chained /\ w.next \in Nat /\ w.next + 1 \in 0..N + 1
    BY <1>1, Numbers DEF WorkerOK, Chained
  <2>5. ~overtaken => w.next = position + 1 /\ w.pp = PruningPoint /\ utxo = position
    BY <1>1, <2>3 DEF PositionOK, UtxoOK
  <2>6. ~overtaken => utxo' = position + 1 /\ position' = position + 1
    BY <1>1, <2>1, <2>5 DEF ApplyDiff
  <2>7. w' \in WorkerType
    BY <1>1, <2>1, <2>4 DEF WorkerType
  <2>8. /\ w'.pc = "utxo" /\ w'.sink = w.sink /\ w'.pp = w.pp /\ w'.root = w.root
        /\ w'.next = w.next + 1
    BY <1>1, <2>1 DEF WorkerType
  <2>9. TypeOK' /\ PointersOK'
    BY <1>1, <2>1, <2>2, <2>4, <2>7 DEF TypeOK, PointersOK
  <2>10. UtxoOK'
    <3>1. \A b \in position + 2..sink : b \in position + 1..sink
      BY <1>1
    <3>2. ~overtaken => position + 1 <= PruningPoint
      BY <1>1, <2>5
    <3> QED
      BY <1>1, <2>1, <2>2, <2>3, <2>6, <3>1, <3>2 DEF UtxoOK
  <2>11. WorkerOK'
    BY <1>1, <2>1, <2>2, <2>4 DEF WorkerOK
  <2>12. PositionOK'
    BY <1>1, <2>1, <2>2, <2>5, <2>6, <2>8 DEF PositionOK, PruneSteps
  <2>13. IbdOK'
    BY <1>1, <2>1, <2>3, StableIbd DEF IbdOK
  <2> QED
    BY <2>9, <2>10, <2>11, <2>12, <2>13 DEF PruningInv
<1> QED
  BY <1>2, <1>3, <1>4

\* What next_pruning_points promises for the sink of a message.
LEMMA NextPoints ==
  ASSUME NEW s \in Chained, NEW p \in Points
  PROVE  LET next == NextPruningPoints(Chain, s, p)
         IN  /\ next \in Seq(Points)
             /\ next # <<>> => p < Last(next) /\ Last(next) + PruningDepth <= s
BY ChainAssumption DEF Points

\* The pruning point moves only on a stable UTXO set that is at the old one.
LEMMA AdvancePruningPointStep ==
  ASSUME PruningInv, AdvancePruningPoint
  PROVE  PruningInv'
<1> DEFINE next == NextPruningPoints(Chain, w.sink, PruningPoint)
<1>1. /\ TypeOK /\ PointersOK /\ UtxoOK /\ WorkerOK /\ PositionOK /\ IbdOK
      /\ PruningPoint \in Points /\ PruningPoint \in Nat /\ sink \in Nat /\ position \in Nat /\ root \in Nat
      /\ w.pc = "advance" /\ w \in WorkerType
  BY Parts DEF AdvancePruningPoint, TypeOK
<1>2. UNCHANGED <<position, utxo, stable, overtaken, missing, sink, data, exiting, inbox, recovered, ibd>>
  BY DEF AdvancePruningPoint, WorkerUnchanged, storeVars, modelVars
<1>3. w.sink \in Chained /\ w.sink <= sink /\ recovered
  BY <1>1 DEF WorkerOK
<1>4. next \in Seq(Points) /\ (next # <<>> => PruningPoint < Last(next) /\ Last(next) + PruningDepth <= w.sink)
  BY <1>1, <1>3, NextPoints
<1>5. CASE next = <<>>
  <2>1. w' = [w EXCEPT !.pc = "recv"] /\ UNCHANGED <<pps, root>>
    BY <1>5 DEF AdvancePruningPoint, Goto, storeVars, modelVars
  <2>2. PruningPoint' = PruningPoint
    BY <2>1 DEF PruningPoint
  <2>3. w' \in WorkerType /\ w'.pc = "recv"
    BY <1>1, <2>1 DEF WorkerType, WorkerSteps
  <2>4. TypeOK' /\ PointersOK' /\ UtxoOK'
    BY <1>1, <1>2, <2>1, <2>2, <2>3 DEF TypeOK, PointersOK, UtxoOK
  <2>5. WorkerOK' /\ PositionOK'
    BY <1>1, <1>2, <2>2, <2>3 DEF WorkerOK, PositionOK, PruneSteps
  <2>6. IbdOK'
    BY <1>1, <1>2, <2>2, <2>3 DEF IbdOK
  <2> QED
    BY <2>4, <2>5, <2>6 DEF PruningInv
<1>6. CASE next # <<>>
  <2>1. /\ pps' = pps \o next
        /\ root' = IF Archival THEN root ELSE AdvanceRetentionRoot(Last(next))
        /\ w' = [w EXCEPT !.pc = "utxoBegin", !.pp = Last(next), !.root = root', !.next = PruningPoint + 1]
    BY <1>6 DEF AdvancePruningPoint
  <2> HIDE DEF next
  <2>2. pps' \in Seq(Points) /\ pps' # <<>> /\ PruningPoint' = Last(next) /\ Last(next) \in Points
    BY <1>1, <1>4, <1>6, <2>1, LastAdded DEF TypeOK, PruningPoint
  <2> DEFINE q == Last(next)
  <2>3. q \in Chained /\ q \in Nat /\ PruningPoint < q /\ q + PruningDepth <= w.sink /\ w.sink \in Nat
    BY <1>3, <1>4, <1>6, <2>2, Numbers, Zenon
  <2> HIDE DEF q
  <2>4. q + PruningDepth <= sink /\ q <= sink
    BY <1>1, <1>3, <2>3, Numbers
  <2>5. stable
    BY <1>1, <2>3, <2>4 DEF PointersOK
  <2>6. root' \in Chained /\ root' <= q
    <3>1. CASE Archival
      BY <1>1, <2>1, <2>3, <3>1 DEF PointersOK, TypeOK
    <3>2. CASE ~Archival
      BY <2>1, <2>3, <3>2, RetentionRootBelow DEF q
    <3> QED
      BY <3>1, <3>2
  <2>7. PruningPoint + 1 \in 0..N + 1
    BY <1>1, Numbers DEF Chained
  <2>8. w' \in WorkerType
    BY <1>1, <2>1, <2>3, <2>6, <2>7, Zenon DEF WorkerType, WorkerSteps, q
  <2>9. /\ w'.pc = "utxoBegin" /\ w'.sink = w.sink /\ w'.pp = q /\ w'.root = root'
        /\ w'.next = PruningPoint + 1
    BY <1>1, <2>1 DEF WorkerType, q
  <2>10. PruningPoint' = q
    BY <2>2 DEF q
  <2>11. TypeOK'
    BY <1>1, <1>2, <2>2, <2>6, <2>8 DEF TypeOK
  <2>12. PointersOK' /\ UtxoOK'
    BY <1>1, <1>2, <2>3, <2>4, <2>6, <2>10 DEF PointersOK, UtxoOK
  <2>13. WorkerOK'
    BY <1>2, <1>3, <2>3, <2>4, <2>6, <2>7, <2>9, <2>10 DEF WorkerOK
  <2>14. PositionOK'
    BY <1>1, <1>2, <2>3, <2>9, <2>10 DEF PositionOK, PruneSteps
  <2>15. IbdOK'
    BY <1>1, <1>2, <2>5, StableIbd DEF IbdOK
  <2> QED
    BY <2>11, <2>12, <2>13, <2>14, <2>15 DEF PruningInv
<1> QED
  BY <1>5, <1>6

-----------------------------------------------------------------------------
(* The steps of an IBD preserve the invariant *)

\* The plan after the end of a step.
LEMMA DoneStep ==
  ASSUME PruningInv, ibd.pc = "running", Done
  PROVE  /\ ibd' \in IbdType
         /\ ibd'.pc = "running" =>
              /\ ibd'.plan = Tail(ibd.plan) /\ ibd'.plan # <<>>
              /\ ibd'.sink = ibd.sink /\ ibd'.target = ibd.target
<1>1. ibd \in IbdType /\ ibd.plan \in CatchUpPlans \cup RenewalPlans \cup HeaderPlans
  BY Parts, RunningPlan DEF TypeOK
<1>2. Tail(ibd.plan) \in {<<>>} \cup CatchUpPlans \cup RenewalPlans \cup HeaderPlans
  BY <1>1, CatchUpSteps, RenewalSteps, HeaderSteps
<1>3. CASE Tail(ibd.plan) = <<>>
  BY <1>3, IdleTypes DEF Done, NoIbd
<1>4. CASE Tail(ibd.plan) # <<>>
  <2>1. ibd' = [ibd EXCEPT !.plan = Tail(ibd.plan)]
    BY <1>4 DEF Done
  <2> QED
    BY <1>1, <1>2, <1>4, <2>1, Zenon DEF IbdType
<1> QED
  BY <1>3, <1>4

\* determine_ibd_type: a catch-up is for a pruning point above the sink, a renewal
\* for the pruning point the node has, while its UTXO set is not there.
LEMMA PlanOfStart ==
  ASSUME PruningInv, NEW point \in Points, IbdPlan(point) # <<>>
  PROVE  LET plan == IbdPlan(point)
         IN  /\ plan \in CatchUpPlans \cup RenewalPlans \cup HeaderPlans
             /\ plan \in CatchUpPlans => sink < point
             /\ plan \in RenewalPlans => ~stable /\ point = PruningPoint
             /\ Head(plan) \notin {"write", "download", "stable"}
             /\ Head(plan) = "clear" => missing = {}
<1> DEFINE plan == IbdPlan(point)
<1>1. /\ TypeOK /\ PointersOK /\ UtxoOK /\ PruningPoint \in Nat /\ sink \in Nat /\ position \in Nat
      /\ point \in Nat /\ point \in Chained
  BY Parts, Numbers
<1>2. \A p \in HeaderPlans : p \notin CatchUpPlans /\ p \notin RenewalPlans /\ Head(p) = "headers"
  BY CatchUpSteps, RenewalSteps, HeaderSteps
<1>3. CASE plan \in HeaderPlans
  BY <1>2, <1>3
<1>4. CASE point = PruningPoint /\ plan \notin HeaderPlans
  <2>1. ~stable
    <3>1. missing = {} /\ stable => plan = <<"headers">>
      BY <1>4 DEF IbdPlan
    <3> QED
      BY <1>1, <1>4, <3>1 DEF HeaderPlans, PointersOK, TypeOK
  <2>2. CASE missing = {}
    <3>1. plan = <<"clear", "download", "stable", "headers">>
      BY <1>4, <2>1, <2>2 DEF IbdPlan
    <3>2. plan \in RenewalPlans /\ Head(plan) = "clear"
      <4>1. plan \in RenewalPlans
        BY <3>1 DEF RenewalPlans
      <4> QED
        BY <3>1, <4>1
    <3> QED
      BY <1>4, <2>1, <2>2, <3>2, PlanOfStep
  <2>3. CASE missing # {}
    <3>1. plan = <<"bodies", "embodied", "clear", "download", "stable", "headers">>
      BY <1>4, <2>1, <2>3 DEF IbdPlan
    <3>2. plan \in RenewalPlans /\ Head(plan) = "bodies"
      <4>1. plan \in RenewalPlans
        BY <3>1 DEF RenewalPlans
      <4> QED
        BY <3>1, <4>1
    <3> QED
      BY <1>4, <2>1, <3>2, PlanOfStep
  <2> QED
    BY <2>2, <2>3
<1>5. CASE point # PruningPoint /\ plan \notin HeaderPlans
  <2>1. /\ ~(point < PruningPoint)
        /\ ~(~InTransitionalIbdState /\ data[point] = "full")
        /\ plan = <<"headers", "verify", "write", "validate", "bodies", "embodied", "clear", "download", "stable">>
    BY <1>5 DEF IbdPlan, HeaderPlans
  <2>2. PruningPoint < point
    BY <1>1, <1>5, <2>1
  <2>3. plan \in CatchUpPlans /\ Head(plan) = "headers"
    <3>1. plan \in CatchUpPlans
      BY <2>1 DEF CatchUpPlans
    <3> QED
      BY <2>1, <3>1
  <2>4. sink < point
    <3>1. CASE ~stable
      BY <1>1, <2>2, <3>1 DEF PointersOK
    <3>2. CASE stable
      <4>1. data[point] # "full"
        BY <1>1, <2>1, <3>2 DEF InTransitionalIbdState, PointersOK
      <4>2. point \notin PruningPoint + 1..sink
        BY <1>1, <3>2, <4>1 DEF UtxoOK
      <4> QED
        BY <1>1, <2>2, <4>2
    <3> QED
      BY <3>1, <3>2
  <2> QED
    BY <2>3, <2>4, PlanOfStep
<1> QED
  BY <1>3, <1>4, <1>5

\* A new IBD.
LEMMA StartIbdStep ==
  ASSUME PruningInv, NEW k \in SyncerSinks, StartIbd(k)
  PROVE  PruningInv'
<1> DEFINE point == Chain.point[k]
           plan == IbdPlan(point)
           target == IF point < PruningPoint THEN PruningPoint ELSE point
<1>1. /\ TypeOK /\ PointersOK /\ UtxoOK /\ WorkerOK /\ PositionOK
      /\ PruningPoint \in Points /\ PruningPoint \in Nat /\ sink \in Nat
  BY Parts
<1>2. /\ UNCHANGED <<pps, root, position, utxo, stable, overtaken, missing, sink, data, exiting, inbox, recovered, w>>
      /\ plan # <<>>
      /\ ibd' = [pc |-> "running", plan |-> plan, sink |-> k, target |-> target, add |-> <<>>]
  BY DEF StartIbd, storeVars, modelVars
<1>3. PruningPoint' = PruningPoint
  BY <1>2 DEF PruningPoint
<1>4. k \in Chained
  BY PruningAssumption
<1>5. point \in Points
  BY <1>4, ChainAssumption DEF Points
<1>6. /\ plan \in CatchUpPlans \cup RenewalPlans \cup HeaderPlans
      /\ plan \in CatchUpPlans => sink < point
      /\ plan \in RenewalPlans => ~stable /\ point = PruningPoint
      /\ Head(plan) \notin {"write", "download", "stable"}
      /\ Head(plan) = "clear" => missing = {}
  BY <1>2, <1>5, PlanOfStart
<1> HIDE DEF plan, point
<1>7. point \in Nat
  BY <1>5, Numbers
<1>8. target \in Points /\ (sink < point => sink < target) /\ (point = PruningPoint => target = PruningPoint)
  BY <1>1, <1>5, <1>7 DEF PointersOK
<1> HIDE DEF target
<1>9. ibd' \in IbdType
  BY <1>2, <1>4, <1>6, <1>8 DEF IbdType
<1>10. ibd'.plan = plan /\ ibd'.target = target /\ ibd'.sink = k
  BY <1>2
<1>11. TypeOK'
  BY <1>1, <1>2, <1>9 DEF TypeOK
<1>12. PointersOK' /\ UtxoOK'
  BY <1>1, <1>2, <1>3 DEF PointersOK, UtxoOK
<1>13. WorkerOK' /\ PositionOK'
  BY <1>1, <1>2, <1>3 DEF WorkerOK, PositionOK, PruneSteps, InFuture
<1>14. IbdOK'
  BY <1>2, <1>3, <1>4, <1>6, <1>8 DEF IbdOK
<1> QED
  BY <1>11, <1>12, <1>13, <1>14 DEF PruningInv

\* An IBD may fail after any step; what it wrote stays.
LEMMA FailIbdStep ==
  ASSUME PruningInv, FailIbd
  PROVE  PruningInv'
<1>1. /\ TypeOK /\ PointersOK /\ UtxoOK /\ WorkerOK /\ PositionOK /\ IbdOK
      /\ PruningPoint \in Points /\ PruningPoint \in Nat /\ sink \in Nat /\ position \in Nat /\ root \in Nat
  BY Parts
<1>2. UNCHANGED <<pps, root, position, utxo, stable, overtaken, missing, sink, data, exiting, inbox, recovered, w>> /\ ibd' = NoIbd
  BY DEF FailIbd, storeVars, IbdUnchanged, modelVars
<1>3. PruningPoint' = PruningPoint
  BY <1>2 DEF PruningPoint
<1>4. TypeOK'
  BY <1>1, <1>2, IdleTypes DEF TypeOK
<1>5. PointersOK'
  BY <1>1, <1>2, <1>3 DEF PointersOK
<1>6. UtxoOK'
  BY <1>1, <1>2, <1>3 DEF UtxoOK
<1>7. WorkerOK'
  BY <1>1, <1>2, <1>3 DEF WorkerOK
<1>8. PositionOK'
  BY <1>1, <1>2, <1>3 DEF PositionOK, PruneSteps
<1>9. IbdOK'
  BY <1>2 DEF IbdOK, NoIbd
<1> QED
  BY <1>4, <1>5, <1>6, <1>7, <1>8, <1>9 DEF PruningInv

\* validate_pruning_points only looks.
LEMMA ValidateStep ==
  ASSUME PruningInv, ValidatePruningPoints
  PROVE  PruningInv'
<1>1. /\ TypeOK /\ PointersOK /\ UtxoOK /\ WorkerOK /\ PositionOK /\ IbdOK
      /\ PruningPoint \in Points /\ PruningPoint \in Nat /\ sink \in Nat /\ position \in Nat /\ root \in Nat
  BY Parts
<1>2. UNCHANGED <<pps, root, position, utxo, stable, overtaken, missing, sink, data, exiting, inbox, recovered, w>>
  BY DEF ValidatePruningPoints, IbdUnchanged, storeVars, IbdAt, modelVars
<1>3. PruningPoint' = PruningPoint
  BY <1>2 DEF PruningPoint
<1>4. ibd.pc = "running" /\ Head(ibd.plan) = "validate"
  BY DEF ValidatePruningPoints, IbdAt
<1>5. ibd.plan \in RenewalPlans
  BY <1>4, RunningPlan, PlanOfStep
<1>6. /\ ibd' \in IbdType
      /\ ibd'.pc = "running" =>
           /\ ibd'.plan = Tail(ibd.plan) /\ ibd'.plan # <<>>
           /\ ibd'.sink = ibd.sink /\ ibd'.target = ibd.target
  BY <1>4, DoneStep DEF ValidatePruningPoints
<1>7. ibd'.pc = "running" =>
        ibd'.plan \in RenewalPlans /\ ibd'.plan \notin CatchUpPlans /\ Head(ibd'.plan) = "bodies"
  BY <1>4, <1>5, <1>6, RenewalSteps, CatchUpSteps, Zenon
<1>8. TypeOK'
  BY <1>1, <1>2, <1>6, Numbers DEF TypeOK
<1>9. PointersOK'
  BY <1>1, <1>2, <1>3 DEF PointersOK
<1>10. UtxoOK'
  BY <1>1, <1>2, <1>3 DEF UtxoOK
<1>11. WorkerOK'
  BY <1>1, <1>2, <1>3 DEF WorkerOK, InFuture
<1>12. PositionOK'
  BY <1>1, <1>2, <1>3 DEF PositionOK, PruneSteps
<1>13. IbdOK'
  BY <1>1, <1>2, <1>3, <1>4, <1>5, <1>6, <1>7 DEF IbdOK
<1> QED
  BY <1>8, <1>9, <1>10, <1>11, <1>12, <1>13 DEF PruningInv

\* sync_missing_trusted_bodies completes the data of the blocks it is for.
LEMMA BodiesStep ==
  ASSUME PruningInv, SyncMissingTrustedBodies
  PROVE  PruningInv'
<1>1. /\ TypeOK /\ PointersOK /\ UtxoOK /\ WorkerOK /\ PositionOK /\ IbdOK
      /\ PruningPoint \in Points /\ PruningPoint \in Nat /\ sink \in Nat /\ position \in Nat /\ root \in Nat
  BY Parts
<1>2. UNCHANGED <<pps, root, position, utxo, stable, overtaken, missing, sink, exiting, inbox, recovered, w>> /\ data' = [b \in Blocks |-> IF b \in missing THEN "full" ELSE data[b]]
  BY DEF SyncMissingTrustedBodies, IbdUnchanged, storeVars, IbdAt, modelVars
<1>3. PruningPoint' = PruningPoint
  BY <1>2 DEF PruningPoint
<1>4. ibd.pc = "running" /\ Head(ibd.plan) = "bodies"
  BY DEF SyncMissingTrustedBodies, IbdAt
<1>5. ibd.plan \in RenewalPlans
  BY <1>4, RunningPlan, PlanOfStep
<1>6. /\ ibd' \in IbdType
      /\ ibd'.pc = "running" =>
           /\ ibd'.plan = Tail(ibd.plan) /\ ibd'.plan # <<>>
           /\ ibd'.sink = ibd.sink /\ ibd'.target = ibd.target
  BY <1>4, DoneStep DEF SyncMissingTrustedBodies
<1>7. ibd'.pc = "running" =>
        ibd'.plan \in RenewalPlans /\ ibd'.plan \notin CatchUpPlans /\ Head(ibd'.plan) = "embodied"
  BY <1>4, <1>5, <1>6, RenewalSteps, CatchUpSteps, Zenon
<1>8. data' \in DataType
  BY <1>1, <1>2 DEF TypeOK, DataType
<1>9. ~stable
  BY <1>1, <1>4, <1>5 DEF IbdOK
<1>10. TypeOK'
  BY <1>1, <1>2, Numbers DEF TypeOK
<1>11. PointersOK'
  BY <1>1, <1>2, <1>3 DEF PointersOK
<1>12. UtxoOK'
  BY <1>2, <1>9 DEF UtxoOK
<1>13. WorkerOK'
  BY <1>1, <1>2, <1>3 DEF WorkerOK, InFuture
<1>14. PositionOK'
  BY <1>1, <1>2, <1>3 DEF PositionOK, PruneSteps
<1>15. IbdOK'
  BY <1>1, <1>2, <1>3, <1>4, <1>5, <1>6, <1>7 DEF IbdOK
<1> QED
  BY <1>10, <1>11, <1>12, <1>13, <1>14, <1>15 DEF PruningInv

\* clear_body_missing_anticone_set.
LEMMA EmbodiedStep ==
  ASSUME PruningInv, ClearBodyMissing
  PROVE  PruningInv'
<1>1. /\ TypeOK /\ PointersOK /\ UtxoOK /\ WorkerOK /\ PositionOK /\ IbdOK
      /\ PruningPoint \in Points /\ PruningPoint \in Nat /\ sink \in Nat /\ position \in Nat /\ root \in Nat
  BY Parts
<1>2. UNCHANGED <<pps, root, position, utxo, stable, overtaken, sink, data, exiting, inbox, recovered, w>> /\ missing' = {}
  BY DEF ClearBodyMissing, IbdUnchanged, storeVars, IbdAt, modelVars
<1>3. PruningPoint' = PruningPoint
  BY <1>2 DEF PruningPoint
<1>4. ibd.pc = "running" /\ Head(ibd.plan) = "embodied"
  BY DEF ClearBodyMissing, IbdAt
<1>5. ibd.plan \in RenewalPlans
  BY <1>4, RunningPlan, PlanOfStep
<1>6. /\ ibd' \in IbdType
      /\ ibd'.pc = "running" =>
           /\ ibd'.plan = Tail(ibd.plan) /\ ibd'.plan # <<>>
           /\ ibd'.sink = ibd.sink /\ ibd'.target = ibd.target
  BY <1>4, DoneStep DEF ClearBodyMissing
<1>7. ibd'.pc = "running" =>
        ibd'.plan \in RenewalPlans /\ ibd'.plan \notin CatchUpPlans /\ Head(ibd'.plan) = "clear"
  BY <1>4, <1>5, <1>6, RenewalSteps, CatchUpSteps, Zenon
<1>8. ~stable
  BY <1>1, <1>4, <1>5 DEF IbdOK
<1>9. TypeOK'
  BY <1>1, <1>2, <1>6, Numbers DEF TypeOK
<1>10. PointersOK'
  BY <1>1, <1>2, <1>3 DEF PointersOK
<1>11. UtxoOK'
  BY <1>1, <1>2, <1>3 DEF UtxoOK
<1>12. WorkerOK'
  BY <1>1, <1>2, <1>3 DEF WorkerOK, InFuture
<1>13. PositionOK'
  BY <1>1, <1>2, <1>3 DEF PositionOK, PruneSteps
<1>14. IbdOK'
  BY <1>1, <1>2, <1>3, <1>4, <1>5, <1>6, <1>7 DEF IbdOK
<1> QED
  BY <1>9, <1>10, <1>11, <1>12, <1>13, <1>14 DEF PruningInv

\* The flag is lowered, and only then the UTXO set goes.
LEMMA ClearStep ==
  ASSUME PruningInv, ClearPruningUtxoSet
  PROVE  PruningInv'
<1>1. /\ TypeOK /\ PointersOK /\ UtxoOK /\ WorkerOK /\ PositionOK /\ IbdOK
      /\ PruningPoint \in Points /\ PruningPoint \in Nat /\ sink \in Nat /\ position \in Nat /\ root \in Nat
  BY Parts
<1>2. UNCHANGED <<pps, root, position, overtaken, missing, sink, data, exiting, inbox, recovered, w>> /\ stable' = FALSE /\ utxo' = Partial
  BY DEF ClearPruningUtxoSet, IbdUnchanged, storeVars, IbdAt, modelVars
<1>3. PruningPoint' = PruningPoint
  BY <1>2 DEF PruningPoint
<1>4. ibd.pc = "running" /\ Head(ibd.plan) = "clear"
  BY DEF ClearPruningUtxoSet, IbdAt
<1>5. ibd.plan \in RenewalPlans
  BY <1>4, RunningPlan, PlanOfStep
<1>6. /\ ibd' \in IbdType
      /\ ibd'.pc = "running" =>
           /\ ibd'.plan = Tail(ibd.plan) /\ ibd'.plan # <<>>
           /\ ibd'.sink = ibd.sink /\ ibd'.target = ibd.target
  BY <1>4, DoneStep DEF ClearPruningUtxoSet
<1>7. ibd'.pc = "running" =>
        ibd'.plan \in RenewalPlans /\ ibd'.plan \notin CatchUpPlans /\ Head(ibd'.plan) = "download"
  BY <1>4, <1>5, <1>6, RenewalSteps, CatchUpSteps, Zenon
<1>8. ~stable /\ missing = {} /\ ibd.target = PruningPoint
  BY <1>1, <1>4, <1>5 DEF IbdOK
<1>9. TypeOK'
  BY <1>1, <1>2, <1>6, Numbers, Zenon DEF TypeOK
<1>10. PointersOK'
  BY <1>1, <1>2, <1>3, <1>8 DEF PointersOK
<1>11. UtxoOK'
  BY <1>2 DEF UtxoOK
<1>12. WorkerOK'
  BY <1>1, <1>2, <1>3 DEF WorkerOK, InFuture
<1>13. PositionOK'
  BY <1>2 DEF PositionOK, PruneSteps
<1>14. IbdOK'
  BY <1>1, <1>2, <1>3, <1>4, <1>6, <1>7, <1>8 DEF IbdOK
<1> QED
  BY <1>9, <1>10, <1>11, <1>12, <1>13, <1>14 DEF PruningInv

\* import_pruning_point_utxo_set leaves set, position and sink at the target, which is still the pruning point.
LEMMA ImportStep ==
  ASSUME PruningInv, ImportPruningPointUtxoSet
  PROVE  PruningInv'
<1>1. /\ TypeOK /\ PointersOK /\ UtxoOK /\ WorkerOK /\ PositionOK /\ IbdOK
      /\ PruningPoint \in Points /\ PruningPoint \in Nat /\ sink \in Nat /\ position \in Nat /\ root \in Nat
  BY Parts
<1>2. UNCHANGED <<pps, root, stable, overtaken, missing, data, exiting, inbox, recovered, w>> /\ utxo' = (IF utxo = Partial THEN ibd.target ELSE Wrong) /\ position' = ibd.target /\ sink' = ibd.target
  BY DEF ImportPruningPointUtxoSet, IbdUnchanged, storeVars, IbdAt, modelVars
<1>3. PruningPoint' = PruningPoint
  BY <1>2 DEF PruningPoint
<1>4. ibd.pc = "running" /\ Head(ibd.plan) = "download"
  BY DEF ImportPruningPointUtxoSet, IbdAt
<1>5. ibd.plan \in RenewalPlans
  BY <1>4, RunningPlan, PlanOfStep
<1>6. /\ ibd' \in IbdType
      /\ ibd'.pc = "running" =>
           /\ ibd'.plan = Tail(ibd.plan) /\ ibd'.plan # <<>>
           /\ ibd'.sink = ibd.sink /\ ibd'.target = ibd.target
  BY <1>4, DoneStep DEF ImportPruningPointUtxoSet
<1>7. ibd'.pc = "running" =>
        ibd'.plan \in RenewalPlans /\ ibd'.plan \notin CatchUpPlans /\ Head(ibd'.plan) = "stable"
  BY <1>4, <1>5, <1>6, RenewalSteps, CatchUpSteps, Zenon
<1>8. ~stable /\ missing = {} /\ utxo = Partial /\ ibd.target = PruningPoint /\ sink = PruningPoint
  BY <1>1, <1>4, <1>5 DEF IbdOK, PointersOK
<1>9. position' = PruningPoint /\ sink' = sink /\ utxo' = PruningPoint /\ PruningPoint \in Chained
  BY <1>1, <1>2, <1>8, Numbers DEF ImportPruningPointUtxoSet
<1>10. TypeOK'
  BY <1>1, <1>2, <1>6, <1>9, Numbers DEF TypeOK
<1>11. PointersOK'
  BY <1>1, <1>2, <1>3, <1>9 DEF PointersOK
<1>12. UtxoOK'
  BY <1>2, <1>8 DEF UtxoOK
<1>13. WorkerOK'
  BY <1>1, <1>2, <1>3, <1>9 DEF WorkerOK, InFuture
<1>14. PositionOK'
  BY <1>2, <1>8 DEF PositionOK, PruneSteps
<1>15. IbdOK'
  BY <1>1, <1>2, <1>3, <1>4, <1>6, <1>7, <1>8, <1>9 DEF IbdOK
<1> QED
  BY <1>10, <1>11, <1>12, <1>13, <1>14, <1>15 DEF PruningInv

\* The flag is raised on a UTXO set that is at the pruning point and the sink.
LEMMA StableStep ==
  ASSUME PruningInv, SetUtxosetStable
  PROVE  PruningInv'
<1>1. /\ TypeOK /\ PointersOK /\ UtxoOK /\ WorkerOK /\ PositionOK /\ IbdOK
      /\ PruningPoint \in Points /\ PruningPoint \in Nat /\ sink \in Nat /\ position \in Nat /\ root \in Nat
  BY Parts
<1>2. /\ UNCHANGED <<pps, root, position, utxo, missing, sink, data, exiting, inbox, recovered, w>>
      /\ stable' = TRUE /\ overtaken' = (w.pc \in {"utxoBegin", "utxo"})
  BY DEF SetUtxosetStable
<1>3. PruningPoint' = PruningPoint
  BY <1>2 DEF PruningPoint
<1>4. ibd.pc = "running" /\ Head(ibd.plan) = "stable"
  BY DEF SetUtxosetStable, IbdAt
<1>5. ibd.plan \in RenewalPlans
  BY <1>4, RunningPlan, PlanOfStep
<1>6. /\ ibd' \in IbdType
      /\ ibd'.pc = "running" =>
           /\ ibd'.plan = Tail(ibd.plan) /\ ibd'.plan # <<>>
           /\ ibd'.sink = ibd.sink /\ ibd'.target = ibd.target
  BY <1>4, DoneStep DEF SetUtxosetStable
<1>7. ibd'.pc = "running" => ibd'.plan \notin CatchUpPlans /\ ibd'.plan \notin RenewalPlans /\ Head(ibd'.plan) = "headers"
  <2> SUFFICES ASSUME ibd'.pc = "running"
               PROVE  ibd'.plan \notin CatchUpPlans /\ ibd'.plan \notin RenewalPlans /\ Head(ibd'.plan) = "headers"
    OBVIOUS
  <2>1. ibd'.plan \in HeaderPlans
    BY <1>4, <1>5, <1>6, RenewalSteps, Zenon
  <2>2. Head(ibd'.plan) = "headers" /\ Tail(ibd'.plan) = <<>>
    BY <2>1, HeaderSteps
  <2> QED
    BY <2>1, <2>2, CatchUpSteps, PlanOfStep
<1>8. missing = {} /\ utxo = position /\ position = PruningPoint /\ sink = PruningPoint
  BY <1>1, <1>4, ReadySet DEF PointersOK
<1>9. TypeOK'
  BY <1>1, <1>2, <1>6, Numbers DEF TypeOK
<1>10. PointersOK'
  BY <1>1, <1>2, <1>3, <1>8 DEF PointersOK
<1>11. UtxoOK'
  BY <1>1, <1>2, <1>3, <1>8 DEF UtxoOK
<1>12. WorkerOK'
  BY <1>1, <1>2, <1>3 DEF WorkerOK, InFuture
<1>13. PositionOK'
  BY <1>2, <1>3, <1>8, Zenon DEF PositionOK, PruneSteps
<1>14. IbdOK'
  BY <1>1, <1>4, <1>6, <1>7 DEF IbdOK
<1> QED
  BY <1>9, <1>10, <1>11, <1>12, <1>13, <1>14 DEF PruningInv

\* Headers come with nothing else.
LEMMA SyncHeadersStep ==
  ASSUME PruningInv, SyncHeaders
  PROVE  PruningInv'
<1>1. /\ TypeOK /\ PointersOK /\ UtxoOK /\ WorkerOK /\ PositionOK /\ IbdOK
      /\ PruningPoint \in Nat /\ sink \in Nat /\ position \in Nat
      /\ ibd.pc = "running" /\ Head(ibd.plan) = "headers"
  BY Parts DEF SyncHeaders, IbdAt
<1>2. UNCHANGED <<pps, root, position, utxo, stable, overtaken, missing, sink, exiting, inbox, recovered, w>>
  BY DEF SyncHeaders, IbdUnchanged, modelVars
<1>3. PruningPoint' = PruningPoint
  BY <1>2 DEF PruningPoint
<1>4. data' \in DataType /\ \A b \in Blocks : data[b] = "full" => data'[b] = "full"
  BY <1>1 DEF SyncHeaders, TypeOK, DataType
<1>5. /\ ibd' \in IbdType
      /\ ibd'.pc = "running" =>
           /\ ibd'.plan = Tail(ibd.plan) /\ ibd'.plan # <<>>
           /\ ibd'.sink = ibd.sink /\ ibd'.target = ibd.target
  BY <1>1, DoneStep DEF SyncHeaders
<1>6. ibd'.pc = "running" =>
        ibd.plan \in CatchUpPlans /\ ibd'.plan \in CatchUpPlans /\ ibd'.plan \notin RenewalPlans /\ Head(ibd'.plan) = "verify"
  <2> SUFFICES ASSUME ibd'.pc = "running"
               PROVE  /\ ibd.plan \in CatchUpPlans /\ ibd'.plan \in CatchUpPlans
                      /\ ibd'.plan \notin RenewalPlans /\ Head(ibd'.plan) = "verify"
    OBVIOUS
  <2>1. ibd.plan \in CatchUpPlans
    BY <1>1, <1>5, RunningPlan, PlanOfStep, HeaderSteps, Zenon
  <2>2. Tail(ibd.plan) \in CatchUpPlans /\ Head(Tail(ibd.plan)) = "verify"
    BY <1>1, <2>1, CatchUpSteps
  <2> QED
    BY <1>5, <2>1, <2>2, PlanOfStep, Zenon
<1>7. TypeOK'
  BY <1>1, <1>2, <1>4, <1>5 DEF TypeOK
<1>8. PointersOK'
  BY <1>1, <1>2, <1>3 DEF PointersOK
<1>9. UtxoOK'
  <2>1. /\ \A b \in position + 1..sink : b \in Blocks
        /\ \A b \in PruningPoint + 1..sink : b \in Blocks
    BY <1>1, Numbers DEF TypeOK, Chained
  <2> QED
    BY <1>1, <1>2, <1>3, <1>4, <2>1 DEF UtxoOK
<1>10. WorkerOK' /\ PositionOK'
  BY <1>1, <1>2, <1>3 DEF WorkerOK, PositionOK, PruneSteps, InFuture
<1>11. IbdOK'
  BY <1>1, <1>2, <1>5, <1>6 DEF IbdOK
<1> QED
  BY <1>7, <1>8, <1>9, <1>10, <1>11 DEF PruningInv

\* The path that was verified ends in the target.
LEMMA VerifyPathStep ==
  ASSUME PruningInv, VerifyPath
  PROVE  PruningInv'
<1>1. /\ TypeOK /\ PointersOK /\ UtxoOK /\ WorkerOK /\ PositionOK /\ IbdOK
      /\ PruningPoint \in Points /\ PruningPoint \in Nat /\ sink \in Nat
      /\ ibd.pc = "running" /\ Head(ibd.plan) = "verify" /\ ibd \in IbdType
  BY Parts DEF VerifyPath, IbdAt, TypeOK
<1>2. /\ UNCHANGED <<pps, root, position, utxo, stable, overtaken, missing, sink, data, exiting, inbox, recovered, w>>
      /\ ibd' = [ibd EXCEPT !.plan = Tail(@), !.add = PointsToAdd]
      /\ ibd.target + PruningDepth <= ibd.sink /\ PointsToAdd # <<>> /\ Last(PointsToAdd) = ibd.target
  BY DEF VerifyPath, PathIsValid, IbdUnchanged, storeVars, modelVars
<1>3. PruningPoint' = PruningPoint
  BY <1>2 DEF PruningPoint
<1>4. ibd.plan \in CatchUpPlans
  BY <1>1, RunningPlan, PlanOfStep
<1>5. ibd.target \in Points /\ ibd.sink \in Chained /\ sink < ibd.target
  BY <1>1, <1>4 DEF IbdOK
<1>6. Tail(ibd.plan) \in CatchUpPlans /\ Head(Tail(ibd.plan)) = "write"
  BY <1>1, <1>4, CatchUpSteps
<1>7. PointsToAdd \in Seq(Points)
  <2>1. ibd.target \in Nat /\ ibd.sink \in Nat
    BY <1>5, Numbers, Zenon
  <2>2. PruningPoint <= ibd.sink
    BY <1>1, <1>2, <1>5, Numbers DEF PointersOK
  <2>3. PointsBetween(PruningPoint, ibd.target, ibd.sink) \in Seq(Points)
    BY <1>1, <1>5, <2>2, ChainAssumption, Zenon DEF Points
  <2> QED
    BY <2>3 DEF PointsToAdd
<1>8. ibd' \in IbdType
  BY <1>1, <1>2, <1>6, <1>7, Zenon DEF IbdType
<1>9. /\ ibd'.pc = "running" /\ ibd'.plan = Tail(ibd.plan) /\ ibd'.sink = ibd.sink
      /\ ibd'.target = ibd.target /\ ibd'.add = PointsToAdd
  BY <1>1, <1>2 DEF IbdType
<1>10. ibd'.plan # <<>> /\ ibd'.plan \notin RenewalPlans /\ Head(ibd'.plan) = "write"
  BY <1>6, <1>9, CatchUpSteps, PlanOfStep, Zenon
<1>11. TypeOK'
  BY <1>1, <1>2, <1>8 DEF TypeOK
<1>12. PointersOK' /\ UtxoOK'
  BY <1>1, <1>2, <1>3 DEF PointersOK, UtxoOK
<1>13. WorkerOK' /\ PositionOK'
  BY <1>1, <1>2, <1>3 DEF WorkerOK, PositionOK, PruneSteps, InFuture
<1>14. IbdOK'
  BY <1>2, <1>5, <1>10 DEF IbdOK
<1> QED
  BY <1>11, <1>12, <1>13, <1>14 DEF PruningInv

\* The batch of a catch-up: pruning point and sink are the target, and the flag is
\* lowered in the same batch, so a worker that is on its way finds it.
LEMMA WritePathStep ==
  ASSUME PruningInv, WritePath
  PROVE  PruningInv'
<1>1. /\ TypeOK /\ PointersOK /\ WorkerOK /\ IbdOK
      /\ PruningPoint \in Points /\ PruningPoint \in Nat /\ sink \in Nat /\ root \in Nat
      /\ ibd.pc = "running" /\ Head(ibd.plan) = "write" /\ ibd \in IbdType
  BY Parts DEF WritePath, IbdAt, TypeOK
<1>2. /\ UNCHANGED <<position, utxo, overtaken, data, exiting, inbox, recovered, w>>
      /\ pps' = pps \o ibd.add
      /\ root' = IF Archival THEN root ELSE AdvanceRetentionRoot(ibd.target)
      /\ sink' = ibd.target /\ stable' = FALSE
      /\ missing' = {ibd.target} \cup
           {b \in Side : SideParent[b] < ibd.target /\ ibd.target < MergedBy[b] /\ MergedBy[b] <= ibd.sink}
  BY DEF WritePath, WritePruningPoint, IbdUnchanged, modelVars
<1>3. ibd.plan \in CatchUpPlans
  BY <1>1, RunningPlan, PlanOfStep
<1>4. /\ ibd.target \in Points /\ ibd.sink \in Chained /\ sink < ibd.target
      /\ ibd.add \in Seq(Points) /\ ibd.add # <<>> /\ Last(ibd.add) = ibd.target
  BY <1>1, <1>3 DEF IbdOK, IbdType
<1>5. ibd.target \in Chained /\ ibd.target \in Nat /\ ibd.target \in Blocks
  BY <1>4, Numbers, Zenon
<1>6. pps' \in Seq(Points) /\ pps' # <<>> /\ PruningPoint' = ibd.target
  BY <1>1, <1>2, <1>4, LastAdded DEF TypeOK, PruningPoint
<1>7. /\ ibd' \in IbdType
      /\ ibd'.pc = "running" =>
           /\ ibd'.plan = Tail(ibd.plan) /\ ibd'.plan # <<>>
           /\ ibd'.sink = ibd.sink /\ ibd'.target = ibd.target
  BY <1>1, DoneStep DEF WritePath
<1>8. ibd'.pc = "running" =>
        ibd'.plan \in RenewalPlans /\ ibd'.plan \notin CatchUpPlans /\ Head(ibd'.plan) = "validate"
  <2>1. Tail(ibd.plan) \in RenewalPlans /\ Head(Tail(ibd.plan)) = "validate"
    BY <1>1, <1>3, CatchUpSteps
  <2>2. Tail(ibd.plan) \notin CatchUpPlans
    BY <2>1, CatchUpSteps, Zenon
  <2> QED
    BY <1>7, <2>1, <2>2, Zenon
<1>9. root' \in Chained /\ root' <= ibd.target
  <2>1. CASE Archival
    BY <1>1, <1>2, <1>4, <1>5, <2>1 DEF PointersOK, TypeOK
  <2>2. CASE ~Archival
    BY <1>2, <1>5, <2>2, RetentionRootBelow
  <2> QED
    BY <2>1, <2>2
<1>10. TypeOK'
  <2>1. missing' \subseteq Blocks
    BY <1>2, <1>5 DEF Blocks
  <2> QED
    BY <1>1, <1>2, <1>5, <1>6, <1>7, <1>9, <2>1, Zenon DEF TypeOK
<1>11. PointersOK'
  <2>1. inbox # None => inbox <= ibd.target
    BY <1>1, <1>4, <1>5, Numbers DEF PointersOK, TypeOK
  <2> QED
    BY <1>2, <1>5, <1>6, <1>9, <2>1 DEF PointersOK
<1>12. UtxoOK' /\ PositionOK'
  BY <1>2 DEF UtxoOK, PositionOK
<1>13. WorkerOK'
  <2>1. /\ w.pc # "recv" => w.sink \in Chained /\ w.sink \in Nat /\ w.sink <= sink
        /\ w.pc \notin {"recv", "recover", "advance"} =>
             /\ w.pp \in Chained /\ w.root \in Chained /\ w.pp \in Nat
             /\ w.root <= w.pp /\ w.pp <= PruningPoint
        /\ w.pc = "utxoBegin" /\ recovered => w.pp + PruningDepth <= sink
    BY <1>1, Numbers, Zenon DEF WorkerOK
  <2>2. /\ w.pc # "recv" => w.sink <= ibd.target
        /\ w.pc \notin {"recv", "recover", "advance"} => w.pp <= ibd.target
        /\ w.pc = "utxoBegin" /\ recovered => w.pp + PruningDepth <= ibd.target
    BY <1>1, <1>4, <1>5, <2>1, Numbers DEF PointersOK
  <2> QED
    BY <1>1, <1>2, <1>6, <2>1, <2>2 DEF WorkerOK, InFuture
<1>14. IbdOK'
  BY <1>2, <1>4, <1>6, <1>7, <1>8 DEF IbdOK
<1> QED
  BY <1>10, <1>11, <1>12, <1>13, <1>14 DEF PruningInv

-----------------------------------------------------------------------------
(* The theorems *)

\* Every step of the node, of its worker, of an IBD and of a syncee's request.
LEMMA InvStep ==
  ASSUME PruningInv, [Next]_vars
  PROVE  PruningInv'
<1>1. CASE Crash \/ WorkerExit
  <2>1. \E reason \in {"down"} : StopAs(reason) /\ UNCHANGED <<storeVars, overtaken>>
    BY <1>1 DEF Crash, WorkerExit, modelVars
  <2> QED
    BY <2>1, StopStep
<1>2. CASE SignalExit
  BY <1>2, SignalExitStep
<1>3. CASE Restart
  BY <1>3, InvFrame DEF Restart, storeVars, modelVars
<1>4. CASE AddBlock
  BY <1>4, AddBlockStep
<1>5. CASE ResolveVirtual
  BY <1>5, ResolveVirtualStep
<1>6. CASE \E b \in {s \in Side : MergedBy[s] > N} : ProcessHeader(b) \/ ProcessBody(b)
  BY <1>6, ProcessHeaderStep, ProcessBodyStep
<1>7. CASE Worker
  <2>1. CASE Receive
    BY <2>1, ReceiveStep
  <2>2. CASE Recover
    BY <2>2, RecoverStep
  <2>3. CASE AdvancePruningPoint
    BY <2>3, AdvancePruningPointStep
  <2>4. CASE BeginAdvanceUtxoset
    BY <2>4, BeginAdvanceUtxosetStep
  <2>5. CASE AdvanceUtxoset
    BY <2>5, AdvanceUtxosetStep
  <2>6. CASE EndAdvanceUtxoset
    BY <2>6, EndAdvanceUtxosetStep
  <2>7. CASE ResumePrune
    BY <2>7, ResumePruneStep
  <2>8. CASE BeginPrune
    BY <2>8, BeginPruneStep
  <2>9. CASE TrimGhostdag
    BY <2>9, TrimGhostdagStep
  <2>10. CASE BeginSweep
    BY <2>10, BeginSweepStep
  <2>11. CASE \E b \in Blocks : Visit(b)
    BY <2>11, VisitStep
  <2>12. CASE Reacquire
    BY <2>12, ReacquireStep
  <2>13. CASE Delete
    BY <2>13, DeleteStep
  <2>14. CASE EndSweep
    BY <2>14, EndSweepStep
  <2>15. CASE SetCheckpoint
    BY <2>15, SetCheckpointStep
  <2> QED
    BY <1>7, <2>1, <2>2, <2>3, <2>4, <2>5, <2>6, <2>7, <2>8, <2>9, <2>10, <2>11, <2>12, <2>13,
       <2>14, <2>15 DEF Worker
<1>8. CASE Yield
  BY <1>8, YieldStep
<1>9. CASE Ibd
  <2>1. CASE \E k \in SyncerSinks : StartIbd(k)
    BY <2>1, StartIbdStep
  <2>2. CASE FailIbd
    BY <2>2, FailIbdStep
  <2>3. CASE SyncHeaders
    BY <2>3, SyncHeadersStep
  <2>4. CASE VerifyPath
    BY <2>4, VerifyPathStep
  <2>5. CASE WritePath
    BY <2>5, WritePathStep
  <2>6. CASE ValidatePruningPoints
    BY <2>6, ValidateStep
  <2>7. CASE SyncMissingTrustedBodies
    BY <2>7, BodiesStep
  <2>8. CASE ClearBodyMissing
    BY <2>8, EmbodiedStep
  <2>9. CASE ClearPruningUtxoSet
    BY <2>9, ClearStep
  <2>10. CASE ImportPruningPointUtxoSet
    BY <2>10, ImportStep
  <2>11. CASE SetUtxosetStable
    BY <2>11, StableStep
  <2> QED
    BY <1>9, <2>1, <2>2, <2>3, <2>4, <2>5, <2>6, <2>7, <2>8, <2>9, <2>10, <2>11 DEF Ibd
<1>10. CASE StartRead \/ ReadChunk \/ EndRead \/ SendChunk
  BY <1>10, InvFrame, Zenon DEF StartRead, ReadChunk, EndRead, SendChunk, ReadUnchanged, storeVars, modelVars
<1>11. CASE UNCHANGED vars
  BY <1>11, InvFrame DEF vars, storeVars, procVars, modelVars
<1> QED
  BY <1>1, <1>2, <1>3, <1>4, <1>5, <1>6, <1>7, <1>8, <1>9, <1>10, <1>11 DEF Next

\* PruningInv is an invariant of the pruning processor with everything that races
\* with it.
THEOREM PruningInvariant == Spec => []PruningInv
<1>1. Init => PruningInv
  BY InvInit
<1>2. PruningInv /\ [Next]_vars => PruningInv'
  BY InvStep
<1> QED
  BY <1>1, <1>2, PTL DEF Spec

\* A UTXO set flagged stable is the state of the block utxoset_position names: the
\* diffs of advance_pruning_utxoset and an import of an IBD mix only when the whole
\* import, from the lowered flag to the raised one, passes between two rounds.
THEOREM UtxoSetAlwaysMatches == Spec => []UtxoSetMatchesPosition
<1>1. PruningInv => UtxoSetMatchesPosition
  BY DEF PruningInv, UtxoOK, UtxoSetMatchesPosition
<1> QED
  BY <1>1, PruningInvariant, PTL

\* recover_pruning_workflows_if_needed finds what it needs, unless the last import
\* overtook the worker: the position is at or below the pruning point, and no diff
\* in between was pruned.
THEOREM RecoveryAlwaysPossible == Spec => []RecoveryIsPossible
<1>1. PruningInv => RecoveryIsPossible
  <2> SUFFICES ASSUME PruningInv, stable, ~overtaken
               PROVE  position <= PruningPoint /\ \A b \in position + 1..PruningPoint : data[b] = "full"
    BY DEF RecoveryIsPossible, InTransitionalIbdState
  <2>1. position \in Nat /\ PruningPoint \in Nat /\ sink \in Nat /\ PruningPoint <= sink
    BY Parts DEF PointersOK
  <2>2. \A b \in position + 1..PruningPoint : b \in position + 1..sink
    BY <2>1
  <2> QED
    BY <2>2 DEF PruningInv, UtxoOK
<1> QED
  BY <1>1, PruningInvariant, PTL

=============================================================================
