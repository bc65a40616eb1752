------------------------- MODULE PruningDataProofs -------------------------
(***************************************************************************)
(* What the node promises to keep is there: the pruning point and its      *)
(* anticone in full, the relations of the windows below it, the blocks of  *)
(* the pruning proof, the headers of past pruning points and everything    *)
(* from the retention root on - for any DAG, wherever the process stops    *)
(* and whatever an IBD does while prune has let it in.                     *)
(*                                                                         *)
(* prune decides what to keep once, for the pruning point it starts with,  *)
(* and deletes for a long time.  KeepInv says why the decision stays       *)
(* right: what has been deleted was below the windows of that pruning      *)
(* point and every later one is higher, and no sample was left out of the  *)
(* past pruning points.                                                    *)
(***************************************************************************)
EXTENDS PruningProcessorProofs

\* prune has fixed what it keeps.
SweepSteps == {"trim", "lock", "sweep", "visit", "yield", "delete"}

\* The chain block s has b in its past, or is b.
Written(b, s) == IF b \in Chained THEN b <= s ELSE MergedBy[b] <= s

NeverMerged(b) == b \in Side /\ MergedBy[b] > N

OutOfWindow(b, pp) == InPast(pp, b) /\ Height(b) + Window < pp

\* The pointers: no sample up to the pruning point is left out.
StoreOK ==
  /\ root \in Points /\ chainLow \in Chained /\ chainLow <= PruningPoint
  /\ \A q \in Points : q <= PruningPoint => q \in Range(pps)

\* What is below the pruning point went for a reason, and what is above is complete.
DataOK ==
  /\ \A b \in Blocks : Written(b, sink) => data[b] # "none"
  /\ \A b \in Blocks : data[b] \in {"proof", "pastPoint", "gone"} =>
       OutOfWindow(b, PruningPoint) \/ NeverMerged(b)
  /\ \A b \in ProofBlocks : data[b] \in {"pastPoint", "gone"} => NeverMerged(b)
  /\ \A b \in Points : data[b] # "gone"
  /\ \A b \in Chained : chainLow <= b /\ root <= b /\ b <= sink => data[b] = "full" \/ b \in missing
  /\ \A b \in Side : PruningPoint < MergedBy[b] /\ MergedBy[b] <= sink => data[b] = "full"

\* What prune has decided covers all that its pruning point asks for.
Decided ==
  /\ \A b \in Side : SideParent[b] < w.pp /\ w.pp < MergedBy[b] /\ MergedBy[b] <= N => b \in w.keep
  /\ \A b \in Blocks : InPast(w.pp, b) /\ w.pp <= Height(b) + Window => b \in w.relations
  /\ \A q \in Points : q < w.pp => q \in w.headers

SweepOK ==
  /\ w.pc \notin {"recv", "recover", "advance"} => w.root <= root
  /\ HoldsPruningLock => ibd.pc = "idle"
  /\ w.pc \in SweepSteps => Decided

\* What an IBD has before it writes the pruning point, and before it declares the
\* bodies complete.
CatchUpOK ==
  ibd.pc = "running" =>
    /\ Head(ibd.plan) \in {"verify", "write"} =>
         \A b \in Blocks : Written(b, ibd.sink) => data[b] # "none"
    /\ Head(ibd.plan) = "write" =>
         /\ ibd.target <= ibd.sink
         /\ \A q \in Points : PruningPoint < q /\ q <= ibd.target => q \in Range(ibd.add)
    /\ Head(ibd.plan) = "embodied" => \A b \in missing : data[b] = "full"

KeepInv == StoreOK /\ DataOK /\ SweepOK /\ CatchUpOK

-----------------------------------------------------------------------------
(* Steps that take nothing away *)

\* What is out of the windows of a pruning point is out of those of a higher one.
LEMMA WindowsRise ==
  ASSUME NEW b \in Blocks, NEW p \in Nat, NEW q \in Nat, p <= q, OutOfWindow(b, p)
  PROVE  OutOfWindow(b, q)
<1>1. Height(b) \in Nat /\ Window \in Nat /\ (b \in Chained => b \in Nat) /\ (b \notin Chained => MergedBy[b] \in Nat)
  BY SideNumbers, Numbers
<1> QED
  BY <1>1 DEF OutOfWindow, InPast

\* The pointers are numbers after a step, too.
LEMMA NextNumbers ==
  ASSUME PruningInv'
  PROVE  PruningPoint' \in Points /\ PruningPoint' \in Nat /\ root' \in Nat /\ sink' \in Nat
<1>1. /\ pps' \in Seq(Points) /\ Len(pps') \in Nat \ {0}
      /\ root' \in Chained /\ sink' \in Chained
  BY DEF PruningInv, TypeOK, Points
<1>2. PruningPoint' \in Points
  BY <1>1 DEF PruningPoint, Last
<1> QED
  BY <1>1, <1>2, Numbers

\* Init has it: there is only genesis.
LEMMA KeepInvInit ==
  ASSUME Init
  PROVE  KeepInv
<1>1. Start
  BY DEF Init
<1>2. PruningPoint = Genesis /\ Genesis \in Range(pps)
  BY <1>1 DEF Start, PruningPoint, Last, Range
<1>3. StoreOK
  BY <1>1, <1>2, Numbers DEF Start, StoreOK
<1>4. DataOK
  <2>1. data = [b \in Blocks |-> IF b = Genesis THEN "full" ELSE "none"] /\ sink = 0 /\ PruningPoint = 0
    BY <1>1, <1>2 DEF Start, Genesis
  <2>2. ASSUME NEW b \in Blocks, Written(b, 0) PROVE b = Genesis
    BY <2>2, SideNumbers, Numbers, PruningAssumption DEF Written
  <2>3. \A b \in Side : ~(0 < MergedBy[b] /\ MergedBy[b] <= 0)
    BY SideNumbers
  <2>4. \A b \in Chained : b <= 0 => b = Genesis
    BY Numbers
  <2> QED
    BY <2>1, <2>2, <2>3, <2>4, Numbers, PruningAssumption DEF DataOK
<1>5. SweepOK /\ CatchUpOK
  BY <1>1 DEF Start, SweepOK, CatchUpOK, IdleWorker, NoIbd, HoldsPruningLock, SweepSteps
<1> QED
  BY <1>3, <1>4, <1>5 DEF KeepInv

\* Where blocks only gain data and the pointers only rise, DataOK stays.
LEMMA DataImproves ==
  ASSUME PruningInv, PruningInv', StoreOK, DataOK, chainLow' \in Chained,
         \A b \in Blocks : data'[b] = data[b] \/ data'[b] = "full" \/ (data[b] # "full" /\ data'[b] = "header"),
         PruningPoint <= PruningPoint', root <= root', chainLow <= chainLow',
         UNCHANGED <<missing, sink>>
  PROVE  DataOK'
<1>1. /\ PruningPoint \in Nat /\ PruningPoint' \in Nat /\ root \in Nat /\ root' \in Nat /\ sink \in Nat
      /\ chainLow \in Nat /\ chainLow' \in Nat
  BY Parts, NextNumbers, Numbers DEF StoreOK
<1>2. /\ \A b \in Blocks : data'[b] \in {"proof", "pastPoint", "gone", "none"} => data'[b] = data[b]
      /\ \A b \in Blocks : data[b] = "full" => data'[b] = "full"
  OBVIOUS
<1>4. (\A b \in Blocks : Written(b, sink) => data[b] # "none")'
  BY <1>2 DEF DataOK, Written
<1>5. (\A b \in Blocks : data[b] \in {"proof", "pastPoint", "gone"} =>
         OutOfWindow(b, PruningPoint) \/ NeverMerged(b))'
  <2> SUFFICES ASSUME NEW b \in Blocks, data'[b] \in {"proof", "pastPoint", "gone"}
               PROVE  OutOfWindow(b, PruningPoint') \/ NeverMerged(b)
    BY DEF OutOfWindow, NeverMerged, InPast, Height
  <2>1. OutOfWindow(b, PruningPoint) \/ NeverMerged(b)
    BY <1>2 DEF DataOK
  <2> QED
    BY <1>1, <2>1, WindowsRise
<1>6. (\A b \in ProofBlocks : data[b] \in {"pastPoint", "gone"} => NeverMerged(b))'
  BY <1>2, PruningAssumption DEF DataOK, NeverMerged
<1>7. (\A b \in Points : data[b] # "gone")'
  BY <1>2, Numbers DEF DataOK, Points
<1>8. (\A b \in Chained : chainLow <= b /\ root <= b /\ b <= sink => data[b] = "full" \/ b \in missing)'
  BY <1>1, <1>2, Numbers DEF DataOK
<1>9. (\A b \in Side : PruningPoint < MergedBy[b] /\ MergedBy[b] <= sink => data[b] = "full")'
  BY <1>1, <1>2, SideNumbers DEF DataOK
<1> QED
  BY <1>4, <1>5, <1>6, <1>7, <1>8, <1>9 DEF DataOK

\* What an IBD relies on stays while it takes no step itself.
LEMMA CatchUpStays ==
  ASSUME PruningInv, PruningInv', CatchUpOK, UNCHANGED <<ibd, missing>>,
         PruningPoint <= PruningPoint',
         \A b \in Blocks : data'[b] = data[b] \/ data'[b] = "full" \/ (data[b] # "full" /\ data'[b] = "header")
  PROVE  CatchUpOK'
<1>1. PruningPoint \in Nat /\ PruningPoint' \in Nat /\ missing \subseteq Blocks
  BY Parts, NextNumbers DEF TypeOK
<1>2. /\ \A b \in Blocks : data[b] # "none" => data'[b] # "none"
      /\ \A b \in Blocks : data[b] = "full" => data'[b] = "full"
  OBVIOUS
<1>3. \A q \in Points : PruningPoint' < q => PruningPoint < q
  BY <1>1, Numbers
<1> QED
  BY <1>1, <1>2, <1>3 DEF CatchUpOK, Written, Points

\* The worker moves, and keeps what it decided if it goes on with it.
LEMMA WorkerMove ==
  ASSUME PruningInv, PruningInv', KeepInv,
         UNCHANGED <<pps, root, missing, sink, chainLow, data, ibd>>,
         w'.pc \notin {"recv", "recover", "advance"} => w'.root <= root,
         w'.pc \in {"sweep", "visit", "delete"} => ibd.pc = "idle",
         w'.pc \in SweepSteps =>
           /\ w.pc \in SweepSteps /\ w'.pp = w.pp
           /\ w'.keep = w.keep /\ w'.relations = w.relations /\ w'.headers = w.headers
  PROVE  KeepInv'
<1>1. PruningPoint' = PruningPoint /\ PruningPoint \in Nat /\ root \in Nat
  BY Parts DEF PruningPoint
<1>2. StoreOK'
  BY <1>1 DEF KeepInv, StoreOK, Points
<1>3. chainLow \in Chained /\ chainLow \in Nat
  BY Numbers DEF KeepInv, StoreOK
<1>4. DataOK' /\ CatchUpOK'
  BY <1>1, <1>3, DataImproves, CatchUpStays DEF KeepInv
<1>5. w'.pc \in SweepSteps => Decided'
  BY DEF KeepInv, SweepOK, Decided, InPast, Height, Points
<1>6. SweepOK'
  BY <1>5 DEF SweepOK, HoldsPruningLock
<1> QED
  BY <1>2, <1>4, <1>6 DEF KeepInv

\* A process that ends leaves the stores alone and forgets the rest.
LEMMA StopKeeps ==
  ASSUME PruningInv, PruningInv', KeepInv, NEW reason, StopAs(reason), UNCHANGED storeVars
  PROVE  KeepInv'
<1>1. /\ UNCHANGED <<pps, root, missing, sink, chainLow, data>> /\ w' = IdleWorker /\ ibd' = NoIbd
  BY DEF StopAs, storeVars
<1>2. PruningPoint' = PruningPoint /\ PruningPoint \in Nat /\ root \in Nat /\ chainLow \in Chained /\ chainLow \in Nat
  BY <1>1, Parts, Numbers DEF PruningPoint, KeepInv, StoreOK
<1>3. StoreOK'
  BY <1>1, <1>2 DEF KeepInv, StoreOK, Points
<1>4. DataOK'
  BY <1>1, <1>2, DataImproves DEF KeepInv
<1>5. SweepOK' /\ CatchUpOK'
  BY <1>1 DEF SweepOK, CatchUpOK, IdleWorker, NoIbd, HoldsPruningLock, SweepSteps
<1> QED
  BY <1>3, <1>4, <1>5 DEF KeepInv

\* The worker on its way to prune and back: it reads pointers and takes up work.
LEMMA WorkerKeeps ==
  ASSUME PruningInv, PruningInv', KeepInv,
         \/ Receive \/ Recover \/ BeginAdvanceUtxoset \/ AdvanceUtxoset \/ EndAdvanceUtxoset
         \/ ResumePrune \/ SetCheckpoint
  PROVE  KeepInv'
<1>1. w \in WorkerType /\ root \in Nat
  BY Parts DEF TypeOK
<1>2. CASE Receive
  <2>1. /\ UNCHANGED <<pps, root, missing, sink, chainLow, data, ibd>>
        /\ w'.pc \in {"recover", "advance"}
    BY <1>2 DEF Receive, WorkerUnchanged, storeVars, IdleWorker
  <2> QED
    BY <2>1, WorkerMove DEF SweepSteps
<1>3. CASE Recover
  <2>1. /\ UNCHANGED <<pps, root, missing, sink, chainLow, data, ibd>>
        /\ w'.pc \in {"utxoBegin", "resume"} /\ w'.root = root
    BY <1>1, <1>3 DEF Recover, WorkerUnchanged, storeVars, WorkerType
  <2> QED
    BY <1>1, <2>1, WorkerMove DEF SweepSteps
<1>4. CASE AdvanceUtxoset
  <2>1. CASE MustHalt
    <3>1. /\ UNCHANGED <<pps, root, missing, sink, chainLow, data, ibd>> /\ w'.pc = "recv"
      BY <1>1, <1>4, <2>1 DEF AdvanceUtxoset, WorkerUnchanged, storeVars, Goto, AfterHalt, WorkerType
    <3> QED
      BY <3>1, WorkerMove DEF SweepSteps
  <2>2. CASE ~MustHalt /\ data[w.next] # "full"
    BY <1>4, <2>2, StopKeeps DEF AdvanceUtxoset, Panic
  <2>3. CASE ~MustHalt /\ data[w.next] = "full"
    <3>1. /\ UNCHANGED <<pps, root, missing, sink, chainLow, data, ibd>>
          /\ w.pc = "utxo" /\ w'.pc = "utxo" /\ w'.root = w.root
      BY <1>1, <1>4, <2>3 DEF AdvanceUtxoset, WorkerUnchanged, WorkerType
    <3> QED
      BY <3>1, WorkerMove DEF SweepSteps, KeepInv, SweepOK
  <2> QED
    BY <2>1, <2>2, <2>3
<1>5. CASE BeginAdvanceUtxoset \/ EndAdvanceUtxoset \/ ResumePrune
  <2>1. /\ UNCHANGED <<pps, root, missing, sink, chainLow, data, ibd>>
        /\ w.pc \in {"utxoBegin", "utxo", "resume"}
        /\ w'.pc \in {"utxo", "recv", "prune", "resume", "advance"} /\ w'.root = w.root
    BY <1>1, <1>5 DEF BeginAdvanceUtxoset, EndAdvanceUtxoset, ResumePrune, WorkerUnchanged, storeVars,
       Goto, WorkerType
  <2> QED
    BY <2>1, WorkerMove DEF SweepSteps, KeepInv, SweepOK
<1>6. CASE SetCheckpoint
  <2>1. /\ UNCHANGED <<pps, root, missing, sink, chainLow, data, ibd>> /\ w'.pc \in {"recv", "advance"}
    BY <1>1, <1>6 DEF SetCheckpoint, AfterPrune, WorkerUnchanged, Goto, WorkerType
  <2> QED
    BY <2>1, WorkerMove DEF SweepSteps
<1> QED
  BY <1>2, <1>3, <1>4, <1>5, <1>6

\* The worker within prune: with what it decided it goes from one block to the next.
LEMMA SweepKeeps ==
  ASSUME PruningInv, PruningInv', KeepInv,
         TrimGhostdag \/ (\E b \in Blocks : Visit(b)) \/ Yield \/ Reacquire \/ EndSweep
  PROVE  KeepInv'
<1>1. w \in WorkerType /\ SweepOK
  BY Parts DEF TypeOK, KeepInv
<1>2. CASE TrimGhostdag \/ Reacquire \/ EndSweep
  <2>1. /\ UNCHANGED <<pps, root, missing, sink, chainLow, data, ibd>>
        /\ w.pc \in SweepSteps /\ w'.pc \in {"lock", "delete", "checkpoint"}
        /\ w'.pc = "delete" => ibd.pc = "idle"
        /\ w'.root = w.root /\ w'.pp = w.pp
        /\ w'.keep = w.keep /\ w'.relations = w.relations /\ w'.headers = w.headers
    BY <1>1, <1>2 DEF TrimGhostdag, Reacquire, EndSweep, WorkerUnchanged, storeVars, Goto, WorkerType, SweepSteps
  <2> QED
    BY <1>1, <2>1, WorkerMove DEF SweepSteps, SweepOK
<1>3. CASE \E b \in Blocks : Visit(b)
  <2>1. PICK b \in Blocks : Visit(b)
    BY <1>3
  <2>2. UNCHANGED <<pps, root, missing, sink, chainLow, data, ibd>> /\ w.pc = "sweep"
    BY <2>1, Zenon DEF Visit, WorkerUnchanged, storeVars
  <2>3. /\ w'.pc \in {"sweep", "visit"} /\ w'.root = w.root /\ w'.pp = w.pp
        /\ w'.keep = w.keep /\ w'.relations = w.relations /\ w'.headers = w.headers
    <3>1. CASE Spared(b)
      BY <1>1, <2>1, <3>1, Zenon DEF Visit, WorkerType
    <3>2. CASE ~Spared(b)
      BY <1>1, <2>1, <3>2, Zenon DEF Visit, WorkerType
    <3> QED
      BY <3>1, <3>2
  <2> QED
    BY <1>1, <2>2, <2>3, WorkerMove DEF SweepSteps, SweepOK, HoldsPruningLock
<1>4. CASE Yield
  <2>1. /\ UNCHANGED <<pps, root, missing, sink, chainLow, data, ibd>>
        /\ w.pc = "visit" /\ w'.pc \in {"yield", "recv", "advance"}
        /\ w'.root = w.root /\ w'.pp = w.pp
        /\ w'.keep = w.keep /\ w'.relations = w.relations /\ w'.headers = w.headers
    BY <1>1, <1>4 DEF Yield, AfterPrune, WorkerUnchanged, storeVars, Goto, WorkerType
  <2> QED
    BY <1>1, <2>1, WorkerMove DEF SweepSteps, SweepOK
<1> QED
  BY <1>2, <1>3, <1>4

\* prune starts with the pruning point of the store, which is deep: whatever is in
\* its anticone has been merged by now.
LEMMA BeginPruneKeeps ==
  ASSUME PruningInv, PruningInv', KeepInv, BeginPrune
  PROVE  KeepInv'
<1>1. /\ w \in WorkerType /\ SweepOK /\ WorkerOK /\ w.pc = "prune" /\ pps \in Seq(Points) /\ pps # <<>>
      /\ PruningPoint \in Nat /\ sink \in Nat /\ root \in Nat
  BY Parts DEF TypeOK, KeepInv, BeginPrune
<1>2. CASE Archival
  <2>1. /\ UNCHANGED <<pps, root, missing, sink, chainLow, data, ibd>> /\ w'.pc \in {"recv", "advance"}
    BY <1>1, <1>2 DEF BeginPrune, AfterPrune, WorkerUnchanged, storeVars, Goto, WorkerType
  <2> QED
    BY <2>1, WorkerMove DEF SweepSteps
<1>3. CASE ~Archival /\ (PruningPoint # w.pp \/ ~DeepBelowVirtual(PruningPoint))
  BY <1>3, StopKeeps DEF BeginPrune, Panic
<1>4. CASE ~Archival /\ ~(PruningPoint # w.pp \/ ~DeepBelowVirtual(PruningPoint))
  <2> DEFINE keep == KeepBlocks(w.pp)
             relations == KeepRelations(w.pp)
             headers == {pps[i] : i \in 1..Len(pps) - 1}
  <2>1. /\ w' = [w EXCEPT !.pc = "trim", !.keep = keep, !.relations = relations, !.headers = headers]
        /\ UNCHANGED <<pps, root, missing, sink, chainLow, data, ibd>>
        /\ w.pp = PruningPoint /\ PruningPoint + PruningDepth <= sink + 1
    BY <1>4 DEF BeginPrune, WorkerUnchanged, storeVars, DeepBelowVirtual
  <2>2. ASSUME NEW b \in Side, SideParent[b] < w.pp, w.pp < MergedBy[b], MergedBy[b] <= N
        PROVE  b \in keep
    <3>1. MergedBy[b] <= SideParent[b] + PruningDepth /\ SideParent[b] \in Nat /\ MergedBy[b] \in Nat
      BY <2>2, SideNumbers
    <3>2. MergedBy[b] <= sink
      BY <1>1, <2>1, <2>2, <3>1, Numbers
    <3> QED
      BY <2>2, <3>2 DEF KeepBlocks
  <2>3. \A b \in Blocks : InPast(w.pp, b) /\ w.pp <= Height(b) + Window => b \in relations
    BY DEF KeepRelations
  <2>4. \A q \in Points : q < w.pp => q \in headers
    <3> SUFFICES ASSUME NEW q \in Points, q < w.pp PROVE \E i \in 1..Len(pps) - 1 : q = pps[i]
      OBVIOUS
    <3>1. q \in Nat /\ q <= PruningPoint /\ q # PruningPoint
      BY <1>1, <2>1, Numbers
    <3>2. q \in Range(pps)
      BY <3>1 DEF KeepInv, StoreOK
    <3>3. PICK i \in DOMAIN pps : q = pps[i]
      BY <3>2 DEF Range
    <3>4. i \in 1..Len(pps) /\ i # Len(pps) /\ Len(pps) \in Nat
      BY <1>1, <3>1, <3>3 DEF PruningPoint, Last
    <3>5. i \in 1..Len(pps) - 1
      BY <3>4
    <3> QED
      BY <3>3, <3>5
  <2> HIDE DEF keep, relations, headers
  <2>5. /\ w'.pc = "trim" /\ w'.root = w.root /\ w'.pp = w.pp
        /\ w'.keep = keep /\ w'.relations = relations /\ w'.headers = headers
    BY <1>1, <2>1 DEF WorkerType
  <2>6. Decided'
    BY <2>2, <2>3, <2>4, <2>5 DEF Decided, InPast, Height, Points
  <2>7. SweepOK'
    BY <1>1, <2>1, <2>5, <2>6 DEF SweepOK, HoldsPruningLock
  <2>8. PruningPoint' = PruningPoint /\ chainLow \in Chained /\ chainLow \in Nat
    BY <2>1, Numbers DEF PruningPoint, KeepInv, StoreOK
  <2>9. StoreOK'
    BY <2>1, <2>8 DEF KeepInv, StoreOK, Points
  <2>10. DataOK' /\ CatchUpOK'
    BY <1>1, <2>1, <2>8, DataImproves, CatchUpStays DEF KeepInv
  <2> QED
    BY <2>7, <2>9, <2>10 DEF KeepInv
<1> QED
  BY <1>2, <1>3, <1>4

\* The selected chain below the retention root of the worker goes.
LEMMA BeginSweepKeeps ==
  ASSUME PruningInv, PruningInv', KeepInv, BeginSweep
  PROVE  KeepInv'
<1>1. /\ w \in WorkerType /\ SweepOK /\ WorkerOK /\ w.pc = "lock" /\ PruningPoint \in Nat /\ root \in Nat
      /\ StoreOK /\ DataOK /\ CatchUpOK
  BY Parts DEF TypeOK, KeepInv, BeginSweep
<1>2. CASE w.root = w.pp /\ w.root < chainLow
  BY <1>2, StopKeeps DEF BeginSweep, Panic
<1>3. CASE ~(w.root = w.pp /\ w.root < chainLow)
  <2>1. /\ w' = [w EXCEPT !.pc = "sweep", !.queue = TreeRoots] /\ ibd.pc = "idle"
        /\ chainLow' = IF chainLow <= w.root THEN w.root ELSE chainLow
        /\ UNCHANGED <<pps, root, missing, sink, data, ibd>>
    BY <1>3 DEF BeginSweep, WorkerUnchanged
  <2>2. PruningPoint' = PruningPoint
    BY <2>1 DEF PruningPoint
  <2>3. /\ chainLow \in Chained /\ chainLow \in Nat /\ w.root \in Chained /\ w.root \in Nat
        /\ w.pp \in Nat /\ w.root <= w.pp /\ w.pp <= PruningPoint /\ chainLow <= PruningPoint
    BY <1>1, Numbers, Zenon DEF WorkerOK, StoreOK
  <2>4. chainLow' \in Chained /\ chainLow <= chainLow' /\ chainLow' <= PruningPoint
    BY <1>1, <2>1, <2>3
  <2>5. StoreOK'
    BY <1>1, <2>1, <2>2, <2>4 DEF StoreOK, Points
  <2>6. DataOK' /\ CatchUpOK'
    BY <1>1, <2>1, <2>2, <2>4, DataImproves, CatchUpStays
  <2>7. /\ w'.pc = "sweep" /\ w'.root = w.root /\ w'.pp = w.pp
        /\ w'.keep = w.keep /\ w'.relations = w.relations /\ w'.headers = w.headers
    BY <1>1, <2>1 DEF WorkerType
  <2>8. Decided'
    BY <1>1, <2>7 DEF SweepOK, SweepSteps, Decided, InPast, Height, Points
  <2>9. SweepOK'
    BY <1>1, <2>1, <2>7, <2>8 DEF SweepOK, HoldsPruningLock
  <2> QED
    BY <2>5, <2>6, <2>9 DEF KeepInv
<1> QED
  BY <1>2, <1>3

-----------------------------------------------------------------------------
(* Deletion *)

\* A block that prune deletes is in the past of its pruning point, or nobody ever
\* merges it: all else outside the future of the root is in the anticone it keeps.
LEMMA DeletedIsPast ==
  ASSUME PruningInv, KeepInv, w.pc \in {"visit", "delete"}, w.current \notin w.keep
  PROVE  /\ InPast(w.pp, w.current) \/ NeverMerged(w.current)
         /\ w.current \in Chained => w.current < w.root /\ w.current < w.pp
<1>1. /\ w.root \in Nat /\ w.pp \in Nat /\ w.root <= w.pp
      /\ w.current \in Blocks /\ ~InFuture(w.root, w.current) /\ Decided
  BY Parts, Numbers, Zenon DEF WorkerOK, KeepInv, SweepOK, SweepSteps
<1>2. CASE w.current \in Chained
  <2>1. w.current \in Nat /\ ~(w.root <= w.current)
    BY <1>1, <1>2, Numbers, Zenon DEF InFuture
  <2>2. w.current < w.root /\ w.current < w.pp
    BY <1>1, <2>1
  <2> QED
    BY <1>2, <2>2 DEF InPast
<1>3. CASE w.current \notin Chained
  <2>1. /\ w.current \in Side /\ SideParent[w.current] \in Nat /\ MergedBy[w.current] \in Nat
        /\ ~(w.root <= SideParent[w.current])
    BY <1>1, <1>3, SideNumbers DEF InFuture
  <2>2. SideParent[w.current] < w.pp
    BY <1>1, <2>1
  <2>3. ~(w.pp < MergedBy[w.current] /\ MergedBy[w.current] <= N)
    BY <1>1, <2>1, <2>2 DEF Decided
  <2> QED
    BY <1>1, <1>3, <2>1, <2>3, Numbers DEF InPast, NeverMerged
<1> QED
  BY <1>2, <1>3

\* delete of one block, in its batch.
LEMMA DeleteKeeps ==
  ASSUME PruningInv, PruningInv', KeepInv, Delete
  PROVE  KeepInv'
<1>1. /\ w \in WorkerType /\ SweepOK /\ WorkerOK /\ w.pc \in {"visit", "delete"}
      /\ PruningPoint \in Nat /\ root \in Nat /\ sink \in Nat /\ sink <= N
      /\ StoreOK /\ DataOK /\ CatchUpOK
  BY Parts, Numbers DEF TypeOK, KeepInv, Delete, Chained
<1>2. /\ w' = [w EXCEPT !.pc = "sweep", !.current = None]
      /\ data' = IF w.current \in w.keep THEN data ELSE [data EXCEPT ![w.current] = Remains(w.current)]
      /\ UNCHANGED <<pps, root, missing, sink, chainLow, ibd>>
  BY DEF Delete, WorkerUnchanged
<1>3. PruningPoint' = PruningPoint
  BY <1>2 DEF PruningPoint
<1>4. /\ ibd.pc = "idle" /\ Decided /\ w.current \in Blocks
      /\ w.root \in Nat /\ w.pp \in Nat /\ w.root <= w.pp /\ w.pp <= PruningPoint /\ w.root <= root
  BY <1>1, Numbers, Zenon DEF SweepOK, WorkerOK, HoldsPruningLock, SweepSteps
<1>5. StoreOK'
  BY <1>1, <1>2, <1>3 DEF StoreOK, Points
<1>6. CatchUpOK'
  BY <1>2, <1>4 DEF CatchUpOK
<1>7. SweepOK'
  <2>1. /\ w'.pc = "sweep" /\ w'.root = w.root /\ w'.pp = w.pp
        /\ w'.keep = w.keep /\ w'.relations = w.relations /\ w'.headers = w.headers
    BY <1>1, <1>2 DEF WorkerType
  <2>2. Decided'
    BY <1>4, <2>1 DEF Decided, InPast, Height, Points
  <2> QED
    BY <1>2, <1>4, <2>1, <2>2 DEF SweepOK, HoldsPruningLock
<1>8. DataOK'
  <2>1. CASE w.current \in w.keep
    <3>1. chainLow \in Chained /\ chainLow \in Nat /\ data' = data
      BY <1>1, <1>2, <2>1, Numbers DEF StoreOK
    <3> QED
      BY <1>1, <1>2, <1>3, <3>1, DataImproves
  <2>2. CASE w.current \notin w.keep
    <3> DEFINE c == w.current
               left == Remains(c)
    <3>1. /\ InPast(w.pp, c) \/ NeverMerged(c)
          /\ c \in Chained => c < w.root /\ c < w.pp
      BY <1>1, <2>2, DeletedIsPast
    <3>2. \A b \in Blocks : data'[b] = IF b = c THEN left ELSE data[b]
      BY <1>1, <1>2, <2>2, Parts DEF TypeOK, DataType
    <3>3. left \in {"header", "proof", "pastPoint", "gone"}
      BY DEF Remains
    <3>4. left # "header" => OutOfWindow(c, PruningPoint) \/ NeverMerged(c)
      <4> SUFFICES ASSUME left # "header", InPast(w.pp, c) PROVE OutOfWindow(c, PruningPoint)
        BY <3>1
      <4>1. ~(w.pp <= Height(c) + Window)
        BY <1>4 DEF Remains, Decided
      <4>2. OutOfWindow(c, w.pp)
        BY <1>4, <4>1, SideNumbers DEF OutOfWindow
      <4> QED
        BY <1>1, <1>4, <4>2, WindowsRise
    <3>5. c \in ProofBlocks /\ left \in {"pastPoint", "gone"} => NeverMerged(c)
      BY <3>1 DEF Remains
    <3>6. c \in Points => left # "gone"
      BY <1>4, <3>1, Numbers, Zenon DEF Remains, Decided
    <3> HIDE DEF left
    <3>7. (\A b \in Blocks : Written(b, sink) => data[b] # "none")'
      BY <1>1, <1>2, <3>2, <3>3 DEF DataOK, Written
    <3>8. (\A b \in Blocks : data[b] \in {"proof", "pastPoint", "gone"} =>
             OutOfWindow(b, PruningPoint) \/ NeverMerged(b))'
      BY <1>1, <1>3, <3>2, <3>4 DEF DataOK, OutOfWindow, NeverMerged, InPast, Height
    <3>9. (\A b \in ProofBlocks : data[b] \in {"pastPoint", "gone"} => NeverMerged(b))'
      BY <1>1, <3>2, <3>5, PruningAssumption DEF DataOK, NeverMerged
    <3>10. (\A b \in Points : data[b] # "gone")'
      BY <1>1, <3>2, <3>6, Numbers DEF DataOK, Points
    <3>11. (\A b \in Chained : chainLow <= b /\ root <= b /\ b <= sink => data[b] = "full" \/ b \in missing)'
      <4>1. c \in Chained => c \in Nat /\ c < w.root
        BY <3>1, Numbers, Zenon
      <4>2. c \in Chained => ~(root <= c)
        BY <1>1, <1>4, <4>1
      <4> QED
        BY <1>1, <1>2, <3>2, <4>2, Numbers DEF DataOK
    <3>12. (\A b \in Side : PruningPoint < MergedBy[b] /\ MergedBy[b] <= sink => data[b] = "full")'
      <4>1. c \in Side => ~(PruningPoint < MergedBy[c] /\ MergedBy[c] <= sink)
        BY <1>1, <1>4, <3>1, SideNumbers, Numbers DEF InPast, NeverMerged
      <4> QED
        BY <1>1, <1>2, <1>3, <3>2, <4>1, SideNumbers DEF DataOK
    <3> QED
      BY <3>7, <3>8, <3>9, <3>10, <3>11, <3>12 DEF DataOK
  <2> QED
    BY <2>1, <2>2
<1> QED
  BY <1>5, <1>6, <1>7, <1>8 DEF KeepInv

-----------------------------------------------------------------------------
(* Blocks arrive *)

\* A header or a body of a side block that nobody merges.
LEMMA SideKeeps ==
  ASSUME PruningInv, PruningInv', KeepInv, NEW b \in Side, ProcessHeader(b) \/ ProcessBody(b)
  PROVE  KeepInv'
<1>1. PruningPoint \in Nat /\ root \in Nat /\ data \in DataType /\ b \in Blocks
  BY Parts, SideNumbers DEF TypeOK
<1>2. CASE Panic("status of a pruned block")
  BY <1>2, StopKeeps DEF Panic
<1>3. CASE ~Panic("status of a pruned block")
  <2>1. /\ UNCHANGED <<pps, root, missing, sink, chainLow, w, ibd>>
        /\ \/ data[b] = "none" /\ data' = [data EXCEPT ![b] = "header"]
           \/ data' = [data EXCEPT ![b] = "full"]
    BY <1>3 DEF ProcessHeader, ProcessBody
  <2>2. \A c \in Blocks : data'[c] = data[c] \/ data'[c] = "full" \/ (data[c] # "full" /\ data'[c] = "header")
    BY <1>1, <2>1 DEF DataType
  <2>3. PruningPoint' = PruningPoint /\ chainLow \in Chained /\ chainLow \in Nat
    BY <2>1, Numbers DEF PruningPoint, KeepInv, StoreOK
  <2>4. StoreOK'
    BY <2>1, <2>3 DEF KeepInv, StoreOK, Points
  <2>5. DataOK' /\ CatchUpOK'
    BY <1>1, <2>1, <2>2, <2>3, DataImproves, CatchUpStays DEF KeepInv
  <2>6. SweepOK'
    BY <2>1 DEF KeepInv, SweepOK, Decided, HoldsPruningLock, InPast, Height, Points
  <2> QED
    BY <2>4, <2>5, <2>6 DEF KeepInv
<1> QED
  BY <1>2, <1>3

\* A new sink, with the blocks it merges, in full.
LEMMA AddBlockKeeps ==
  ASSUME PruningInv, PruningInv', KeepInv, AddBlock
  PROVE  KeepInv'
<1>1. /\ PruningPoint \in Nat /\ root \in Nat /\ sink \in Nat /\ data \in DataType
      /\ StoreOK /\ DataOK /\ SweepOK
  BY Parts DEF TypeOK, KeepInv
<1>2. /\ UNCHANGED <<pps, root, missing, chainLow, w, ibd>> /\ sink' = sink + 1 /\ ibd.pc = "idle"
      /\ data' = [b \in Blocks |->
                    IF b = sink + 1 \/ (b \in Side /\ MergedBy[b] = sink + 1) THEN "full" ELSE data[b]]
  BY DEF AddBlock
<1>3. PruningPoint' = PruningPoint
  BY <1>2 DEF PruningPoint
<1>4. StoreOK'
  BY <1>1, <1>2, <1>3 DEF StoreOK, Points
<1>5. SweepOK' /\ CatchUpOK'
  BY <1>1, <1>2 DEF SweepOK, CatchUpOK, Decided, HoldsPruningLock, InPast, Height, Points
<1>6. \A b \in Blocks :
        /\ data'[b] # data[b] => data'[b] = "full"
        /\ b = sink + 1 \/ (b \in Side /\ MergedBy[b] = sink + 1) => data'[b] = "full"
  BY <1>2
<1>7. \A b \in Blocks : data'[b] # "full" => data'[b] = data[b]
  BY <1>6
<1>8. (\A b \in Blocks : Written(b, sink) => data[b] # "none")'
  <2> SUFFICES ASSUME NEW b \in Blocks, Written(b, sink + 1), data'[b] # "full" PROVE data'[b] # "none"
    BY <1>2 DEF Written
  <2>1. Written(b, sink)
    BY <1>1, <1>6, SideNumbers, Numbers DEF Written
  <2> QED
    BY <1>1, <1>7, <2>1 DEF DataOK
<1>9. (\A b \in Blocks : data[b] \in {"proof", "pastPoint", "gone"} =>
         OutOfWindow(b, PruningPoint) \/ NeverMerged(b))'
  BY <1>1, <1>3, <1>7 DEF DataOK, OutOfWindow, NeverMerged, InPast, Height
<1>10. (\A b \in ProofBlocks : data[b] \in {"pastPoint", "gone"} => NeverMerged(b))'
  BY <1>1, <1>7, PruningAssumption DEF DataOK, NeverMerged
<1>11. (\A b \in Points : data[b] # "gone")'
  BY <1>1, <1>7, Numbers DEF DataOK, Points
<1>12. (\A b \in Chained : chainLow <= b /\ root <= b /\ b <= sink => data[b] = "full" \/ b \in missing)'
  <2> SUFFICES ASSUME NEW b \in Chained, chainLow <= b, root <= b, b <= sink + 1, data'[b] # "full"
               PROVE  b \in missing
    BY <1>2
  <2>1. b \in Nat /\ b \in Blocks /\ b # sink + 1
    BY <1>6, Numbers
  <2>2. b <= sink
    BY <1>1, <2>1
  <2> QED
    BY <1>1, <1>7, <2>1, <2>2 DEF DataOK
<1>13. (\A b \in Side : PruningPoint < MergedBy[b] /\ MergedBy[b] <= sink => data[b] = "full")'
  <2> SUFFICES ASSUME NEW b \in Side, PruningPoint < MergedBy[b], MergedBy[b] <= sink + 1, data'[b] # "full"
               PROVE  FALSE
    BY <1>2, <1>3
  <2>1. MergedBy[b] \in Nat /\ b \in Blocks /\ MergedBy[b] # sink + 1
    BY <1>6, SideNumbers
  <2>2. MergedBy[b] <= sink
    BY <1>1, <2>1
  <2> QED
    BY <1>1, <1>7, <2>1, <2>2 DEF DataOK
<1> QED
  BY <1>4, <1>5, <1>8, <1>9, <1>10, <1>11, <1>12, <1>13 DEF KeepInv, DataOK

-----------------------------------------------------------------------------
(* The pruning point moves *)

\* A batch that appends all the samples up to a new pruning point.
LEMMA PointsMove ==
  ASSUME PruningInv, StoreOK, NEW add \in Seq(Points), add # <<>>, pps' = pps \o add,
         root' = IF Archival THEN root ELSE AdvanceRetentionRoot(Last(add)),
         PruningPoint < Last(add),
         \A q \in Points : PruningPoint < q /\ q <= Last(add) => q \in Range(add)
  PROVE  /\ PruningPoint' = Last(add) /\ Last(add) \in Points /\ Last(add) \in Nat
         /\ root' \in Points /\ root' \in Nat /\ root <= root'
         /\ \A q \in Points : q <= PruningPoint' => q \in Range(pps')
<1>1. /\ pps \in Seq(Points) /\ root \in Points /\ root \in Nat
      /\ PruningPoint \in Nat /\ root <= PruningPoint
      /\ \A q \in Points : q <= PruningPoint => q \in Range(pps)
  BY Parts DEF TypeOK, PointersOK, StoreOK
<1>2. PruningPoint' = Last(add) /\ Last(add) \in Points
  BY <1>1, LastAdded DEF PruningPoint
<1>3. Last(add) \in Nat
  BY <1>2, Numbers, Zenon
<1>4. root' \in Points /\ root <= root'
  <2>1. CASE Archival
    BY <1>1, <2>1
  <2>2. CASE ~Archival
    <3>1. root <= Last(add)
      BY <1>1, <1>3
    <3> QED
      BY <1>1, <1>2, <2>2, <3>1, RootRises, Zenon
  <2> QED
    BY <2>1, <2>2
<1>5. ASSUME NEW q \in Points, q <= Last(add) PROVE q \in Range(pps')
  <2>1. q \in Nat
    BY Numbers
  <2>2. q \in Range(pps) \/ q \in Range(add)
    BY <1>1, <1>5, <2>1
  <2> QED
    BY <1>1, <2>2, RangeOfAdded
<1> QED
  BY <1>2, <1>3, <1>4, <1>5, Numbers

\* advance_pruning_point_if_possible.
LEMMA AdvanceKeeps ==
  ASSUME PruningInv, PruningInv', KeepInv, AdvancePruningPoint
  PROVE  KeepInv'
<1> DEFINE next == NextPruningPoints(Chain, w.sink, PruningPoint)
<1>1. /\ w.pc = "advance" /\ w \in WorkerType /\ w.sink \in Chained
      /\ PruningPoint \in Points /\ PruningPoint \in Nat /\ root \in Nat
      /\ StoreOK /\ DataOK /\ CatchUpOK
  BY Parts DEF AdvancePruningPoint, TypeOK, WorkerOK, KeepInv
<1>2. UNCHANGED <<missing, sink, chainLow, data, ibd>>
  BY DEF AdvancePruningPoint, WorkerUnchanged, storeVars
<1>3. CASE next = <<>>
  <2>1. UNCHANGED <<pps, root>> /\ w'.pc = "recv"
    BY <1>1, <1>3 DEF AdvancePruningPoint, Goto, storeVars, WorkerType
  <2> QED
    BY <1>2, <2>1, WorkerMove DEF SweepSteps
<1>4. CASE next # <<>>
  <2>1. /\ pps' = pps \o next
        /\ root' = IF Archival THEN root ELSE AdvanceRetentionRoot(Last(next))
        /\ w' = [w EXCEPT !.pc = "utxoBegin", !.pp = Last(next), !.root = root', !.next = PruningPoint + 1]
    BY <1>4 DEF AdvancePruningPoint
  <2>2. next \in Seq(Points) /\ PruningPoint < Last(next)
    BY <1>1, <1>4, NextPoints
  <2>3. \A q \in Points : PruningPoint < q /\ q <= Last(next) => q \in Range(next)
    BY <1>1, <1>4, SamplesAssumption DEF Points
  <2> HIDE DEF next
  <2>4. /\ PruningPoint' = Last(next) /\ Last(next) \in Nat
        /\ root' \in Points /\ root' \in Nat /\ root <= root'
        /\ \A q \in Points : q <= PruningPoint' => q \in Range(pps')
    BY <1>1, <1>4, <2>1, <2>2, <2>3, PointsMove
  <2>5. PruningPoint <= PruningPoint' /\ chainLow \in Chained /\ chainLow \in Nat /\ chainLow <= PruningPoint'
    BY <1>1, <2>2, <2>4, Numbers DEF StoreOK
  <2>6. StoreOK'
    BY <1>2, <2>4, <2>5 DEF StoreOK, Points
  <2>7. DataOK' /\ CatchUpOK'
    BY <1>1, <1>2, <2>4, <2>5, DataImproves, CatchUpStays
  <2>8. w'.pc = "utxoBegin" /\ w'.root = root'
    BY <1>1, <2>1 DEF WorkerType
  <2>9. SweepOK'
    BY <2>4, <2>8 DEF SweepOK, HoldsPruningLock, SweepSteps
  <2> QED
    BY <2>6, <2>7, <2>9 DEF KeepInv
<1> QED
  BY <1>3, <1>4

-----------------------------------------------------------------------------
(* The steps of an IBD *)

\* Where a plan is after a step.
LEMMA NextOfPlan ==
  ASSUME PruningInv, ibd.pc = "running", Done
  PROVE  ibd'.pc = "running" =>
           /\ ibd'.sink = ibd.sink /\ ibd'.target = ibd.target
           /\ Head(ibd.plan) = "headers" => Head(ibd'.plan) = "verify"
           /\ Head(ibd.plan) = "bodies" => Head(ibd'.plan) = "embodied"
           /\ Head(ibd.plan) \notin {"headers", "verify", "bodies"} =>
                Head(ibd'.plan) \notin {"verify", "write", "embodied"}
<1> SUFFICES ASSUME ibd'.pc = "running"
             PROVE  /\ ibd'.sink = ibd.sink /\ ibd'.target = ibd.target
                    /\ Head(ibd.plan) = "headers" => Head(ibd'.plan) = "verify"
                    /\ Head(ibd.plan) = "bodies" => Head(ibd'.plan) = "embodied"
                    /\ Head(ibd.plan) \notin {"headers", "verify", "bodies"} =>
                         Head(ibd'.plan) \notin {"verify", "write", "embodied"}
  OBVIOUS
<1>1. /\ ibd'.plan = Tail(ibd.plan) /\ ibd'.plan # <<>>
      /\ ibd'.sink = ibd.sink /\ ibd'.target = ibd.target
  BY DoneStep
<1>2. ibd.plan \in CatchUpPlans \cup RenewalPlans \cup HeaderPlans
  BY RunningPlan
<1>3. CASE ibd.plan \in CatchUpPlans
  BY <1>1, <1>3, CatchUpSteps
<1>4. CASE ibd.plan \in RenewalPlans
  <2>1. Tail(ibd.plan) \in HeaderPlans => Head(Tail(ibd.plan)) = "headers"
    BY HeaderSteps, Zenon
  <2> QED
    BY <1>1, <1>4, <2>1, RenewalSteps
<1>5. CASE ibd.plan \in HeaderPlans
  BY <1>1, <1>5, HeaderSteps
<1> QED
  BY <1>2, <1>3, <1>4, <1>5

\* A plan starts with headers, with bodies or with the removal of the UTXO set.
LEMMA StartOfPlan ==
  ASSUME NEW point, IbdPlan(point) # <<>>
  PROVE  Head(IbdPlan(point)) \notin {"verify", "write", "embodied"}
<1>1. ASSUME NEW plan,
             \/ plan = <<"headers">>
             \/ plan = <<"clear", "download", "stable", "headers">>
             \/ plan = <<"bodies", "embodied", "headers">>
             \/ plan = <<"bodies", "embodied", "clear", "download", "stable", "headers">>
             \/ plan = <<"headers", "verify", "write", "validate", "bodies", "embodied", "clear", "download", "stable">>
      PROVE  Head(plan) \notin {"verify", "write", "embodied"}
  <2>1. CASE plan = <<"headers">>
    BY <2>1
  <2>2. CASE plan = <<"clear", "download", "stable", "headers">>
    BY <2>2
  <2>3. CASE plan = <<"bodies", "embodied", "headers">>
    BY <2>3
  <2>4. CASE plan = <<"bodies", "embodied", "clear", "download", "stable", "headers">>
    BY <2>4
  <2>5. CASE plan = <<"headers", "verify", "write", "validate", "bodies", "embodied", "clear", "download", "stable">>
    BY <2>5
  <2> QED
    BY <1>1, <2>1, <2>2, <2>3, <2>4, <2>5
<1>2. \/ IbdPlan(point) = <<"headers">>
      \/ IbdPlan(point) = <<"clear", "download", "stable", "headers">>
      \/ IbdPlan(point) = <<"bodies", "embodied", "headers">>
      \/ IbdPlan(point) = <<"bodies", "embodied", "clear", "download", "stable", "headers">>
      \/ IbdPlan(point) = <<"headers", "verify", "write", "validate", "bodies", "embodied", "clear", "download", "stable">>
  BY DEF IbdPlan
<1> QED
  BY <1>1, <1>2

\* An IBD step that writes nothing a promise is about.
LEMMA IbdMove ==
  ASSUME PruningInv, PruningInv', KeepInv,
         UNCHANGED <<pps, root, missing, sink, chainLow, data, w>>,
         HoldsPruningLock => ibd'.pc = "idle", CatchUpOK'
  PROVE  KeepInv'
<1>1. PruningPoint' = PruningPoint /\ PruningPoint \in Nat /\ root \in Nat /\ chainLow \in Chained /\ chainLow \in Nat
  BY Parts, Numbers DEF PruningPoint, KeepInv, StoreOK
<1>2. StoreOK'
  BY <1>1 DEF KeepInv, StoreOK, Points
<1>3. DataOK'
  BY <1>1, DataImproves DEF KeepInv
<1>4. SweepOK'
  BY DEF KeepInv, SweepOK, Decided, HoldsPruningLock, InPast, Height, Points
<1> QED
  BY <1>2, <1>3, <1>4 DEF KeepInv

\* An IBD begins while nobody holds the pruning lock, and may fail at any moment.
LEMMA StartKeeps ==
  ASSUME PruningInv, PruningInv', KeepInv, NEW k \in SyncerSinks, StartIbd(k)
  PROVE  KeepInv'
<1>1. /\ UNCHANGED <<pps, root, missing, sink, chainLow, data, w>> /\ ~HoldsPruningLock
      /\ IbdPlan(Chain.point[k]) # <<>> /\ ibd'.plan = IbdPlan(Chain.point[k])
  BY DEF StartIbd, storeVars
<1>2. Head(ibd'.plan) \notin {"verify", "write", "embodied"}
  BY <1>1, StartOfPlan
<1>3. CatchUpOK'
  BY <1>2 DEF CatchUpOK
<1> QED
  BY <1>1, <1>3, IbdMove

\* Failing, looking at the past pruning points, replacing the UTXO set.
LEMMA QuietIbdKeeps ==
  ASSUME PruningInv, PruningInv', KeepInv,
         \/ FailIbd \/ ValidatePruningPoints \/ ClearPruningUtxoSet
         \/ ImportPruningPointUtxoSet \/ SetUtxosetStable
  PROVE  KeepInv'
<1>1. ibd.pc = "running" /\ IbdOK /\ PointersOK /\ (HoldsPruningLock => ibd.pc = "idle")
  BY Parts DEF KeepInv, SweepOK, FailIbd, ValidatePruningPoints, ClearPruningUtxoSet,
     ImportPruningPointUtxoSet, SetUtxosetStable, IbdAt
<1>2. CASE FailIbd
  <2>1. UNCHANGED <<pps, root, missing, sink, chainLow, data, w>> /\ ibd'.pc = "idle"
    BY <1>2 DEF FailIbd, storeVars, IbdUnchanged, NoIbd
  <2>2. CatchUpOK'
    BY <2>1 DEF CatchUpOK
  <2> QED
    BY <2>1, <2>2, IbdMove
<1>3. CASE ~FailIbd
  <2>1. /\ UNCHANGED <<pps, root, missing, chainLow, data, w>> /\ Done
        /\ Head(ibd.plan) \in {"validate", "clear", "download", "stable"}
        /\ sink' = sink \/ (sink' = ibd.target /\ Head(ibd.plan) = "download")
    BY <1>3 DEF ValidatePruningPoints, ClearPruningUtxoSet, ImportPruningPointUtxoSet, SetUtxosetStable,
       IbdAt, IbdUnchanged, storeVars
  <2>2. sink' = sink
    <3>1. ibd.plan \in RenewalPlans
      BY <1>1, <2>1, RunningPlan, PlanOfStep
    <3> QED
      BY <1>1, <2>1, <3>1, Zenon DEF IbdOK, PointersOK
  <2>3. CatchUpOK'
    BY <1>1, <2>1, NextOfPlan DEF CatchUpOK
  <2> QED
    BY <1>1, <2>1, <2>2, <2>3, IbdMove
<1> QED
  BY <1>2, <1>3

\* With the headers of the syncer no block of its past is unknown.
LEMMA HeadersKeep ==
  ASSUME PruningInv, PruningInv', KeepInv, SyncHeaders
  PROVE  KeepInv'
<1>1. /\ ibd.pc = "running" /\ Head(ibd.plan) = "headers" /\ ~HoldsPruningLock
      /\ PruningPoint \in Nat /\ root \in Nat
  BY Parts DEF SyncHeaders, IbdAt, KeepInv, SweepOK
<1>2. /\ UNCHANGED <<pps, root, missing, sink, chainLow, w>> /\ Done
      /\ data' = [b \in Blocks |->
           IF data[b] = "none" /\ (b \in Chained => b <= ibd.sink) /\ (b \in Side => MergedBy[b] <= ibd.sink)
           THEN "header" ELSE data[b]]
  BY DEF SyncHeaders, IbdUnchanged
<1>3. PruningPoint' = PruningPoint /\ chainLow \in Chained /\ chainLow \in Nat
  BY <1>2, Numbers DEF PruningPoint, KeepInv, StoreOK
<1>4. StoreOK'
  BY <1>2, <1>3 DEF KeepInv, StoreOK, Points
<1>5. DataOK'
  <2>1. \A b \in Blocks : data'[b] = data[b] \/ (data[b] # "full" /\ data'[b] = "header")
    BY <1>2
  <2> QED
    BY <1>1, <1>2, <1>3, <2>1, DataImproves DEF KeepInv
<1>6. SweepOK'
  BY <1>1, <1>2 DEF KeepInv, SweepOK, Decided, HoldsPruningLock, InPast, Height, Points
<1>7. CatchUpOK'
  <2> SUFFICES ASSUME ibd'.pc = "running" PROVE CatchUpOK'
    BY DEF CatchUpOK
  <2>1. ibd'.sink = ibd.sink /\ Head(ibd'.plan) = "verify"
    BY <1>1, <1>2, NextOfPlan
  <2>2. \A b \in Blocks : Written(b, ibd.sink) => data'[b] # "none"
    BY <1>2, SideNumbers DEF Written
  <2> QED
    BY <2>1, <2>2 DEF CatchUpOK, Written
<1> QED
  BY <1>4, <1>5, <1>6, <1>7 DEF KeepInv

\* The path to the new pruning point has every sample above the old one.
LEMMA VerifyKeeps ==
  ASSUME PruningInv, PruningInv', KeepInv, VerifyPath
  PROVE  KeepInv'
<1>1. /\ ibd.pc = "running" /\ Head(ibd.plan) = "verify" /\ ibd \in IbdType /\ IbdOK /\ PointersOK
      /\ PruningPoint \in Points /\ PruningPoint \in Nat /\ sink \in Nat
      /\ SweepOK /\ CatchUpOK
  BY Parts DEF VerifyPath, IbdAt, TypeOK, KeepInv
<1>2. /\ UNCHANGED <<pps, root, missing, sink, chainLow, data, w>>
      /\ ibd' = [ibd EXCEPT !.plan = Tail(@), !.add = PointsToAdd]
      /\ ibd.target + PruningDepth <= ibd.sink /\ PointsToAdd # <<>> /\ Last(PointsToAdd) = ibd.target
  BY DEF VerifyPath, PathIsValid, IbdUnchanged, storeVars
<1>3. ibd.plan \in CatchUpPlans
  BY <1>1, RunningPlan, PlanOfStep
<1>4. /\ ibd.target \in Points /\ ibd.target \in Nat /\ ibd.sink \in Chained /\ ibd.sink \in Nat
      /\ sink < ibd.target
  BY <1>1, <1>3, Numbers, Zenon DEF IbdOK
<1>5. Head(Tail(ibd.plan)) = "write"
  BY <1>1, <1>3, CatchUpSteps
<1>6. ibd.target <= ibd.sink /\ PruningPoint <= ibd.sink
  BY <1>1, <1>2, <1>4, Numbers DEF PointersOK
<1>7. \A q \in Points : PruningPoint < q /\ q <= ibd.target => q \in Range(PointsToAdd)
  BY <1>1, <1>2, <1>4, <1>6, SamplesAssumption DEF Points, PointsToAdd
<1>8. /\ ibd'.pc = "running" /\ ibd'.plan = Tail(ibd.plan) /\ ibd'.sink = ibd.sink
      /\ ibd'.target = ibd.target /\ ibd'.add = PointsToAdd
  BY <1>1, <1>2 DEF IbdType
<1>9. PruningPoint' = PruningPoint
  BY <1>2 DEF PruningPoint
<1>10. CatchUpOK'
  <2> HIDE DEF PointsToAdd
  <2> QED
    BY <1>1, <1>2, <1>5, <1>6, <1>7, <1>8, <1>9, Zenon DEF CatchUpOK, Written, Points
<1> QED
  BY <1>1, <1>2, <1>10, IbdMove DEF SweepOK

\* intrusive_pruning_point_store_writes: the new pruning point is the sink, so there
\* is nothing above it, and the windows below it were never pruned.
LEMMA WriteKeeps ==
  ASSUME PruningInv, PruningInv', KeepInv, WritePath
  PROVE  KeepInv'
<1>1. /\ ibd.pc = "running" /\ Head(ibd.plan) = "write" /\ ibd \in IbdType /\ IbdOK /\ PointersOK
      /\ PruningPoint \in Nat /\ sink \in Nat /\ root \in Nat /\ w \in WorkerType
      /\ StoreOK /\ DataOK /\ SweepOK /\ CatchUpOK
  BY Parts DEF WritePath, IbdAt, TypeOK, KeepInv
<1>2. /\ UNCHANGED <<data, w>> /\ Done
      /\ pps' = pps \o ibd.add
      /\ root' = IF Archival THEN root ELSE AdvanceRetentionRoot(ibd.target)
      /\ sink' = ibd.target /\ chainLow' = ibd.target /\ ibd.target \in missing'
  BY DEF WritePath, WritePruningPoint, IbdUnchanged
<1>3. ibd.plan \in CatchUpPlans
  BY <1>1, RunningPlan, PlanOfStep
<1>4. /\ ibd.target \in Points /\ sink < ibd.target /\ ibd.sink \in Chained
      /\ ibd.add \in Seq(Points) /\ ibd.add # <<>> /\ Last(ibd.add) = ibd.target
  BY <1>1, <1>3 DEF IbdOK, IbdType
<1>5. ibd.target \in Chained /\ ibd.target \in Nat /\ ibd.sink \in Nat
  BY <1>4, Numbers, Zenon
<1>6. PruningPoint < ibd.target /\ ibd.target <= ibd.sink
      /\ \A q \in Points : PruningPoint < q /\ q <= ibd.target => q \in Range(ibd.add)
  BY <1>1, <1>4, <1>5 DEF PointersOK, CatchUpOK
<1>7. /\ PruningPoint' = ibd.target /\ root' \in Points /\ root' \in Nat /\ root <= root'
      /\ \A q \in Points : q <= PruningPoint' => q \in Range(pps')
  BY <1>1, <1>2, <1>4, <1>6, PointsMove, Zenon
<1>8. StoreOK'
  BY <1>2, <1>5, <1>7 DEF StoreOK, Points
<1>9. SweepOK'
  <2>1. w.pc \notin {"recv", "recover", "advance"} => w.root \in Nat /\ w.root <= root
    BY <1>1, Parts, Numbers, Zenon DEF SweepOK, WorkerOK
  <2>2. w.pc \notin {"recv", "recover", "advance"} => w.root <= root'
    BY <1>1, <1>7, <2>1
  <2> QED
    BY <1>1, <1>2, <2>2 DEF SweepOK, Decided, HoldsPruningLock, InPast, Height, Points
<1>10. CatchUpOK'
  BY <1>1, <1>2, NextOfPlan, Zenon DEF CatchUpOK
<1>11. (\A b \in Blocks : Written(b, sink) => data[b] # "none")'
  <2> SUFFICES ASSUME NEW b \in Blocks, Written(b, ibd.target) PROVE data[b] # "none"
    BY <1>2 DEF Written
  <2>1. Written(b, ibd.sink)
    BY <1>5, <1>6, SideNumbers, Numbers DEF Written
  <2> QED
    BY <1>1, <2>1 DEF CatchUpOK
<1>12. (\A b \in Blocks : data[b] \in {"proof", "pastPoint", "gone"} =>
          OutOfWindow(b, PruningPoint) \/ NeverMerged(b))'
  <2> SUFFICES ASSUME NEW b \in Blocks, data[b] \in {"proof", "pastPoint", "gone"}
               PROVE  OutOfWindow(b, ibd.target) \/ NeverMerged(b)
    BY <1>2, <1>7 DEF OutOfWindow, NeverMerged, InPast, Height
  <2>1. OutOfWindow(b, PruningPoint) \/ NeverMerged(b)
    BY <1>1 DEF DataOK
  <2>2. PruningPoint <= ibd.target
    BY <1>1, <1>5, <1>6
  <2> QED
    BY <1>1, <1>5, <2>1, <2>2, WindowsRise
<1>13. (/\ \A b \in ProofBlocks : data[b] \in {"pastPoint", "gone"} => NeverMerged(b)
        /\ \A b \in Points : data[b] # "gone")'
  BY <1>1, <1>2 DEF DataOK, NeverMerged, Points
<1>14. (\A b \in Chained : chainLow <= b /\ root <= b /\ b <= sink => data[b] = "full" \/ b \in missing)'
  <2> SUFFICES ASSUME NEW b \in Chained, ibd.target <= b, b <= ibd.target PROVE b \in missing'
    BY <1>2
  <2>1. b = ibd.target
    BY <1>5, Numbers
  <2> QED
    BY <1>2, <2>1
<1>15. (\A b \in Side : PruningPoint < MergedBy[b] /\ MergedBy[b] <= sink => data[b] = "full")'
  BY <1>2, <1>5, <1>7, SideNumbers
<1> QED
  BY <1>8, <1>9, <1>10, <1>11, <1>12, <1>13, <1>14, <1>15 DEF KeepInv, DataOK

\* The bodies that were missing arrive.
LEMMA BodiesKeep ==
  ASSUME PruningInv, PruningInv', KeepInv, SyncMissingTrustedBodies
  PROVE  KeepInv'
<1>1. /\ ibd.pc = "running" /\ Head(ibd.plan) = "bodies" /\ ~HoldsPruningLock
      /\ PruningPoint \in Nat /\ root \in Nat /\ missing \subseteq Blocks
  BY Parts DEF SyncMissingTrustedBodies, IbdAt, KeepInv, SweepOK, TypeOK
<1>2. /\ UNCHANGED <<pps, root, missing, sink, chainLow, w>> /\ Done
      /\ data' = [b \in Blocks |-> IF b \in missing THEN "full" ELSE data[b]]
  BY DEF SyncMissingTrustedBodies, IbdUnchanged
<1>3. PruningPoint' = PruningPoint /\ chainLow \in Chained /\ chainLow \in Nat
  BY <1>2, Numbers DEF PruningPoint, KeepInv, StoreOK
<1>4. StoreOK'
  BY <1>2, <1>3 DEF KeepInv, StoreOK, Points
<1>5. DataOK'
  <2>1. \A b \in Blocks : data'[b] = data[b] \/ data'[b] = "full"
    BY <1>2
  <2> QED
    BY <1>1, <1>2, <1>3, <2>1, DataImproves DEF KeepInv
<1>6. SweepOK'
  BY <1>1, <1>2, Zenon DEF KeepInv, SweepOK, Decided, HoldsPruningLock, InPast, Height, Points
<1>7. CatchUpOK'
  <2>1. ibd'.pc = "running" => Head(ibd'.plan) = "embodied"
    BY <1>1, <1>2, NextOfPlan
  <2>2. \A b \in missing' : data'[b] = "full"
    BY <1>1, <1>2
  <2> QED
    BY <2>1, <2>2 DEF CatchUpOK
<1> QED
  BY <1>4, <1>5, <1>6, <1>7 DEF KeepInv

\* The set of missing bodies is cleared once all of them are there.
LEMMA EmbodiedKeeps ==
  ASSUME PruningInv, PruningInv', KeepInv, ClearBodyMissing
  PROVE  KeepInv'
<1>1. /\ ibd.pc = "running" /\ Head(ibd.plan) = "embodied" /\ ~HoldsPruningLock
      /\ \A b \in missing : data[b] = "full"
  BY DEF ClearBodyMissing, IbdAt, KeepInv, SweepOK, CatchUpOK
<1>2. /\ UNCHANGED <<pps, root, sink, chainLow, data, w>> /\ Done /\ missing' = {}
  BY DEF ClearBodyMissing, IbdUnchanged
<1>3. PruningPoint' = PruningPoint
  BY <1>2 DEF PruningPoint
<1>4. StoreOK'
  BY <1>2, <1>3 DEF KeepInv, StoreOK, Points
<1>5. DataOK'
  <2>1. /\ (\A b \in Blocks : Written(b, sink) => data[b] # "none")'
        /\ (\A b \in ProofBlocks : data[b] \in {"pastPoint", "gone"} => NeverMerged(b))'
        /\ (\A b \in Points : data[b] # "gone")'
        /\ (\A b \in Side : PruningPoint < MergedBy[b] /\ MergedBy[b] <= sink => data[b] = "full")'
    BY <1>2, <1>3, Zenon DEF KeepInv, DataOK, Written, NeverMerged, Points
  <2>2. (\A b \in Blocks : data[b] \in {"proof", "pastPoint", "gone"} =>
           OutOfWindow(b, PruningPoint) \/ NeverMerged(b))'
    BY <1>2, <1>3 DEF KeepInv, DataOK, OutOfWindow, NeverMerged, InPast, Height
  <2>3. (\A b \in Chained : chainLow <= b /\ root <= b /\ b <= sink => data[b] = "full" \/ b \in missing)'
    BY <1>1, <1>2 DEF KeepInv, DataOK
  <2> QED
    BY <2>1, <2>2, <2>3 DEF DataOK
<1>6. SweepOK'
  BY <1>1, <1>2, Zenon DEF KeepInv, SweepOK, Decided, HoldsPruningLock, InPast, Height, Points
<1>7. CatchUpOK'
  BY <1>1, <1>2, NextOfPlan DEF CatchUpOK
<1> QED
  BY <1>4, <1>5, <1>6, <1>7 DEF KeepInv

\* What is about messages, flags and reads only.
LEMMA KeepFrame ==
  ASSUME PruningInv, PruningInv', KeepInv,
         UNCHANGED <<pps, root, missing, sink, chainLow, data, w, ibd>>
  PROVE  KeepInv'
<1>1. PruningPoint' = PruningPoint
  BY DEF PruningPoint
<1>2. CatchUpOK'
  BY <1>1 DEF KeepInv, CatchUpOK, Written, Points
<1> QED
  BY <1>2, IbdMove DEF KeepInv, SweepOK

-----------------------------------------------------------------------------
(* The theorem *)

\* Every step of the node, of its worker, of an IBD and of a syncee's request.
LEMMA KeepInvStep ==
  ASSUME PruningInv, KeepInv, [Next]_vars
  PROVE  KeepInv'
<1> PruningInv'
  BY InvStep
<1>1. CASE Crash \/ WorkerExit
  <2>1. \E reason \in {"down"} : StopAs(reason) /\ UNCHANGED storeVars
    BY <1>1 DEF Crash, WorkerExit
  <2> QED
    BY <2>1, StopKeeps
<1>2. CASE SignalExit \/ Restart \/ ResolveVirtual
  BY <1>2, KeepFrame, Zenon DEF SignalExit, Restart, ResolveVirtual, storeVars
<1>3. CASE AddBlock
  BY <1>3, AddBlockKeeps
<1>4. CASE \E b \in {s \in Side : MergedBy[s] > N} : ProcessHeader(b) \/ ProcessBody(b)
  BY <1>4, SideKeeps
<1>5. CASE Worker \/ Yield
  <2>1. CASE \/ Receive \/ Recover \/ BeginAdvanceUtxoset \/ AdvanceUtxoset \/ EndAdvanceUtxoset
             \/ ResumePrune \/ SetCheckpoint
    BY <2>1, WorkerKeeps
  <2>2. CASE AdvancePruningPoint
    BY <2>2, AdvanceKeeps
  <2>3. CASE BeginPrune
    BY <2>3, BeginPruneKeeps
  <2>4. CASE BeginSweep
    BY <2>4, BeginSweepKeeps
  <2>5. CASE TrimGhostdag \/ (\E b \in Blocks : Visit(b)) \/ Yield \/ Reacquire \/ EndSweep
    BY <2>5, SweepKeeps
  <2>6. CASE Delete
    BY <2>6, DeleteKeeps
  <2> QED
    BY <1>5, <2>1, <2>2, <2>3, <2>4, <2>5, <2>6 DEF Worker
<1>6. CASE Ibd
  <2>1. CASE \E k \in SyncerSinks : StartIbd(k)
    BY <2>1, StartKeeps
  <2>2. CASE \/ FailIbd \/ ValidatePruningPoints \/ ClearPruningUtxoSet
             \/ ImportPruningPointUtxoSet \/ SetUtxosetStable
    BY <2>2, QuietIbdKeeps
  <2>3. CASE SyncHeaders
    BY <2>3, HeadersKeep
  <2>4. CASE VerifyPath
    BY <2>4, VerifyKeeps
  <2>5. CASE WritePath
    BY <2>5, WriteKeeps
  <2>6. CASE SyncMissingTrustedBodies
    BY <2>6, BodiesKeep
  <2>7. CASE ClearBodyMissing
    BY <2>7, EmbodiedKeeps
  <2> QED
    BY <1>6, <2>1, <2>2, <2>3, <2>4, <2>5, <2>6, <2>7 DEF Ibd
<1>7. CASE StartRead \/ ReadChunk \/ EndRead \/ SendChunk
  BY <1>7, KeepFrame, Zenon DEF StartRead, ReadChunk, EndRead, SendChunk, ReadUnchanged, storeVars
<1>8. CASE UNCHANGED vars
  BY <1>8, KeepFrame DEF vars, storeVars, procVars
<1> QED
  BY <1>1, <1>2, <1>3, <1>4, <1>5, <1>6, <1>7, <1>8 DEF Next

\* A block in the past of the pruning point is known, and above its windows it has
\* its relations.
LEMMA PastIsKnown ==
  ASSUME PruningInv, KeepInv, NEW b \in Blocks, InPast(PruningPoint, b)
  PROVE  /\ data[b] # "none" /\ ~NeverMerged(b)
         /\ PruningPoint <= Height(b) + Window => data[b] \in {"full", "header"}
<1>1. /\ PruningPoint \in Nat /\ sink \in Nat /\ sink \in Chained /\ PruningPoint <= sink
      /\ DataOK /\ data \in DataType
  BY Parts DEF TypeOK, PointersOK, KeepInv
<1>2. PruningPoint <= N /\ N \in Nat
  BY <1>1, Numbers DEF Chained
<1>3. Window \in Nat /\ Height(b) \in Nat
  BY SideNumbers
<1>4. Written(b, sink) /\ ~NeverMerged(b)
  <2>1. CASE b \in Chained
    <3>1. b \in Nat /\ b \notin Side
      BY <2>1, SideNumbers, Numbers
    <3> QED
      BY <1>1, <2>1, <3>1 DEF InPast, Written, NeverMerged
  <2>2. CASE b \notin Chained
    <3>1. b \in Side /\ MergedBy[b] \in Nat
      BY <2>2, SideNumbers
    <3> QED
      BY <1>1, <1>2, <2>2, <3>1 DEF InPast, Written, NeverMerged
  <2> QED
    BY <2>1, <2>2
<1>5. data[b] # "none"
  BY <1>1, <1>4 DEF DataOK
<1>6. ASSUME PruningPoint <= Height(b) + Window PROVE data[b] \in {"full", "header"}
  <2>1. ~OutOfWindow(b, PruningPoint)
    BY <1>1, <1>3, <1>6 DEF OutOfWindow
  <2>2. data[b] \notin {"proof", "pastPoint", "gone"}
    BY <1>1, <1>4, <2>1 DEF DataOK
  <2> QED
    BY <1>1, <1>5, <2>2 DEF DataType
<1> QED
  BY <1>4, <1>5, <1>6

\* KeepInv is what the promise asks for.
LEMMA KeepInvSuffices ==
  ASSUME PruningInv, KeepInv
  PROVE  PromisedDataIsKept
<1>1. /\ PruningPoint \in Nat /\ PruningPoint \in Chained /\ sink \in Nat /\ root \in Nat
      /\ root <= PruningPoint /\ PruningPoint <= sink /\ pps \in Seq(Points)
      /\ chainLow \in Nat /\ chainLow <= PruningPoint
      /\ DataOK /\ data \in DataType
  BY Parts, Numbers DEF TypeOK, PointersOK, KeepInv, StoreOK
<1>2. PruningPoint \notin missing => data[PruningPoint] = "full"
  BY <1>1 DEF DataOK
<1>3. ASSUME NEW b \in Side, SideParent[b] < PruningPoint, PruningPoint < MergedBy[b], MergedBy[b] <= sink
      PROVE  data[b] = "full"
  BY <1>1, <1>3 DEF DataOK
<1>4. \A b \in KeepBlocks(PruningPoint) \ missing : data[b] = "full"
  BY <1>2, <1>3 DEF KeepBlocks
<1>5. data[PruningPoint] \in {"full", "header"}
  <2>1. PruningPoint \in Blocks /\ ~NeverMerged(PruningPoint) /\ ~OutOfWindow(PruningPoint, PruningPoint)
    BY <1>1, SideNumbers DEF Blocks, NeverMerged, OutOfWindow, InPast
  <2>2. Written(PruningPoint, sink)
    BY <1>1 DEF Written
  <2>3. data[PruningPoint] # "none" /\ data[PruningPoint] \notin {"proof", "pastPoint", "gone"}
    BY <1>1, <2>1, <2>2 DEF DataOK
  <2> QED
    BY <1>1, <2>1, <2>3 DEF DataType
<1>6. \A b \in KeepRelations(PruningPoint) : data[b] \in {"full", "header"}
  BY <1>3, <1>5, PastIsKnown DEF KeepRelations, KeepBlocks
<1>7. ASSUME NEW b \in ProofBlocks, InPast(PruningPoint, b)
      PROVE  data[b] \in {"full", "header", "proof"}
  <2>1. b \in Blocks
    BY PruningAssumption
  <2>2. data[b] # "none" /\ ~NeverMerged(b)
    BY <1>7, <2>1, PastIsKnown
  <2>3. data[b] \notin {"pastPoint", "gone"}
    BY <1>1, <2>2 DEF DataOK
  <2> QED
    BY <1>1, <2>1, <2>2, <2>3 DEF DataType
<1>8. \A i \in 1..Len(pps) - 1 : data[pps[i]] # "gone"
  <2>1. \A i \in 1..Len(pps) - 1 : pps[i] \in Points
    BY <1>1
  <2> QED
    BY <1>1, <2>1 DEF DataOK
<1>9. ASSUME chainLow <= root, NEW b \in (root..PruningPoint) \ missing PROVE data[b] = "full"
  <2>1. b \in Nat /\ root <= b /\ b <= PruningPoint
    BY <1>1
  <2>2. b \in Chained /\ chainLow <= b /\ b <= sink
    BY <1>1, <1>9, <2>1, Numbers DEF Chained
  <2> QED
    BY <1>1, <2>1, <2>2 DEF DataOK
<1> QED
  BY <1>4, <1>6, <1>7, <1>8, <1>9 DEF PromisedDataIsKept

\* "We keep full data for pruning point and its anticone, relations for DAA/GD windows
\* and pruning proof, and only headers for past pruning points": the comment in prune
\* holds at every moment, between any two batches and after any crash.
THEOREM PromisedDataAlwaysKept == Spec => []PromisedDataIsKept
<1>1. Init => PruningInv /\ KeepInv
  BY InvInit, KeepInvInit
<1>2. PruningInv /\ KeepInv /\ [Next]_vars => (PruningInv /\ KeepInv)'
  BY InvStep, KeepInvStep
<1>3. PruningInv /\ KeepInv => PromisedDataIsKept
  BY KeepInvSuffices
<1> QED
  BY <1>1, <1>2, <1>3, PTL DEF Spec

=============================================================================
